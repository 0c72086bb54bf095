-------------------------- MODULE LedgerFileProofs ---------------------------
(***************************************************************************)
(* Proofs about LedgerFile: what holds of the file and of every handle     *)
(* whatever the writers do to each other, and what holds as long as syncs  *)
(* succeed and no append without the lock meets another writer, for any    *)
(* processes, records and length of the file.                              *)
(***************************************************************************)
EXTENDS LedgerFile, TLAPS, SequenceTheorems, WellFoundedInduction

Stamps  == {<<>>} \cup (Nat \X ({<<>>} \cup (BOOLEAN \X BOOLEAN \X BOOLEAN)))
Places  == {"closed", "load", "reload", "stamp", "idle", "write", "sync", "push"}
Writing == {"write", "sync", "push"}
Parts   == 0 .. 3
Handles == [at : Places, entries : Seq(Entries), stamp : Stamps,
            new : Entries, part : Parts, wrote : BOOLEAN]

\* A line that was run on is never read again, unless the power fails.
dead(f) == \E i \in 1 .. Len(f) : f[i].more

endsClean(f) == f = <<>> \/ f[Len(f)].ended

\* Only the last line may lack its newline, and a newline ends a whole text.
wellFormed(f) ==
    \A i \in 1 .. Len(f) : /\ i < Len(f) => f[i].ended
                           /\ f[i].ended => f[i].whole \/ f[i].more

\* Line i continues the entry before it with the next number.
linked(f, i) ==
    /\ Len(f[i].entry) > 0
    /\ Last(f[i].entry)[1] = i - 1
    /\ Front(f[i].entry) = IF i = 1 THEN <<>> ELSE f[i - 1].entry

\* The lines are linked up to and including the first that was run on.
chained(f) ==
    \A i \in 1 .. Len(f) : (\A j \in 1 .. i - 1 : ~f[j].more) => linked(f, i)

\* What a handle has of a file: all of it, or a past of it.
holds(es, f) ==
    Len(es) = Len(f) /\ \A i \in 1 .. Len(f) : es[i] = f[i].entry
past(es, f) ==
    Len(es) <= Len(f) /\ \A i \in 1 .. Len(es) : es[i] = f[i].entry

\* An entry is in the first n lines, or one of them is spoiled.
keptIn(f, n, e) == \E i \in 1 .. n : f[i].more \/ f[i].entry = e
-----------------------------------------------------------------------------
FileType ==
    /\ file \in Seq(Lines)
    /\ durable \in Nat /\ durable <= endedLines(file)
    /\ lock \in SUBSET Processes
    /\ handle \in [Processes -> Handles]
    /\ acked \in SUBSET Entries
    /\ syncFailed \in BOOLEAN /\ raced \in BOOLEAN

\* Where a handle is says how much of its line went to the file.
written(h, f, d) ==
    /\ h.at \notin Writing => h.part = 0
    /\ h.at = "write" => h.part < 3
    /\ h.at \in {"sync", "push"} => h.part = 3
    /\ h.at = "write" /\ h.part > 0 => keptIn(f, Len(f), h.new)
    /\ h.at = "sync" => keptIn(f, endedLines(f), h.new)
    /\ Fsync /\ h.at = "push" => keptIn(f, d, h.new)

\* What was only read is a past of the file.
readOnly(h, f) == ~h.wrote /\ ~dead(f) => past(h.entries, f)

LockOK ==
    /\ \A p, q \in lock : p = q
    /\ \A p \in lock : handle[p].at # "closed"

\* An acknowledged entry is in the part that no power failure takes, or that
\* part is spoiled.
DurableOK == Fsync => \A e \in acked : keptIn(file, durable, e)

\* The only appender's line is the last of the file, as far as it is written.
appenderKnows(h, f) ==
    /\ \E x \in Payloads : h.new = nextEntry(h.entries, x)
    /\ (h.part = 0 /\ ~dead(f) /\ endsClean(f)) => holds(h.entries, f)
    /\ h.part > 0 =>
        /\ endsClean(f) <=> h.part = 3
        /\ ~dead(f) => /\ holds(Append(h.entries, h.new), f)
                       /\ f[Len(f)].whole <=> h.part >= 2

\* What the holder of the lock has of a file: everything, as long as its lines
\* are good and ended; and its stamp says so.
current(h, f) ==
    /\ (~dead(f) /\ endsClean(f)) => holds(h.entries, f) /\ h.stamp = stampOf(f)
    /\ (~dead(f) /\ h.stamp = stampOf(f)) => holds(h.entries, f)

\* The stamp is that of a file of another length.
staleStamp(h, f) == \A g \in Seq(Lines) : Len(g) = Len(f) => h.stamp # stampOf(g)

\* What the handle that has the lock knows, at each place.
holderKnows(h, f) ==
    /\ h.at = "idle" => current(h, f)
    /\ h.at = "stamp" => holds(h.entries, f)
    /\ h.at = "reload" => /\ dead(f) \/ ~endsClean(f)
                          /\ h.stamp # stampOf(f)
    /\ h.at \in Writing => IF h.part = 0 THEN current(h, f)
                           ELSE dead(f) \/ staleStamp(h, f)

knows(h, f) ==
    /\ ~dead(f) => past(h.entries, f)
    /\ h.at \in Writing => appenderKnows(h, f)

\* One writer at a time, who knows the file it writes to.
Clean ==
    /\ chained(file)
    /\ \A p, q \in Processes :
            handle[p].at \in Writing /\ handle[q].at \in Writing => p = q
    /\ \A p \in Processes : handle[p].at \in Writing => p \in lock \/ lock = {}
    /\ \A p \in Processes : knows(handle[p], file)
    /\ \A p \in lock : holderKnows(handle[p], file)

FileInv ==
    /\ FileType /\ wellFormed(file) /\ LockOK /\ DurableOK
    /\ \A p \in Processes : written(handle[p], file, durable) /\ readOnly(handle[p], file)
    /\ ~raced /\ ~syncFailed => Clean
-----------------------------------------------------------------------------
(* The file, line by line.                                                   *)

LEMMA LineAt ==
    ASSUME NEW f \in Seq(Lines), NEW i \in 1 .. Len(f)
    PROVE  /\ f[i] \in Lines
           /\ f[i].entry \in Entries /\ f[i].whole \in BOOLEAN
           /\ f[i].more \in BOOLEAN /\ f[i].ended \in BOOLEAN
  <1>1. f[i] \in Lines
    BY ElementOfSeq
  <1> QED BY <1>1 DEF Lines

\* Complete lines.
LEMMA EndedCount ==
    ASSUME NEW f \in Seq(Lines)
    PROVE  /\ endedLines(f) = IF endsClean(f) THEN Len(f) ELSE Len(f) - 1
           /\ endedLines(f) \in Nat /\ Len(f) \in Nat
           /\ endedLines(f) <= Len(f) /\ Len(f) - 1 <= endedLines(f)
  <1>1. Len(f) \in Nat /\ (f # <<>> => Len(f) > 0) /\ (f = <<>> => Len(f) = 0)
    BY EmptySeq
  <1>2. endedLines(f) = IF endsClean(f) THEN Len(f) ELSE Len(f) - 1
    BY DEF endedLines, endsClean, Last
  <1>3. ~endsClean(f) => f # <<>>
    BY DEF endsClean
  <1> QED BY <1>1, <1>2, <1>3

\* More of a line is written to one without its newline: it runs on, unless it
\* is the line itself.
LEMMA RunOn ==
    ASSUME NEW f \in Seq(Lines), NEW e \in Entries, NEW m \in 0 .. 2,
           NEW n \in m + 1 .. 3, ~endsClean(f)
    PROVE  LET g == writeTo(f, e, m, n)
               k == Len(f) IN
           /\ g \in Seq(Lines) /\ Len(g) = k /\ k > 0
           /\ \A i \in 1 .. k - 1 : g[i] = f[i]
           /\ g[k].entry = f[k].entry /\ (f[k].more => g[k].more)
           /\ g[k].ended <=> n = 3
           /\ g[k].ended => g[k].whole \/ g[k].more
           /\ m = 0 => g[k].more
           /\ (m = 1 /\ f[k].entry = e /\ ~f[k].whole /\ ~f[k].more) =>
                    ~g[k].more /\ (g[k].whole <=> n >= 2)
           /\ (m = 2 /\ f[k].whole /\ ~f[k].more) => ~g[k].more /\ g[k].whole
  <1> DEFINE k == Len(f)
             line == [entry |-> e, whole |-> n >= 2, more |-> FALSE, ended |-> n = 3]
             begun == [entry |-> e, whole |-> FALSE, more |-> FALSE, ended |-> FALSE]
             on == [f[k] EXCEPT !.more = @ \/ m < 2 \/ ~f[k].whole, !.ended = n = 3]
             l == IF m = 1 /\ f[k] = begun THEN line ELSE on
  <1>1. f # <<>> /\ ~f[k].ended /\ k \in Nat /\ k > 0
    BY EmptySeq DEF endsClean
  <1>2. /\ f[k] \in Lines /\ f[k].whole \in BOOLEAN /\ f[k].more \in BOOLEAN
        /\ f[k].ended \in BOOLEAN /\ f[k].entry \in Entries
    BY <1>1, LineAt
  <1>3. /\ line \in Lines /\ line.entry = e /\ ~line.more
        /\ line.whole <=> n >= 2
        /\ line.ended <=> n = 3
    <2>1. line \in Lines /\ line.entry = e /\ ~line.more
      BY DEF Lines
    <2>2. line.whole <=> n >= 2
      BY Zenon
    <2>3. line.ended <=> n = 3
      BY Zenon
    <2> QED BY <2>1, <2>2, <2>3
  <1>4. /\ on \in Lines /\ on.entry = f[k].entry /\ on.whole = f[k].whole
        /\ on.more <=> f[k].more \/ m < 2 \/ ~f[k].whole
        /\ on.ended <=> n = 3
    BY <1>2 DEF Lines
  <1>b. /\ begun.entry = e /\ begun.whole = FALSE /\ begun.more = FALSE
        /\ begun \in Lines
    BY DEF Lines
  <1>c. ASSUME f[k].entry = e, ~f[k].whole, ~f[k].more PROVE f[k] = begun
    BY <1>1, <1>2, <1>c DEF Lines
  <1>5. writeTo(f, e, m, n) = Append(SubSeq(f, 1, k - 1), l)
    BY <1>1 DEF writeTo, Front, Last
  <1> HIDE DEF line, begun, on, l
  <1>6. /\ SubSeq(f, 1, k - 1) \in Seq(Lines) /\ Len(SubSeq(f, 1, k - 1)) = k - 1
        /\ \A i \in 1 .. k - 1 : SubSeq(f, 1, k - 1)[i] = f[i]
    <2>1. k - 1 \in 0 .. k
      BY <1>1
    <2>2. ASSUME NEW j \in 0 .. k
          PROVE  /\ SubSeq(f, 1, j) \in Seq(Lines) /\ Len(SubSeq(f, 1, j)) = j
                 /\ \A i \in 1 .. j : SubSeq(f, 1, j)[i] = f[i]
      BY <1>1
    <2> HIDE DEF k
    <2> QED BY <2>1, <2>2
  <1> USE DEF l
  <1>7. /\ l \in Lines /\ l.entry = f[k].entry /\ (f[k].more => l.more)
        /\ l.ended <=> n = 3
        /\ l.ended => l.whole \/ l.more
        /\ m = 0 => l.more
        /\ (m = 1 /\ f[k].entry = e /\ ~f[k].whole /\ ~f[k].more) =>
                    ~l.more /\ (l.whole <=> n >= 2)
        /\ (m = 2 /\ f[k].whole /\ ~f[k].more) => ~l.more /\ l.whole
    <2>1. CASE m = 1 /\ f[k] = begun
      <3>1. l = line
        BY <2>1
      <3> HIDE DEF l
      <3> QED BY <1>3, <1>b, <2>1, <3>1
    <2>2. CASE ~(m = 1 /\ f[k] = begun)
      <3>1. l = on
        BY <2>2
      <3> HIDE DEF l
      <3> QED BY <1>2, <1>4, <1>c, <2>2, <3>1
    <2> QED BY <2>1, <2>2
  <1> HIDE DEF l
  <1>8. LET g == Append(SubSeq(f, 1, k - 1), l) IN
        /\ g \in Seq(Lines) /\ Len(g) = k /\ g[k] = l
        /\ \A i \in 1 .. k - 1 : g[i] = f[i]
    BY <1>1, <1>6, <1>7
  <1> QED BY <1>1, <1>5, <1>7, <1>8

\* Otherwise the text begins a line, and a newline on its own adds none.
LEMMA NewLine ==
    ASSUME NEW f \in Seq(Lines), NEW e \in Entries, NEW m \in 0 .. 2,
           NEW n \in m + 1 .. 3, endsClean(f)
    PROVE  LET g == writeTo(f, e, m, n) IN
           /\ m = 2 => g = f
           /\ m # 2 =>
                /\ g \in Seq(Lines) /\ Len(g) = Len(f) + 1
                /\ \A i \in 1 .. Len(f) : g[i] = f[i]
                /\ g[Len(f) + 1].entry = e
                /\ g[Len(f) + 1].more <=> m = 1
                /\ g[Len(f) + 1].whole <=> n >= 2
                /\ g[Len(f) + 1].ended <=> n = 3
  <1> DEFINE line == [entry |-> e, whole |-> n >= 2, more |-> FALSE, ended |-> n = 3]
             l == [line EXCEPT !.more = m = 1]
  <1>0. CASE m = 2
    BY <1>0 DEF writeTo, endsClean, Last
  <1>1. CASE m # 2
    <2>1. /\ line \in Lines /\ line.entry = e
          /\ line.whole <=> n >= 2
          /\ line.ended <=> n = 3
      <3>1. line \in Lines /\ line.entry = e
        BY DEF Lines
      <3>2. line.whole <=> n >= 2
        BY Zenon
      <3>3. line.ended <=> n = 3
        BY Zenon
      <3> QED BY <3>1, <3>2, <3>3
    <2>2. writeTo(f, e, m, n) = Append(f, l)
      BY <1>1 DEF writeTo, endsClean, Last
    <2> HIDE DEF line
    <2>3. /\ l \in Lines /\ l.entry = e /\ (l.more <=> m = 1)
          /\ l.whole <=> n >= 2
          /\ l.ended <=> n = 3
      BY <2>1 DEF Lines
    <2> HIDE DEF l
    <2>4. LET g == Append(f, l) IN
          /\ g \in Seq(Lines) /\ Len(g) = Len(f) + 1 /\ g[Len(f) + 1] = l
          /\ \A i \in 1 .. Len(f) : g[i] = f[i]
      BY <2>3
    <2> QED BY <1>1, <2>2, <2>3, <2>4
  <1> QED BY <1>0, <1>1

\* The file g after any write, against the file f before: its lines go on where
\* they went, a line that was run on stays so, and a newline ends the file.
grown(f, e, m, n, g) ==
    /\ g \in Seq(Lines) /\ wellFormed(g)
    /\ Len(f) <= Len(g) /\ Len(g) <= Len(f) + 1
    /\ \A i \in 1 .. Len(f) : g[i].entry = f[i].entry
    /\ \A i \in 1 .. Len(f) : f[i].more => g[i].more
    /\ Len(g) > Len(f) => endsClean(f) /\ m # 2 /\ g[Len(f) + 1].entry = e
    /\ m = 0 => keptIn(g, Len(g), e)
    /\ n = 3 => endsClean(g)
    /\ endedLines(f) <= endedLines(g)

LEMMA WriteEffect ==
    ASSUME NEW f \in Seq(Lines), NEW e \in Entries, NEW m \in 0 .. 2,
           NEW n \in m + 1 .. 3, wellFormed(f)
    PROVE  grown(f, e, m, n, writeTo(f, e, m, n))
  <1> DEFINE g == writeTo(f, e, m, n)
  <1>t. Len(f) \in Nat /\ \A i \in 1 .. Len(f) : f[i] \in Lines
    BY LineAt
  <1>1. CASE endsClean(f) /\ m = 2
    <2>1. g = f
      BY <1>1, NewLine
    <2>2. endedLines(f) \in Nat
      BY EndedCount
    <2> QED BY <1>1, <1>t, <2>1, <2>2 DEF grown
  <1>2. CASE endsClean(f) /\ m # 2
    <2>1. /\ g \in Seq(Lines) /\ Len(g) = Len(f) + 1
          /\ \A i \in 1 .. Len(f) : g[i] = f[i]
          /\ g[Len(f) + 1].entry = e
          /\ g[Len(f) + 1].more <=> m = 1
          /\ g[Len(f) + 1].whole <=> n >= 2
          /\ g[Len(f) + 1].ended <=> n = 3
      BY <1>2, NewLine
    <2> HIDE DEF g
    <2>2. \A i \in 1 .. Len(g) : i \in 1 .. Len(f) \/ i = Len(f) + 1
      BY <1>t, <2>1
    <2>3. wellFormed(g)
      <3> SUFFICES ASSUME NEW i \in 1 .. Len(g)
                   PROVE  /\ i < Len(g) => g[i].ended
                          /\ g[i].ended => g[i].whole \/ g[i].more
        BY DEF wellFormed
      <3>1. CASE i = Len(f) + 1
        BY <2>1, <3>1
      <3>2. CASE i \in 1 .. Len(f)
        <4>1. f # <<>>
          BY <3>2
        <4>2. i = Len(f) => f[i].ended
          BY <1>2, <4>1 DEF endsClean
        <4> QED BY <1>t, <2>1, <3>2, <4>2 DEF wellFormed
      <3> QED BY <2>2, <3>1, <3>2
    <2>4. keptIn(g, Len(g), e)
      <3>1. Len(f) + 1 \in 1 .. Len(g)
        BY <1>t, <2>1
      <3> QED BY <2>1, <3>1 DEF keptIn
    <2>5. n = 3 => endsClean(g)
      BY <1>t, <2>1 DEF endsClean
    <2>6. endedLines(f) <= endedLines(g)
      BY <1>2, <1>t, <2>1, EndedCount
    <2> QED BY <1>2, <1>t, <2>1, <2>3, <2>4, <2>5, <2>6 DEF grown, g
  <1>3. CASE ~endsClean(f)
    <2> DEFINE k == Len(f)
    <2>1. /\ g \in Seq(Lines) /\ Len(g) = k /\ k > 0
          /\ \A i \in 1 .. k - 1 : g[i] = f[i]
          /\ g[k].entry = f[k].entry /\ (f[k].more => g[k].more)
          /\ g[k].ended <=> n = 3
          /\ g[k].ended => g[k].whole \/ g[k].more
          /\ m = 0 => g[k].more
      BY <1>3, RunOn
    <2> HIDE DEF g
    <2>2. \A i \in 1 .. k : i \in 1 .. k - 1 \/ i = k
      BY <1>t
    <2>3. wellFormed(g)
      BY <1>t, <2>1, <2>2 DEF wellFormed
    <2>4. m = 0 => keptIn(g, Len(g), e)
      <3>1. k \in 1 .. Len(g)
        BY <1>t, <2>1
      <3> QED BY <2>1, <3>1 DEF keptIn
    <2>5. n = 3 => endsClean(g)
      BY <1>t, <2>1 DEF endsClean
    <2>6. endedLines(f) <= endedLines(g)
      BY <1>3, <1>t, <2>1, EndedCount
    <2>7. \A i \in 1 .. k : g[i].entry = f[i].entry /\ (f[i].more => g[i].more)
      BY <2>1, <2>2
    <2> QED BY <1>3, <1>t, <2>1, <2>3, <2>4, <2>5, <2>6, <2>7 DEF grown, g
  <1> QED BY <1>1, <1>2, <1>3

\* What a growing file keeps.
LEMMA GrownKeeps ==
    ASSUME NEW f \in Seq(Lines), NEW e, NEW m, NEW n, NEW g, grown(f, e, m, n, g)
    PROVE  /\ dead(f) => dead(g)
           /\ \A a : \A k \in 0 .. Len(f), l \in Nat :
                    k <= l /\ keptIn(f, k, a) => keptIn(g, l, a)
           /\ \A es \in Seq(Entries) : past(es, f) => past(es, g)
  <1>1. /\ g \in Seq(Lines) /\ Len(f) \in Nat /\ Len(g) \in Nat /\ Len(f) <= Len(g)
        /\ \A i \in 1 .. Len(f) : g[i].entry = f[i].entry
        /\ \A i \in 1 .. Len(f) : f[i].more => g[i].more
    BY DEF grown
  <1>2. dead(f) => dead(g)
    BY <1>1 DEF dead
  <1>3. ASSUME NEW a, NEW k \in 0 .. Len(f), NEW l \in Nat, k <= l, keptIn(f, k, a)
        PROVE  keptIn(g, l, a)
    <2>1. PICK i \in 1 .. k : f[i].more \/ f[i].entry = a
      BY <1>3 DEF keptIn
    <2>2. i \in 1 .. Len(f) /\ i \in 1 .. l
      BY <1>1, <1>3
    <2>3. g[i].more \/ g[i].entry = a
      BY <1>1, <2>1, <2>2
    <2> QED BY <2>2, <2>3 DEF keptIn
  <1>4. ASSUME NEW es \in Seq(Entries), past(es, f) PROVE past(es, g)
    <2>1. Len(es) \in Nat
      OBVIOUS
    <2> QED BY <1>1, <1>4, <2>1 DEF past
  <1> QED BY <1>2, <1>3, <1>4

\* The only writer's line comes out as it should, unless it was run on.
LEMMA CleanWrite ==
    ASSUME NEW f \in Seq(Lines), NEW e \in Entries, NEW m \in 0 .. 2,
           NEW n \in m + 1 .. 3, wellFormed(f), NEW es \in Seq(Entries),
           (m = 0 /\ ~dead(f) /\ endsClean(f)) => holds(es, f),
           m > 0 => /\ ~endsClean(f)
                    /\ ~dead(f) => /\ holds(Append(es, e), f)
                                   /\ f[Len(f)].whole <=> m >= 2
    PROVE  LET g == writeTo(f, e, m, n) IN
           /\ endsClean(g) <=> n = 3
           /\ ~dead(g) => /\ ~dead(f) /\ holds(Append(es, e), g)
                          /\ g[Len(g)].whole <=> n >= 2
                          /\ m = 0 => endsClean(f) /\ Len(g) = Len(f) + 1
  <1> DEFINE g == writeTo(f, e, m, n)
             fs == Append(es, e)
  <1>t. Len(f) \in Nat /\ Len(es) \in Nat
    OBVIOUS
  <1>g. grown(f, e, m, n, g)
    BY WriteEffect
  <1>d. dead(f) => dead(g)
    BY <1>g, GrownKeeps
  <1>f. /\ fs \in Seq(Entries) /\ Len(fs) = Len(es) + 1 /\ fs[Len(es) + 1] = e
        /\ \A i \in 1 .. Len(es) : fs[i] = es[i]
    OBVIOUS
  <1>1. CASE m = 0 /\ endsClean(f)
    <2>1. /\ g \in Seq(Lines) /\ Len(g) = Len(f) + 1
          /\ \A i \in 1 .. Len(f) : g[i] = f[i]
          /\ g[Len(f) + 1].entry = e
          /\ g[Len(f) + 1].whole <=> n >= 2
          /\ g[Len(f) + 1].ended <=> n = 3
      BY <1>1, NewLine
    <2> HIDE DEF g, fs
    <2>2. endsClean(g) <=> n = 3
      BY <1>t, <2>1 DEF endsClean
    <2>3. ASSUME ~dead(f) PROVE holds(fs, g)
      <3>1. Len(es) = Len(f) /\ \A i \in 1 .. Len(f) : es[i] = f[i].entry
        BY <1>1, <2>3 DEF holds
      <3>2. \A i \in 1 .. Len(g) : i \in 1 .. Len(f) \/ i = Len(f) + 1
        BY <1>t, <2>1
      <3>3. \A i \in 1 .. Len(g) : fs[i] = g[i].entry
        BY <1>f, <2>1, <3>1, <3>2
      <3> QED BY <1>f, <2>1, <3>1, <3>3 DEF holds
    <2> QED BY <1>1, <1>d, <2>1, <2>2, <2>3 DEF g, fs
  <1>2. CASE m = 0 /\ ~endsClean(f)
    <2>1. /\ g \in Seq(Lines) /\ Len(g) = Len(f) /\ Len(f) > 0
          /\ g[Len(f)].more
          /\ g[Len(f)].ended <=> n = 3
      BY <1>2, RunOn
    <2> HIDE DEF g, fs
    <2>2. dead(g) /\ (endsClean(g) <=> n = 3)
      BY <1>t, <2>1 DEF dead, endsClean
    <2> QED BY <2>2 DEF g
  <1>3. CASE m > 0
    <2> DEFINE k == Len(f)
    <2>0. ~endsClean(f) /\ m \in 1 .. 2
      BY <1>3
    <2>1. /\ g \in Seq(Lines) /\ Len(g) = k /\ k > 0
          /\ \A i \in 1 .. k - 1 : g[i] = f[i]
          /\ g[k].entry = f[k].entry
          /\ g[k].ended <=> n = 3
          /\ (m = 1 /\ f[k].entry = e /\ ~f[k].whole /\ ~f[k].more) =>
                    ~g[k].more /\ (g[k].whole <=> n >= 2)
          /\ (m = 2 /\ f[k].whole /\ ~f[k].more) => ~g[k].more /\ g[k].whole
      BY <2>0, RunOn
    <2> HIDE DEF g, fs
    <2>2. endsClean(g) <=> n = 3
      BY <1>t, <2>1 DEF endsClean
    <2>3. ASSUME ~dead(f) PROVE holds(fs, g) /\ (g[Len(g)].whole <=> n >= 2)
      <3>1. holds(fs, f) /\ (f[k].whole <=> m >= 2)
        BY <1>3, <2>3 DEF fs
      <3>2. Len(fs) = k /\ \A i \in 1 .. k : fs[i] = f[i].entry
        BY <3>1 DEF holds
      <3>3. k \in 1 .. k /\ ~f[k].more /\ f[k].entry = e
        BY <1>t, <1>f, <2>1, <2>3, <3>2 DEF dead
      <3>4. \A i \in 1 .. k : i \in 1 .. k - 1 \/ i = k
        BY <1>t
      <3>5. \A i \in 1 .. k : fs[i] = g[i].entry
        BY <2>1, <3>2, <3>4
      <3>6. m = 1 \/ (m = 2 /\ n >= 2)
        BY <2>0
      <3>7. g[k].whole <=> n >= 2
        BY <2>0, <2>1, <3>1, <3>3, <3>6
      <3> QED BY <2>1, <3>2, <3>5, <3>7 DEF holds
    <2> QED BY <1>3, <1>d, <2>1, <2>2, <2>3 DEF g, fs
  <1> QED BY <1>1, <1>2, <1>3

\* A non-empty set of naturals has a least element.
LEMMA LeastNatural ==
    ASSUME NEW T, T \subseteq Nat, T # {}
    PROVE  \E x \in T : \A y \in T : x <= y
  <1>1. PICK x \in T : \A y \in T : <<y, x>> \notin OpToRel(<, Nat)
    BY WFMin, NatLessThanWellFounded
  <1>2. \A y \in T : ~(y < x)
    BY <1>1 DEF OpToRel
  <1> QED BY <1>2

\* Reading gives the entries of the lines up to the first that does not parse,
\* and all of them when every line does.
LEMMA ReadBackEffect ==
    ASSUME NEW f \in Seq(Lines)
    PROVE  /\ readBack(f) \in Seq(Entries)
           /\ past(readBack(f), f)
           /\ loads(f) => holds(readBack(f), f)
  <1> DEFINE good == {n \in 0 .. Len(f) : \A i \in 1 .. n : readable(f[i])}
             top == CHOOSE n \in good : \A m \in good : m <= n
             bad == {i \in 1 .. Len(f) : ~readable(f[i])}
  <1>t. Len(f) \in Nat /\ DOMAIN f = 1 .. Len(f)
    BY LenProperties
  <1>1. \E n \in good : \A m \in good : m <= n
    <2>1. CASE bad = {}
      <3>1. Len(f) \in good
        BY <1>t, <2>1
      <3> QED BY <1>t, <3>1
    <2>2. CASE bad # {}
      <3>1. bad \subseteq Nat
        BY <1>t
      <3>2. PICK k \in bad : \A i \in bad : k <= i
        BY <2>2, <3>1, LeastNatural
      <3>3. k - 1 \in good
        <4>1. k \in Nat /\ k >= 1 /\ k <= Len(f)
          BY <1>t, <3>2
        <4>2. \A i \in 1 .. k - 1 : i \notin bad /\ i \in 1 .. Len(f)
          BY <1>t, <3>2, <4>1
        <4> QED BY <1>t, <4>1, <4>2
      <3>4. \A m \in good : m <= k - 1
        BY <1>t, <3>2
      <3> QED BY <3>3, <3>4
    <2> QED BY <2>1, <2>2
  <1>2. top \in good /\ \A m \in good : m <= top
    BY <1>1
  <1>3. readBack(f) = [i \in 1 .. top |-> f[i].entry]
    BY DEF readBack
  <1>4. top \in Nat /\ top <= Len(f)
    BY <1>t, <1>2
  <1>5. loads(f) => top = Len(f)
    <2> SUFFICES ASSUME loads(f) PROVE top = Len(f)
      OBVIOUS
    <2>1. Len(f) \in good
      BY <1>t DEF loads
    <2>2. Len(f) <= top
      BY <1>2, <2>1
    <2> QED BY <1>t, <1>4, <2>2
  <1> HIDE DEF top, good
  <1>6. \A i \in 1 .. top : i \in 1 .. Len(f) /\ f[i].entry \in Entries
    BY <1>t, <1>4, LineAt
  <1>7. [i \in 1 .. top |-> f[i].entry] \in Seq(Entries)
    BY <1>4, <1>6
  <1>8. Len([i \in 1 .. top |-> f[i].entry]) = top
    BY <1>4, <1>6
  <1> QED BY <1>3, <1>4, <1>5, <1>7, <1>8 DEF past, holds

\* A stamp tells files of different lengths apart.
LEMMA StampType ==
    ASSUME NEW f \in Seq(Lines)
    PROVE  /\ stampOf(f) \in Stamps
           /\ \A g \in Seq(Lines) : stampOf(f) = stampOf(g) => Len(f) = Len(g)
  <1>1. stampOf(f) \in Stamps
    <2>1. CASE f = <<>>
      BY <2>1 DEF stampOf, Stamps
    <2>2. CASE f # <<>>
      <3>1. Len(f) \in 1 .. Len(f)
        BY <2>2, EmptySeq
      <3>2. /\ f[Len(f)].whole \in BOOLEAN /\ f[Len(f)].more \in BOOLEAN
            /\ f[Len(f)].ended \in BOOLEAN
        BY <3>1, LineAt
      <3> QED BY <2>2, <3>2 DEF stampOf, Stamps, Last
    <2> QED BY <2>1, <2>2
  <1> QED BY <1>1 DEF stampOf

\* The entry that extends what a handle holds is linked to it.
LEMMA NextEntryLinks ==
    ASSUME NEW es \in Seq(Entries), NEW x \in Payloads
    PROVE  LET e == nextEntry(es, x) IN
           /\ e \in Entries /\ Len(e) > 0
           /\ Last(e)[1] = Len(es)
           /\ Front(e) = IF es = <<>> THEN <<>> ELSE es[Len(es)]
  <1> DEFINE tip == IF es = <<>> THEN <<>> ELSE es[Len(es)]
             y   == <<Len(es), x>>
  <1>1. tip \in Seq(Nat \X Payloads)
    <2>1. CASE es = <<>>
      BY <2>1
    <2>2. CASE es # <<>>
      BY <2>2, EmptySeq, ElementOfSeq DEF Entries
    <2> QED BY <2>1, <2>2
  <1>2. y \in Nat \X Payloads /\ y[1] = Len(es)
    OBVIOUS
  <1>3. nextEntry(es, x) = Append(tip, y)
    BY DEF nextEntry, Last
  <1> HIDE DEF tip, y
  <1>4. /\ Append(tip, y) \in Seq(Nat \X Payloads)
        /\ Len(Append(tip, y)) = Len(tip) + 1 /\ Len(tip) \in Nat
        /\ Append(tip, y)[Len(tip) + 1] = y
    BY <1>1, <1>2
  <1>5. SubSeq(Append(tip, y), 1, Len(tip)) = tip
    BY <1>1, <1>2, <1>4
  <1> QED BY <1>2, <1>3, <1>4, <1>5 DEF Last, Front, Entries, tip
-----------------------------------------------------------------------------
(* The steps.                                                                *)

LEMMA ClosedType ==
    /\ Closed \in Handles /\ Closed.at = "closed" /\ Closed.at \notin Writing
    /\ \A f \in Seq(Lines) : past(Closed.entries, f)
    /\ \A f \in Seq(Lines) : readOnly(Closed, f) /\ knows(Closed, f)
    /\ \A f, d : written(Closed, f, d)
  <1>1. /\ Closed \in Handles /\ Closed.at = "closed" /\ Closed.at \notin Writing
        /\ Closed.part = 0 /\ Closed.entries = <<>>
    BY DEF Closed, Handles, Places, Stamps, Entries, Parts, Writing
  <1>2. \A f \in Seq(Lines) : past(Closed.entries, f)
    BY <1>1 DEF past
  <1> QED BY <1>1, <1>2 DEF written, readOnly, knows, Writing

LEMMA HandleFields ==
    ASSUME FileInv, NEW p \in Processes
    PROVE  /\ handle[p] \in Handles
           /\ handle[p].at \in Places /\ handle[p].entries \in Seq(Entries)
           /\ handle[p].stamp \in Stamps /\ handle[p].wrote \in BOOLEAN
           /\ handle[p].new \in Entries /\ handle[p].part \in 0 .. 3
           /\ file \in Seq(Lines) /\ handle \in [Processes -> Handles]
           /\ durable \in Nat /\ durable <= endedLines(file)
           /\ syncFailed \in BOOLEAN /\ raced \in BOOLEAN
           /\ wellFormed(file)
           /\ written(handle[p], file, durable) /\ readOnly(handle[p], file)
           /\ p \in lock => handle[p].at # "closed"
           /\ ~raced /\ ~syncFailed =>
                /\ knows(handle[p], file)
                /\ p \in lock => holderKnows(handle[p], file)
                /\ handle[p].at \in Writing => p \in lock \/ lock = {}
                /\ handle[p].at \in Writing =>
                        \A q \in Processes : handle[q].at \in Writing => q = p
  <1>1. handle[p] \in Handles /\ handle \in [Processes -> Handles]
    BY DEF FileInv, FileType
  <1>2. /\ handle[p].at \in Places /\ handle[p].entries \in Seq(Entries)
        /\ handle[p].stamp \in Stamps /\ handle[p].wrote \in BOOLEAN
        /\ handle[p].new \in Entries /\ handle[p].part \in 0 .. 3
    BY <1>1 DEF Handles, Parts
  <1>3. ASSUME ~raced, ~syncFailed
        PROVE  /\ knows(handle[p], file)
               /\ p \in lock => holderKnows(handle[p], file)
               /\ handle[p].at \in Writing => p \in lock \/ lock = {}
               /\ handle[p].at \in Writing =>
                        \A q \in Processes : handle[q].at \in Writing => q = p
    BY <1>3 DEF FileInv, Clean
  <1> QED BY <1>1, <1>2, <1>3 DEF FileInv, FileType, LockOK

\* Nobody else is in an append.
alone(p) == \A q \in Processes \ {p} : handle[q].at \notin Writing

\* A step that changes one handle and leaves the file alone.
LEMMA HandleStep ==
    ASSUME FileInv, NEW p \in Processes, NEW h \in Handles,
           handle' = [handle EXCEPT ![p] = h], file' = file,
           \/ lock' = lock
           \/ lock' = lock \ {p}
           \/ lock = {} /\ lock' = {p},
           durable' \in Nat, durable <= durable', durable' <= endedLines(file),
           acked' \in SUBSET Entries,
           \A e \in acked' : e \in acked \/ (Fsync => keptIn(file, durable', e)),
           syncFailed' \in BOOLEAN, syncFailed => syncFailed',
           raced' \in BOOLEAN, raced => raced',
           p \in lock' => h.at # "closed",
           written(h, file, durable'), readOnly(h, file),
           ~raced' /\ ~syncFailed' =>
                /\ knows(h, file)
                /\ p \in lock' => holderKnows(h, file)
                /\ h.at \in Writing => p \in lock' \/ lock' = {}
                /\ (h.at \in Writing \/ ~(lock' \subseteq lock)) => alone(p)
    PROVE  FileInv'
  <1>1. /\ handle' \in [Processes -> Handles] /\ handle'[p] = h
        /\ \A q \in Processes : q # p => handle'[q] = handle[q]
        /\ handle \in [Processes -> Handles]
    BY DEF FileInv, FileType
  <1>2. lock' \in SUBSET Processes /\ \A q \in Processes : q # p => (q \in lock <=> q \in lock')
    BY DEF FileInv, FileType
  <1>3. FileType'
    BY <1>1, <1>2 DEF FileInv, FileType
  <1>4. LockOK'
    <2>1. \A q, r \in lock' : q = r
      BY <1>2 DEF FileInv, FileType, LockOK
    <2>2. \A q \in lock' : handle'[q].at # "closed"
      BY <1>1, <1>2 DEF FileInv, FileType, LockOK
    <2> QED BY <2>1, <2>2 DEF LockOK
  <1>d. ASSUME NEW e, keptIn(file, durable, e) PROVE keptIn(file, durable', e)
    BY <1>d DEF keptIn, FileInv, FileType
  <1>5. \A q \in Processes :
            written(handle'[q], file', durable') /\ readOnly(handle'[q], file')
    <2> SUFFICES ASSUME NEW q \in Processes
                 PROVE  written(handle'[q], file, durable') /\ readOnly(handle'[q], file)
      OBVIOUS
    <2>1. CASE q = p
      BY <1>1, <2>1
    <2>2. CASE q # p
      <3>1. handle'[q] = handle[q]
        BY <1>1, <2>2
      <3>2. written(handle[q], file, durable) /\ readOnly(handle[q], file)
        BY DEF FileInv
      <3>3. written(handle[q], file, durable')
        BY <1>d, <3>2 DEF written
      <3> QED BY <3>1, <3>2, <3>3
    <2> QED BY <2>1, <2>2
  <1>6. wellFormed(file)'
    BY DEF FileInv, wellFormed
  <1>7. DurableOK'
    <2> SUFFICES ASSUME Fsync, NEW e \in acked' PROVE keptIn(file, durable', e)
      BY DEF DurableOK
    <2>1. CASE e \in acked
      <3>1. keptIn(file, durable, e)
        BY <2>1 DEF FileInv, DurableOK
      <3> QED BY <1>d, <3>1
    <2> QED BY <2>1
  <1>8. ASSUME ~raced', ~syncFailed' PROVE Clean'
    <2>0. Clean /\ ~raced /\ ~syncFailed
      BY <1>8 DEF FileInv, FileType
    <2>1. chained(file)'
      BY <2>0 DEF Clean, chained, linked
    <2>2. \A q, r \in Processes :
            handle'[q].at \in Writing /\ handle'[r].at \in Writing => q = r
      BY <1>1, <1>8, <2>0 DEF Clean, alone
    <2>3. \A q \in Processes : handle'[q].at \in Writing => q \in lock' \/ lock' = {}
      <3> SUFFICES ASSUME NEW q \in Processes, handle'[q].at \in Writing
                   PROVE  q \in lock' \/ lock' = {}
        OBVIOUS
      <3>1. CASE q = p
        BY <1>1, <1>8, <3>1
      <3>2. CASE q # p
        <4>1. handle[q].at \in Writing /\ (q \in lock \/ lock = {})
          BY <1>1, <2>0, <3>2 DEF Clean
        <4>2. CASE q \in lock
          BY <1>2, <3>2, <4>2
        <4>3. CASE lock = {}
          <5>1. lock' = {p} => FALSE
            BY <1>8, <3>2, <4>1, <4>3 DEF alone
          <5> QED BY <4>3, <5>1
        <4> QED BY <4>1, <4>2, <4>3
      <3> QED BY <3>1, <3>2
    <2>4. \A q \in Processes : knows(handle'[q], file)
      BY <1>1, <1>8, <2>0 DEF Clean
    <2>5. \A q \in lock' : holderKnows(handle'[q], file)
      BY <1>1, <1>2, <1>8, <2>0 DEF Clean
    <2> QED BY <2>1, <2>2, <2>3, <2>4, <2>5 DEF Clean
  <1> QED BY <1>3, <1>4, <1>5, <1>6, <1>7, <1>8 DEF FileInv

\* A step that acknowledges nothing and makes nothing durable.
LEMMA QuietStep ==
    ASSUME FileInv, NEW p \in Processes, NEW h \in Handles,
           handle' = [handle EXCEPT ![p] = h],
           UNCHANGED <<file, durable, acked>>,
           \/ lock' = lock
           \/ lock' = lock \ {p}
           \/ lock = {} /\ lock' = {p},
           syncFailed' \in BOOLEAN, syncFailed => syncFailed',
           raced' \in BOOLEAN, raced => raced',
           p \in lock' => h.at # "closed",
           written(h, file, durable), readOnly(h, file),
           ~raced' /\ ~syncFailed' =>
                /\ knows(h, file)
                /\ p \in lock' => holderKnows(h, file)
                /\ h.at \in Writing => p \in lock' \/ lock' = {}
                /\ (h.at \in Writing \/ ~(lock' \subseteq lock)) => alone(p)
    PROVE  FileInv'
  <1>1. file' = file /\ durable' = durable /\ acked' = acked
    OBVIOUS
  <1>2. durable' \in Nat /\ durable <= durable' /\ durable' <= endedLines(file)
    BY <1>1 DEF FileInv, FileType
  <1>3. /\ acked' \in SUBSET Entries
        /\ \A e \in acked' : e \in acked \/ (Fsync => keptIn(file, durable', e))
    BY <1>1 DEF FileInv, FileType
  <1>4. written(h, file, durable')
    BY <1>1
  <1> QED BY <1>1, <1>2, <1>3, <1>4, HandleStep

\* Opening, closing and dying.
LEMMA OpeningStep ==
    ASSUME FileInv, NEW p \in Processes,
           OpenExclusive(p) \/ Open(p) \/ Exit(p)
    PROVE  FileInv'
  <1> DEFINE o == [handle[p] EXCEPT !.at = "load"]
  <1>t. /\ handle[p] \in Handles /\ file \in Seq(Lines) /\ wellFormed(file)
        /\ syncFailed \in BOOLEAN /\ raced \in BOOLEAN
        /\ durable \in Nat /\ durable <= endedLines(file)
        /\ handle[p].entries \in Seq(Entries) /\ written(handle[p], file, durable)
        /\ handle[p].part \in 0 .. 3 /\ handle[p].wrote \in BOOLEAN
        /\ handle[p].new \in Entries /\ readOnly(handle[p], file)
        /\ p \in lock => handle[p].at # "closed"
    BY HandleFields
  <1>k. ~raced /\ ~syncFailed =>
            /\ knows(handle[p], file)
            /\ p \in lock => holderKnows(handle[p], file)
            /\ handle[p].at \in Writing => p \in lock \/ lock = {}
            /\ handle[p].at \in Writing =>
                    \A q \in Processes : handle[q].at \in Writing => q = p
    BY HandleFields
  <1>a. acked \in SUBSET Entries /\ lock \subseteq Processes
    BY DEF FileInv, FileType
  <1>1. ASSUME handle[p].at = "closed" PROVE
        /\ o \in Handles /\ written(o, file, durable) /\ readOnly(o, file)
        /\ o.at \notin Writing /\ o.at # "closed" /\ o.entries = handle[p].entries
        /\ holderKnows(o, file) /\ (knows(handle[p], file) => knows(o, file))
    <2>1. /\ o \in Handles /\ o.at = "load" /\ o.entries = handle[p].entries
          /\ o.part = handle[p].part /\ o.wrote = handle[p].wrote
      BY <1>t DEF Handles, Places
    <2> HIDE DEF o
    <2> QED BY <1>t, <1>1, <2>1 DEF written, readOnly, knows, Writing, holderKnows
  <1>2. CASE OpenExclusive(p) \/ Open(p)
    <2>1. /\ handle[p].at = "closed" /\ UNCHANGED <<file, durable, acked, syncFailed>>
          /\ \/ lock' = lock /\ raced' = raced
             \/ lock = {} /\ lock' = {p} /\ raced' = (raced \/ Appending # {})
      BY <1>2 DEF OpenExclusive, Open
    <2>2. handle' = [handle EXCEPT ![p] = o]
      BY <1>2 DEF OpenExclusive, Open
    <2>3. /\ o \in Handles /\ written(o, file, durable) /\ readOnly(o, file)
          /\ o.at \notin Writing /\ o.at # "closed" /\ o.entries = handle[p].entries
          /\ holderKnows(o, file) /\ (knows(handle[p], file) => knows(o, file))
      BY <1>1, <2>1
    <2> HIDE DEF o
    <2>4. raced' \in BOOLEAN /\ (raced => raced')
      BY <1>t, <2>1
    <2>5. ~raced' => lock' \subseteq lock \/ alone(p)
      BY <2>1 DEF Appending, Writing, alone
    <2> QED BY <1>t, <1>k, <1>a, <2>1, <2>2, <2>3, <2>4, <2>5, QuietStep
  <1>3. CASE Exit(p)
    <2>1. /\ UNCHANGED <<file, durable, acked, syncFailed, raced>> /\ lock' = lock \ {p}
          /\ handle' = [handle EXCEPT ![p] = Closed]
      BY <1>3 DEF Exit
    <2>2. p \notin lock'
      BY <2>1
    <2> QED BY <1>t, <1>a, <2>1, <2>2, QuietStep, ClosedType
  <1> QED BY <1>2, <1>3

\* Reading the file, the first time or again.
LEMMA ReadingStep ==
    ASSUME FileInv, NEW p \in Processes,
           Load(p) \/ TakeStamp(p) \/ LoadFails(p) \/ ReloadIfChanged(p)
    PROVE  FileInv'
  <1>t. /\ handle[p] \in Handles /\ file \in Seq(Lines) /\ wellFormed(file)
        /\ syncFailed \in BOOLEAN /\ raced \in BOOLEAN
        /\ durable \in Nat /\ durable <= endedLines(file)
        /\ handle[p].entries \in Seq(Entries) /\ written(handle[p], file, durable)
        /\ handle[p].part \in 0 .. 3 /\ handle[p].wrote \in BOOLEAN
        /\ handle[p].new \in Entries /\ readOnly(handle[p], file)
        /\ p \in lock => handle[p].at # "closed"
    BY HandleFields
  <1>k. ~raced /\ ~syncFailed =>
            /\ knows(handle[p], file)
            /\ p \in lock => holderKnows(handle[p], file)
            /\ handle[p].at \in Writing => p \in lock \/ lock = {}
            /\ handle[p].at \in Writing =>
                    \A q \in Processes : handle[q].at \in Writing => q = p
    BY HandleFields
  <1>a. acked \in SUBSET Entries /\ lock \subseteq Processes
    BY DEF FileInv, FileType
  <1>e. <<>> \in Seq(Entries) /\ past(<<>>, file)
    BY DEF past
  <1>r. /\ readBack(file) \in Seq(Entries) /\ past(readBack(file), file)
        /\ loads(file) => holds(readBack(file), file)
    BY <1>t, ReadBackEffect
  <1>1. CASE Load(p)
    <2> DEFINE h == [handle[p] EXCEPT !.at = "stamp", !.entries = readBack(file),
                                      !.wrote = FALSE]
    <2>1. /\ handle[p].at \in {"load", "reload"} /\ loads(file)
          /\ UNCHANGED <<file, durable, lock, acked, syncFailed, raced>>
      BY <1>1 DEF Load
    <2>2. handle' = [handle EXCEPT ![p] = h]
      BY <1>1 DEF Load
    <2>3. /\ h \in Handles /\ h.at = "stamp" /\ h.entries = readBack(file)
          /\ h.part = handle[p].part
      BY <1>t, <1>r DEF Handles, Places
    <2> HIDE DEF h
    <2>4. /\ written(h, file, durable) /\ readOnly(h, file) /\ knows(h, file)
          /\ h.at \notin Writing /\ h.at # "closed"
      BY <1>t, <1>r, <2>1, <2>3 DEF written, readOnly, knows, Writing
    <2>5. holderKnows(h, file)
      BY <1>r, <2>1, <2>3 DEF holderKnows, Writing
    <2> QED BY <1>t, <1>a, <2>1, <2>2, <2>3, <2>4, <2>5, QuietStep
  <1>2. CASE TakeStamp(p)
    <2> DEFINE h == [handle[p] EXCEPT !.at = "idle", !.stamp = stampOf(file)]
    <2>1. /\ handle[p].at = "stamp"
          /\ UNCHANGED <<file, durable, lock, acked, syncFailed, raced>>
      BY <1>2 DEF TakeStamp
    <2>2. handle' = [handle EXCEPT ![p] = h]
      BY <1>2 DEF TakeStamp
    <2>3. /\ h \in Handles /\ h.at = "idle" /\ h.entries = handle[p].entries
          /\ h.part = handle[p].part /\ h.stamp = stampOf(file)
          /\ h.wrote = handle[p].wrote
      BY <1>t, StampType DEF Handles, Places
    <2> HIDE DEF h
    <2>4. /\ written(h, file, durable) /\ readOnly(h, file)
          /\ knows(handle[p], file) => knows(h, file)
          /\ h.at \notin Writing /\ h.at # "closed"
      BY <1>t, <2>1, <2>3 DEF written, readOnly, knows, Writing
    <2>5. holderKnows(handle[p], file) => holderKnows(h, file)
      BY <2>1, <2>3 DEF holderKnows, current, Writing
    <2> QED BY <1>t, <1>k, <1>a, <2>1, <2>2, <2>3, <2>4, <2>5, QuietStep
  <1>3. CASE handle[p].at = "load" /\ LoadFails(p)
    <2>1. /\ UNCHANGED <<file, durable, acked, syncFailed, raced>> /\ lock' = lock \ {p}
          /\ handle' = [handle EXCEPT ![p] = Closed]
      BY <1>3 DEF LoadFails
    <2>2. p \notin lock'
      BY <2>1
    <2> QED BY <1>t, <1>a, <2>1, <2>2, QuietStep, ClosedType
  <1>4. CASE handle[p].at # "load" /\ LoadFails(p)
    <2>1. /\ handle[p].at = "reload"
          /\ UNCHANGED <<file, durable, lock, acked, syncFailed, raced>>
      BY <1>4 DEF LoadFails
    <2>2. PICK es \in {<<>>} \cup {readBack(file)} :
            handle' = [handle EXCEPT ![p] =
                [handle[p] EXCEPT !.at = "idle", !.entries = es]]
      BY <1>4 DEF LoadFails
    <2> DEFINE h == [handle[p] EXCEPT !.at = "idle", !.entries = es]
    <2>e. es \in Seq(Entries) /\ past(es, file)
      BY <1>e, <1>r, <2>2
    <2>3. /\ h \in Handles /\ h.at = "idle" /\ h.entries = es
          /\ h.part = handle[p].part /\ h.stamp = handle[p].stamp
      BY <1>t, <2>e DEF Handles, Places
    <2>p. handle' = [handle EXCEPT ![p] = h]
      BY <2>2
    <2> HIDE DEF h
    <2>4. /\ written(h, file, durable) /\ readOnly(h, file) /\ knows(h, file)
          /\ h.at \notin Writing /\ h.at # "closed"
      BY <1>t, <2>1, <2>e, <2>3 DEF written, readOnly, knows, Writing
    <2>5. holderKnows(handle[p], file) => holderKnows(h, file)
      BY <2>1, <2>3 DEF holderKnows, current, Writing
    <2> QED BY <1>t, <1>k, <1>a, <2>1, <2>3, <2>p, <2>4, <2>5, QuietStep
  <1>5. CASE ReloadIfChanged(p)
    <2> DEFINE h == [handle[p] EXCEPT !.at = "reload", !.entries = <<>>, !.wrote = FALSE]
    <2>1. /\ handle[p].at = "idle" /\ handle[p].stamp # stampOf(file)
          /\ UNCHANGED <<file, durable, lock, acked, syncFailed, raced>>
      BY <1>5 DEF ReloadIfChanged
    <2>2. handle' = [handle EXCEPT ![p] = h]
      BY <1>5 DEF ReloadIfChanged
    <2>3. /\ h \in Handles /\ h.at = "reload" /\ h.entries = <<>>
          /\ h.part = handle[p].part /\ h.stamp = handle[p].stamp
      BY <1>t, <1>e DEF Handles, Places
    <2> HIDE DEF h
    <2>4. /\ written(h, file, durable) /\ readOnly(h, file) /\ knows(h, file)
          /\ h.at \notin Writing /\ h.at # "closed"
      BY <1>t, <1>e, <2>1, <2>3 DEF written, readOnly, knows, Writing
    <2>5. holderKnows(handle[p], file) => holderKnows(h, file)
      BY <2>1, <2>3 DEF holderKnows, current, Writing
    <2> QED BY <1>t, <1>k, <1>a, <2>1, <2>2, <2>3, <2>4, <2>5, QuietStep
  <1> QED BY <1>1, <1>2, <1>3, <1>4, <1>5

\* The handle an append leaves when it returns.
LEMMA ReturnsType ==
    ASSUME FileInv, NEW p \in Processes
    PROVE  LET h == AppendReturns(p) IN
           /\ h \in Handles /\ h.at = "idle" /\ h.entries = handle[p].entries
           /\ h.stamp = handle[p].stamp /\ h.part = 0 /\ h.wrote = handle[p].wrote
  <1>t. handle[p] \in Handles
    BY HandleFields
  <1>1. \A none : none = <<>> => none \in Entries
    BY DEF Entries
  <1>2. ASSUME NEW e \in Entries, NEW h \in Handles
        PROVE  [h EXCEPT !.at = "idle", !.new = e, !.part = 0] \in Handles
    <2>1. 0 \in Parts
      BY DEF Parts
    <2> QED BY <2>1 DEF Handles, Places
  <1>3. \A e : e \in Entries =>
            [handle[p] EXCEPT !.at = "idle", !.new = e, !.part = 0] \in Handles
    BY <1>t, <1>2
  <1>4. AppendReturns(p) \in Handles
    BY <1>1, <1>3, Zenon DEF AppendReturns
  <1>5. LET h == AppendReturns(p) IN
        /\ h.at = "idle" /\ h.entries = handle[p].entries
        /\ h.stamp = handle[p].stamp /\ h.part = 0 /\ h.wrote = handle[p].wrote
    BY <1>t DEF AppendReturns, Handles
  <1> QED BY <1>4, <1>5

\* A file whose lines are ended and none run on loads.
LEMMA CleanLoads ==
    ASSUME NEW f \in Seq(Lines), wellFormed(f), ~dead(f), endsClean(f)
    PROVE  loads(f)
  <1> SUFFICES ASSUME NEW i \in DOMAIN f PROVE readable(f[i])
    BY DEF loads
  <1>1. i \in 1 .. Len(f) /\ Len(f) \in Nat /\ f # <<>>
    OBVIOUS
  <1>2. f[i].ended
    BY <1>1 DEF wellFormed, endsClean
  <1> QED BY <1>1, <1>2 DEF wellFormed, dead, readable

\* An append begins, with the lock or without.
LEMMA StartAppendStep ==
    ASSUME FileInv, NEW p \in Processes, NEW x \in Payloads, StartAppend(p, x)
    PROVE  FileInv'
  <1>t. /\ handle[p] \in Handles /\ file \in Seq(Lines) /\ wellFormed(file)
        /\ syncFailed \in BOOLEAN /\ raced \in BOOLEAN
        /\ durable \in Nat /\ durable <= endedLines(file)
        /\ handle[p].entries \in Seq(Entries) /\ written(handle[p], file, durable)
        /\ handle[p].part \in 0 .. 3 /\ handle[p].wrote \in BOOLEAN
        /\ handle[p].new \in Entries /\ readOnly(handle[p], file)
        /\ p \in lock => handle[p].at # "closed"
    BY HandleFields
  <1>k. ~raced /\ ~syncFailed =>
            /\ knows(handle[p], file)
            /\ p \in lock => holderKnows(handle[p], file)
            /\ handle[p].at \in Writing => p \in lock \/ lock = {}
            /\ handle[p].at \in Writing =>
                    \A q \in Processes : handle[q].at \in Writing => q = p
    BY HandleFields
  <1>a. acked \in SUBSET Entries /\ lock \subseteq Processes
    BY DEF FileInv, FileType
  <1> DEFINE h == [handle[p] EXCEPT !.at = "write",
                                    !.new = nextEntry(handle[p].entries, x)]
  <1>1. /\ handle[p].at = "idle" /\ raced' = (raced \/ races(p))
        /\ UNCHANGED <<file, durable, lock, acked, syncFailed>>
    BY DEF StartAppend
  <1>2. handle' = [handle EXCEPT ![p] = h]
    BY DEF StartAppend
  <1>3. nextEntry(handle[p].entries, x) \in Entries
    BY <1>t, NextEntryLinks
  <1>4. /\ h \in Handles /\ h.at = "write" /\ h.entries = handle[p].entries
        /\ h.part = handle[p].part /\ h.stamp = handle[p].stamp
        /\ h.wrote = handle[p].wrote
        /\ h.new = nextEntry(handle[p].entries, x)
    BY <1>t, <1>3 DEF Handles, Places
  <1> HIDE DEF h
  <1>5. /\ written(h, file, durable) /\ readOnly(h, file) /\ h.part = 0
        /\ h.at \in Writing /\ h.at # "closed"
    BY <1>t, <1>1, <1>4 DEF written, readOnly, Writing
  <1>b. races(p) \in BOOLEAN
    BY DEF races
  <1>6. raced' \in BOOLEAN /\ (raced => raced')
    BY <1>t, <1>1, <1>b
  <1>7. ASSUME ~raced', ~syncFailed'
        PROVE  /\ knows(h, file)
               /\ p \in lock => holderKnows(h, file)
               /\ p \in lock \/ lock = {}
               /\ alone(p)
    <2>1. ~raced /\ ~syncFailed /\ ~races(p) /\ Clean
      BY <1>1, <1>7 DEF FileInv
    <2>2. \/ p \in lock
          \/ lock = {} /\ Appending = {} /\ upToDate(p)
      BY <2>1 DEF races
    <2>3. p \in lock => current(handle[p], file)
      BY <1>k, <1>1, <2>1 DEF holderKnows
    <2>4. \A q \in Processes \ {p} : handle[q].at \notin Writing
      <3>1. CASE p \in lock
        <4>1. \A q \in Processes : handle[q].at \in Writing => q \in lock
          BY <2>1, <3>1 DEF Clean
        <4> QED BY <3>1, <4>1 DEF FileInv, LockOK
      <3>2. CASE Appending = {}
        BY <3>2 DEF Appending, Writing
      <3> QED BY <2>2, <3>1, <3>2
    <2>5. (~dead(file) /\ endsClean(file)) => holds(handle[p].entries, file)
      <3> SUFFICES ASSUME ~dead(file), endsClean(file)
                   PROVE  holds(handle[p].entries, file)
        OBVIOUS
      <3>1. loads(file)
        BY <1>t, CleanLoads
      <3>2. upToDate(p) => holds(handle[p].entries, file)
        BY <1>t, <3>1, ReadBackEffect DEF upToDate
      <3>3. p \in lock => holds(handle[p].entries, file)
        BY <2>3 DEF current
      <3> QED BY <2>2, <3>2, <3>3
    <2>6. ~dead(file) => past(handle[p].entries, file)
      BY <1>k, <2>1 DEF knows
    <2>7. knows(h, file)
      BY <1>4, <1>5, <2>5, <2>6 DEF knows, appenderKnows
    <2>8. p \in lock => holderKnows(h, file)
      BY <1>4, <1>5, <2>3 DEF holderKnows, current, Writing
    <2> QED BY <2>2, <2>4, <2>7, <2>8 DEF alone
  <1> QED BY <1>t, <1>a, <1>1, <1>2, <1>4, <1>5, <1>6, <1>7, QuietStep

\* It fails, and leaves the handle as it was.
LEMMA AppendFailsStep ==
    ASSUME FileInv, NEW p \in Processes, FailWrite(p) \/ FailSync(p)
    PROVE  FileInv'
  <1>t. /\ handle[p] \in Handles /\ file \in Seq(Lines) /\ wellFormed(file)
        /\ syncFailed \in BOOLEAN /\ raced \in BOOLEAN
        /\ durable \in Nat /\ durable <= endedLines(file)
        /\ handle[p].entries \in Seq(Entries) /\ written(handle[p], file, durable)
        /\ handle[p].part \in 0 .. 3 /\ handle[p].wrote \in BOOLEAN
        /\ handle[p].new \in Entries /\ readOnly(handle[p], file)
        /\ p \in lock => handle[p].at # "closed"
    BY HandleFields
  <1>k. ~raced /\ ~syncFailed =>
            /\ knows(handle[p], file)
            /\ p \in lock => holderKnows(handle[p], file)
            /\ handle[p].at \in Writing => p \in lock \/ lock = {}
            /\ handle[p].at \in Writing =>
                    \A q \in Processes : handle[q].at \in Writing => q = p
    BY HandleFields
  <1>a. acked \in SUBSET Entries /\ lock \subseteq Processes
    BY DEF FileInv, FileType
  <1> DEFINE h == AppendReturns(p)
  <1>r. /\ h \in Handles /\ h.at = "idle" /\ h.entries = handle[p].entries
        /\ h.stamp = handle[p].stamp /\ h.part = 0 /\ h.wrote = handle[p].wrote
    BY ReturnsType
  <1>1. /\ handle[p].at \in {"write", "sync"} /\ handle' = [handle EXCEPT ![p] = h]
        /\ UNCHANGED <<file, durable, lock, acked, raced>>
        /\ \/ handle[p].at = "write" /\ syncFailed' = syncFailed
           \/ syncFailed' = TRUE
    BY DEF FailWrite, FailSync
  <1> HIDE DEF h
  <1>2. /\ written(h, file, durable) /\ readOnly(h, file)
        /\ h.at \notin Writing /\ h.at # "closed"
        /\ knows(handle[p], file) => knows(h, file)
    BY <1>t, <1>r DEF written, readOnly, knows, Writing
  <1>3. ASSUME ~raced, ~syncFailed', p \in lock PROVE holderKnows(h, file)
    <2>1. handle[p].at = "write" /\ ~syncFailed
      BY <1>1, <1>3
    <2>2. /\ IF handle[p].part = 0 THEN current(handle[p], file)
              ELSE dead(file) \/ staleStamp(handle[p], file)
          /\ appenderKnows(handle[p], file)
      BY <1>k, <1>3, <2>1 DEF knows, holderKnows, Writing
    <2>3. CASE handle[p].part = 0
      BY <1>r, <2>2, <2>3 DEF holderKnows, current, Writing
    <2>4. CASE handle[p].part # 0
      <3>1. handle[p].part > 0 /\ handle[p].part < 3
        BY <1>t, <2>1, <2>4 DEF written
      <3>2. ~endsClean(file)
        BY <2>2, <3>1 DEF appenderKnows
      <3>3. ~dead(file) => handle[p].stamp # stampOf(file)
        BY <1>t, <2>2, <2>4 DEF staleStamp
      <3> QED BY <1>r, <3>2, <3>3 DEF holderKnows, current, Writing
    <2> QED BY <2>3, <2>4
  <1>4. syncFailed' \in BOOLEAN /\ (syncFailed => syncFailed')
    <2>1. CASE syncFailed' = syncFailed
      BY <1>t, <2>1
    <2>2. CASE syncFailed' = TRUE
      BY <2>2
    <2> QED BY <1>1, <2>1, <2>2
  <1> QED BY <1>t, <1>k, <1>a, <1>r, <1>1, <1>2, <1>3, <1>4, QuietStep

LEMMA SyncDataStep ==
    ASSUME FileInv, NEW p \in Processes, SyncData(p)
    PROVE  FileInv'
  <1>t. /\ handle[p] \in Handles /\ file \in Seq(Lines) /\ wellFormed(file)
        /\ syncFailed \in BOOLEAN /\ raced \in BOOLEAN
        /\ durable \in Nat /\ durable <= endedLines(file)
        /\ handle[p].entries \in Seq(Entries) /\ written(handle[p], file, durable)
        /\ handle[p].part \in 0 .. 3 /\ handle[p].wrote \in BOOLEAN
        /\ handle[p].new \in Entries /\ readOnly(handle[p], file)
        /\ p \in lock => handle[p].at # "closed"
    BY HandleFields
  <1>k. ~raced /\ ~syncFailed =>
            /\ knows(handle[p], file)
            /\ p \in lock => holderKnows(handle[p], file)
            /\ handle[p].at \in Writing => p \in lock \/ lock = {}
            /\ handle[p].at \in Writing =>
                    \A q \in Processes : handle[q].at \in Writing => q = p
    BY HandleFields
  <1>a. acked \in SUBSET Entries /\ lock \subseteq Processes
    BY DEF FileInv, FileType
  <1> DEFINE h == [handle[p] EXCEPT !.at = "push"]
  <1>1. /\ handle[p].at = "sync" /\ durable' = endedLines(file)
        /\ UNCHANGED <<file, lock, acked, syncFailed, raced>>
        /\ handle' = [handle EXCEPT ![p] = h]
    BY DEF SyncData
  <1>2. /\ h \in Handles /\ h.at = "push" /\ h.part = handle[p].part
        /\ h.new = handle[p].new /\ h.wrote = handle[p].wrote
        /\ h.entries = handle[p].entries /\ h.stamp = handle[p].stamp
    BY <1>t DEF Handles, Places
  <1> HIDE DEF h
  <1>e. endedLines(file) \in Nat
    BY <1>t, EndedCount
  <1>3. /\ written(h, file, durable') /\ readOnly(h, file)
        /\ handle[p].at \in Writing /\ h.at # "closed"
    BY <1>t, <1>1, <1>2 DEF written, readOnly, Writing
  <1>4. /\ knows(handle[p], file) => knows(h, file)
        /\ holderKnows(handle[p], file) => holderKnows(h, file)
    BY <1>1, <1>2 DEF knows, appenderKnows, holderKnows, current, staleStamp, Writing
  <1>5. /\ durable' \in Nat /\ durable <= durable' /\ durable' <= endedLines(file)
        /\ acked' \in SUBSET Entries /\ lock' \subseteq lock
        /\ \A e \in acked' : e \in acked \/ (Fsync => keptIn(file, durable', e))
    BY <1>t, <1>a, <1>e, <1>1
  <1>6. ~raced' /\ ~syncFailed' =>
            /\ knows(h, file) /\ (p \in lock' => holderKnows(h, file))
            /\ p \in lock' \/ lock' = {}
            /\ alone(p)
    BY <1>k, <1>1, <1>3, <1>4 DEF alone
  <1>7. /\ file' = file /\ lock' = lock /\ syncFailed' = syncFailed /\ raced' = raced
        /\ syncFailed' \in BOOLEAN /\ raced' \in BOOLEAN
        /\ handle' = [handle EXCEPT ![p] = h]
    BY <1>t, <1>1
  <1> QED BY <1>2, <1>3, <1>5, <1>6, <1>7, HandleStep

LEMMA PushStep ==
    ASSUME FileInv, NEW p \in Processes, Push(p)
    PROVE  FileInv'
  <1>t. /\ handle[p] \in Handles /\ file \in Seq(Lines) /\ wellFormed(file)
        /\ syncFailed \in BOOLEAN /\ raced \in BOOLEAN
        /\ durable \in Nat /\ durable <= endedLines(file)
        /\ handle[p].entries \in Seq(Entries) /\ written(handle[p], file, durable)
        /\ handle[p].part \in 0 .. 3 /\ handle[p].wrote \in BOOLEAN
        /\ handle[p].new \in Entries /\ readOnly(handle[p], file)
        /\ p \in lock => handle[p].at # "closed"
    BY HandleFields
  <1>k. ~raced /\ ~syncFailed =>
            /\ knows(handle[p], file)
            /\ p \in lock => holderKnows(handle[p], file)
            /\ handle[p].at \in Writing => p \in lock \/ lock = {}
            /\ handle[p].at \in Writing =>
                    \A q \in Processes : handle[q].at \in Writing => q = p
    BY HandleFields
  <1>a. acked \in SUBSET Entries /\ lock \subseteq Processes
    BY DEF FileInv, FileType
  <1> DEFINE es == Append(handle[p].entries, handle[p].new)
             h == [AppendReturns(p) EXCEPT !.entries = es, !.wrote = TRUE,
                                           !.stamp = stampOf(file)]
  <1>1. /\ handle[p].at = "push" /\ UNCHANGED <<file, durable, lock, syncFailed, raced>>
        /\ acked' = acked \cup {handle[p].new}
    BY DEF Push
  <1>r. LET r == AppendReturns(p) IN
        /\ r \in Handles /\ r.at = "idle" /\ r.entries = handle[p].entries
        /\ r.part = 0
    BY ReturnsType
  <1>2. handle' = [handle EXCEPT ![p] = h]
    <2>1. AppendReturns(p).entries = handle[p].entries
      BY <1>r
    <2> QED BY <2>1 DEF Push
  <1>e. es \in Seq(Entries)
    BY <1>t
  <1>s. stampOf(file) \in Stamps
    BY <1>t, StampType
  <1> HIDE DEF es
  <1>3. /\ h \in Handles /\ h.at = "idle" /\ h.part = 0 /\ h.entries = es
        /\ h.stamp = stampOf(file) /\ h.wrote = TRUE
    <2>1. PICK r \in Handles : r = AppendReturns(p)
      BY <1>r
    <2>2. h = [r EXCEPT !.entries = es, !.wrote = TRUE, !.stamp = stampOf(file)]
      BY <2>1
    <2> HIDE DEF h
    <2> QED BY <1>r, <1>e, <1>s, <2>1, <2>2 DEF Handles
  <1> HIDE DEF h
  <1>4. /\ written(h, file, durable) /\ readOnly(h, file)
        /\ h.at \notin Writing /\ h.at # "closed"
    BY <1>3 DEF written, readOnly, Writing
  <1>5. Fsync => keptIn(file, durable, handle[p].new)
    BY <1>t, <1>1 DEF written
  <1>6. ASSUME ~raced, ~syncFailed PROVE knows(h, file) /\ holderKnows(h, file)
    <2>1. appenderKnows(handle[p], file) /\ handle[p].part = 3
      BY <1>t, <1>k, <1>1, <1>6 DEF knows, written, Writing
    <2>2. endsClean(file) /\ (~dead(file) => holds(es, file))
      BY <2>1 DEF appenderKnows, es
    <2>3. ~dead(file) => past(es, file)
      BY <1>t, <2>2 DEF holds, past
    <2> QED BY <1>3, <1>4, <2>2, <2>3 DEF knows, holderKnows, current
  <1>7. acked' \in SUBSET Entries /\ (\A e \in acked' : e \in acked \/ e = handle[p].new)
    BY <1>t, <1>a, <1>1
  <1>8. /\ file' = file /\ lock' = lock /\ syncFailed' = syncFailed /\ raced' = raced
        /\ syncFailed' \in BOOLEAN /\ raced' \in BOOLEAN /\ lock' \subseteq lock
        /\ durable' \in Nat /\ durable <= durable' /\ durable' <= endedLines(file)
        /\ \A e \in acked' : e \in acked \/ (Fsync => keptIn(file, durable', e))
        /\ written(h, file, durable')
    BY <1>t, <1>1, <1>4, <1>5, <1>7
  <1> QED BY <1>2, <1>3, <1>4, <1>6, <1>7, <1>8, HandleStep

\* A line that is written to a good file continues what the writer holds.
LEMMA NewLineLinks ==
    ASSUME NEW f \in Seq(Lines), NEW es \in Seq(Entries), NEW x \in Payloads,
           NEW g \in Seq(Lines), Len(g) = Len(f) + 1, holds(es, f),
           \A i \in 1 .. Len(f) : g[i].entry = f[i].entry,
           g[Len(f) + 1].entry = nextEntry(es, x)
    PROVE  linked(g, Len(f) + 1)
  <1> DEFINE e == nextEntry(es, x)
  <1>1. /\ e \in Entries /\ Len(e) > 0 /\ Last(e)[1] = Len(es)
        /\ Front(e) = IF es = <<>> THEN <<>> ELSE es[Len(es)]
    BY NextEntryLinks
  <1>2. g[Len(f) + 1].entry = e
    OBVIOUS
  <1> HIDE DEF e
  <1>3. Len(es) = Len(f) /\ Len(f) \in Nat /\ \A i \in 1 .. Len(f) : es[i] = f[i].entry
    BY DEF holds
  <1>4. Front(e) = IF Len(f) + 1 = 1 THEN <<>> ELSE g[Len(f) + 1 - 1].entry
    <2>1. CASE Len(f) = 0
      <3>1. es = <<>>
        BY <1>3, <2>1, EmptySeq
      <3> QED BY <1>1, <2>1, <3>1
    <2>2. CASE Len(f) # 0
      <3>1. es # <<>> /\ Len(f) \in 1 .. Len(f) /\ Len(f) + 1 - 1 = Len(f)
        BY <1>3, <2>2
      <3>2. es[Len(es)] = g[Len(f)].entry
        BY <1>3, <3>1
      <3> QED BY <1>1, <1>3, <2>2, <3>1, <3>2
    <2> QED BY <2>1, <2>2
  <1> QED BY <1>1, <1>2, <1>3, <1>4 DEF linked

\* A file whose entries go on where they went stays linked that far.
LEMMA LinksKept ==
    ASSUME NEW a \in Seq(Lines), NEW b \in Seq(Lines), chained(a),
           NEW n \in Nat, n <= Len(a), n <= Len(b),
           \A i \in 1 .. n : b[i].entry = a[i].entry,
           \A i \in 1 .. n - 1 : a[i].more => b[i].more,
           NEW i \in 1 .. n, \A j \in 1 .. i - 1 : ~b[j].more
    PROVE  linked(b, i)
  <1>1. i \in 1 .. Len(a) /\ i \in Nat
    OBVIOUS
  <1>2. \A j \in 1 .. i - 1 : ~a[j].more
    <2> TAKE j \in 1 .. i - 1
    <2>1. j \in 1 .. n - 1
      OBVIOUS
    <2> QED BY <2>1
  <1>3. linked(a, i)
    BY <1>1, <1>2 DEF chained
  <1>4. i # 1 => i - 1 \in 1 .. n
    BY <1>1
  <1>5. b[i].entry = a[i].entry /\ (i # 1 => b[i - 1].entry = a[i - 1].entry)
    BY <1>4
  <1> QED BY <1>3, <1>5 DEF linked

LEMMA WriteMoreStep ==
    ASSUME FileInv, NEW p \in Processes, WriteMore(p)
    PROVE  FileInv'
  <1>t. /\ handle[p] \in Handles /\ file \in Seq(Lines) /\ wellFormed(file)
        /\ syncFailed \in BOOLEAN /\ raced \in BOOLEAN
        /\ durable \in Nat /\ durable <= endedLines(file)
        /\ handle[p].entries \in Seq(Entries) /\ written(handle[p], file, durable)
        /\ handle[p].part \in 0 .. 3 /\ handle[p].wrote \in BOOLEAN
        /\ handle[p].new \in Entries /\ readOnly(handle[p], file)
        /\ p \in lock => handle[p].at # "closed"
    BY HandleFields
  <1>k. ~raced /\ ~syncFailed =>
            /\ knows(handle[p], file)
            /\ p \in lock => holderKnows(handle[p], file)
            /\ handle[p].at \in Writing => p \in lock \/ lock = {}
            /\ handle[p].at \in Writing =>
                    \A q \in Processes : handle[q].at \in Writing => q = p
    BY HandleFields
  <1>a. acked \in SUBSET Entries /\ lock \subseteq Processes
    BY DEF FileInv, FileType
  <1>f. handle \in [Processes -> Handles]
    BY HandleFields
  <1>1. PICK part \in handle[p].part + 1 .. 3 :
            /\ file' = writeTo(file, handle[p].new, handle[p].part, part)
            /\ handle' = [handle EXCEPT ![p] =
                    [handle[p] EXCEPT !.part = part,
                                      !.at = IF part = 3 THEN afterWrite ELSE "write"]]
    BY DEF WriteMore
  <1>2. handle[p].at = "write" /\ UNCHANGED <<durable, lock, acked, syncFailed, raced>>
    BY DEF WriteMore
  <1> DEFINE h == [handle[p] EXCEPT !.part = part,
                                    !.at = IF part = 3 THEN afterWrite ELSE "write"]
  <1>3. handle[p].part < 3 /\ part \in 1 .. 3 /\ handle[p].part \in 0 .. 2
    BY <1>t, <1>2 DEF written
  <1>4. PICK e \in Entries, m \in 0 .. 2 : e = handle[p].new /\ m = handle[p].part
    BY <1>t, <1>3
  <1>5. file' = writeTo(file, e, m, part) /\ part \in m + 1 .. 3
    BY <1>1, <1>4
  <1>g. grown(file, e, m, part, file')
    BY <1>t, <1>5, WriteEffect
  <1>6. /\ file' \in Seq(Lines) /\ wellFormed(file') /\ Len(file) <= Len(file')
        /\ Len(file') <= Len(file) + 1
        /\ \A i \in 1 .. Len(file) : file'[i].entry = file[i].entry
        /\ \A i \in 1 .. Len(file) : file[i].more => file'[i].more
        /\ Len(file') > Len(file) =>
                endsClean(file) /\ m # 2 /\ file'[Len(file) + 1].entry = e
        /\ m = 0 => keptIn(file', Len(file'), e)
        /\ part = 3 => endsClean(file')
        /\ endedLines(file) <= endedLines(file')
    BY <1>g DEF grown
  <1>n. /\ Len(file) \in Nat /\ Len(file') \in Nat
        /\ endedLines(file) \in Nat /\ endedLines(file) <= Len(file)
        /\ endedLines(file') \in Nat /\ endedLines(file') <= Len(file')
        /\ part = 3 => endedLines(file') = Len(file')
    <2>1. \A g \in Seq(Lines) :
            /\ Len(g) \in Nat /\ endedLines(g) \in Nat /\ endedLines(g) <= Len(g)
            /\ endsClean(g) => endedLines(g) = Len(g)
      BY EndedCount
    <2> QED BY <1>t, <1>6, <2>1
  <1>m. /\ dead(file) => dead(file')
        /\ \A a : \A k \in 0 .. Len(file), l \in Nat :
                    k <= l /\ keptIn(file, k, a) => keptIn(file', l, a)
        /\ \A es \in Seq(Entries) : past(es, file) => past(es, file')
    BY <1>t, <1>g, GrownKeeps
  <1>7. /\ h \in Handles /\ h.part = part /\ h.entries = handle[p].entries
        /\ h.at = (IF part = 3 THEN afterWrite ELSE "write")
        /\ h.new = e /\ h.stamp = handle[p].stamp /\ h.wrote = handle[p].wrote
    <2>1. part \in Parts /\ (IF part = 3 THEN afterWrite ELSE "write") \in Places
      BY <1>3 DEF Parts, Places, afterWrite
    <2>2. h \in Handles
      BY <1>t, <2>1 DEF Handles
    <2> QED BY <1>t, <1>4, <2>2 DEF Handles
  <1>h. handle' = [handle EXCEPT ![p] = h]
    BY <1>1
  <1> HIDE DEF h
  <1>8. /\ handle' \in [Processes -> Handles] /\ handle'[p] = h
        /\ \A q \in Processes : q # p => handle'[q] = handle[q]
    BY <1>f, <1>7, <1>h
  <1>9. /\ h.at \in Writing /\ (h.at = "write" => part < 3)
        /\ h.at \in {"sync", "push"} => part = 3
        /\ Fsync => h.at # "push"
    BY <1>3, <1>7 DEF Writing, afterWrite
  <1>10. FileType'
    BY <1>2, <1>6, <1>8, <1>n DEF FileInv, FileType
  <1>11. LockOK'
    <2>1. h.at # "closed"
      BY <1>9 DEF Writing
    <2> QED BY <1>2, <1>8, <2>1 DEF FileInv, FileType, LockOK
  <1>12. written(h, file', durable')
    <2>1. keptIn(file', Len(file'), e)
      <3>1. CASE m = 0
        BY <1>6, <3>1
      <3>2. CASE m # 0
        <4>1. keptIn(file, Len(file), e)
          BY <1>t, <1>2, <1>4, <3>2 DEF written
        <4> QED BY <1>m, <1>n, <1>6, <4>1
      <3> QED BY <3>1, <3>2
    <2>2. h.at = "sync" => keptIn(file', endedLines(file'), e)
      BY <1>9, <1>n, <2>1
    <2> QED BY <1>7, <1>9, <2>1, <2>2 DEF written
  <1>13. \A q \in Processes :
            written(handle'[q], file', durable') /\ readOnly(handle'[q], file')
    <2> SUFFICES ASSUME NEW q \in Processes
                 PROVE  written(handle'[q], file', durable) /\ readOnly(handle'[q], file')
      BY <1>2
    <2>0. /\ handle[q].entries \in Seq(Entries) /\ durable \in Nat
          /\ durable <= endedLines(file)
          /\ written(handle[q], file, durable) /\ readOnly(handle[q], file)
      BY HandleFields
    <2>1. handle'[q].entries = handle[q].entries /\ handle'[q].wrote = handle[q].wrote
      BY <1>7, <1>8
    <2>2. readOnly(handle'[q], file')
      BY <1>m, <2>0, <2>1 DEF readOnly
    <2>3. CASE q = p
      BY <1>2, <1>8, <1>12, <2>2, <2>3
    <2>4. CASE q # p
      <3>1. handle'[q] = handle[q]
        BY <1>8, <2>4
      <3>2. /\ durable \in 0 .. Len(file) /\ Len(file) \in 0 .. Len(file)
            /\ endedLines(file) \in 0 .. Len(file)
        BY <1>n, <2>0
      <3>3. \A a : /\ keptIn(file, Len(file), a) => keptIn(file', Len(file'), a)
                   /\ keptIn(file, endedLines(file), a) => keptIn(file', endedLines(file'), a)
                   /\ keptIn(file, durable, a) => keptIn(file', durable, a)
        BY <1>m, <1>n, <1>6, <2>0, <3>2
      <3>4. written(handle[q], file', durable)
        BY <2>0, <3>3 DEF written
      <3> QED BY <2>2, <3>1, <3>4
    <2> QED BY <2>3, <2>4
  <1>14. DurableOK'
    <2> SUFFICES ASSUME Fsync, NEW a \in acked PROVE keptIn(file', durable, a)
      BY <1>2 DEF DurableOK
    <2>1. keptIn(file, durable, a)
      BY DEF FileInv, DurableOK
    <2>2. durable \in 0 .. Len(file) /\ durable \in Nat /\ durable <= durable
      BY <1>t, <1>n
    <2> QED BY <1>m, <2>1, <2>2
  <1>15. ASSUME ~raced, ~syncFailed PROVE Clean'
    <2>0. Clean
      BY <1>15 DEF FileInv
    <2>1. /\ p \in lock \/ lock = {}
          /\ \A q \in Processes : handle[q].at \in Writing => q = p
          /\ appenderKnows(handle[p], file)
          /\ p \in lock => holderKnows(handle[p], file)
      BY <1>k, <1>2, <1>15 DEF knows, Writing
    <2>2. PICK es \in Seq(Entries) : es = handle[p].entries
      BY <1>t
    <2>3. PICK x \in Payloads : e = nextEntry(es, x)
      BY <1>4, <2>1, <2>2 DEF appenderKnows
    <2>4. /\ (m = 0 /\ ~dead(file) /\ endsClean(file)) => holds(es, file)
          /\ m > 0 => /\ ~endsClean(file)
                      /\ ~dead(file) => /\ holds(Append(es, e), file)
                                        /\ file[Len(file)].whole <=> m >= 2
      BY <1>4, <2>1, <2>2 DEF appenderKnows
    <2>w. ASSUME NEW g, g = writeTo(file, e, m, part)
          PROVE
          /\ endsClean(g) <=> part = 3
          /\ ~dead(g) =>
                /\ ~dead(file) /\ holds(Append(es, e), g)
                /\ g[Len(g)].whole <=> part >= 2
                /\ m = 0 => endsClean(file) /\ Len(g) = Len(file) + 1
      BY <1>t, <1>5, <2>4, <2>w, CleanWrite
    <2>5. /\ endsClean(file') <=> part = 3
          /\ ~dead(file') =>
                /\ ~dead(file) /\ holds(Append(es, e), file')
                /\ file'[Len(file')].whole <=> part >= 2
                /\ m = 0 => endsClean(file) /\ Len(file') = Len(file) + 1
      BY <1>5, <2>w
    <2>6. chained(file)'
      <3> SUFFICES ASSUME NEW i \in 1 .. Len(file'), \A j \in 1 .. i - 1 : ~file'[j].more
                   PROVE  linked(file', i)
        BY DEF chained
      <3>0. chained(file)
        BY <2>0 DEF Clean
      <3>1. CASE i \in 1 .. Len(file)
        <4>1. Len(file) \in Nat /\ Len(file) <= Len(file)
          BY <1>n
        <4>2. \A j \in 1 .. Len(file) - 1 : file[j].more => file'[j].more
          BY <1>6, <4>1
        <4> QED BY <1>t, <1>6, <3>0, <3>1, <4>1, <4>2, LinksKept
      <3>2. CASE i \notin 1 .. Len(file)
        <4>1. /\ Len(file') > Len(file) /\ i = Len(file) + 1
              /\ Len(file') = Len(file) + 1
          BY <1>n, <1>6, <3>2
        <4>2. endsClean(file) /\ m # 2 /\ file'[Len(file) + 1].entry = e
          BY <1>6, <4>1
        <4>3. m = 0
          BY <2>4, <4>2
        <4>4. ~dead(file)
          <5>1. \A j \in 1 .. Len(file) : ~file'[j].more
            BY <4>1
          <5>2. \A j \in 1 .. Len(file) : ~file[j].more
            BY <1>6, <5>1
          <5> QED BY <5>2 DEF dead
        <4>5. holds(es, file)
          BY <2>4, <4>2, <4>3, <4>4
        <4> QED BY <1>t, <1>6, <2>3, <4>1, <4>2, <4>5, NewLineLinks
      <3> QED BY <3>1, <3>2
    <2>7. /\ \A q, r \in Processes :
                handle'[q].at \in Writing /\ handle'[r].at \in Writing => q = r
          /\ \A q \in Processes : handle'[q].at \in Writing => q \in lock' \/ lock' = {}
      BY <1>2, <1>8, <2>1
    <2>8. \A q \in Processes : knows(handle'[q], file')
      <3> SUFFICES ASSUME NEW q \in Processes PROVE knows(handle'[q], file')
        OBVIOUS
      <3>0. handle[q].entries \in Seq(Entries) /\ knows(handle[q], file)
        BY <1>15, HandleFields
      <3>1. ~dead(file') => past(handle'[q].entries, file')
        <4>1. handle'[q].entries = handle[q].entries
          BY <1>7, <1>8
        <4> QED BY <1>m, <3>0, <4>1 DEF knows
      <3>2. appenderKnows(h, file')
        BY <1>3, <1>7, <2>2, <2>3, <2>5 DEF appenderKnows
      <3>3. handle'[q].at \in Writing => q = p
        BY <1>8, <2>1
      <3> QED BY <1>8, <3>1, <3>2, <3>3 DEF knows
    <2>9. ASSUME p \in lock PROVE holderKnows(h, file')
      <3>1. dead(file') \/ staleStamp(h, file')
        <4> SUFFICES ASSUME ~dead(file'), NEW g \in Seq(Lines), Len(g) = Len(file')
                     PROVE  h.stamp # stampOf(g)
          BY DEF staleStamp
        <4>1. CASE m = 0
          <5>1. current(handle[p], file)
            BY <1>2, <1>4, <2>1, <2>9, <4>1 DEF holderKnows, Writing
          <5>2. handle[p].stamp = stampOf(file)
            BY <2>5, <4>1, <5>1 DEF current
          <5>3. Len(g) # Len(file)
            BY <1>n, <2>5, <4>1
          <5> QED BY <1>t, <1>7, <5>2, <5>3, StampType
        <4>2. CASE m # 0
          <5>1. staleStamp(handle[p], file)
            BY <1>2, <1>4, <2>1, <2>5, <2>9, <4>2 DEF holderKnows, Writing
          <5>2. Len(file') = Len(file)
            <6>1. ~endsClean(file)
              BY <2>4, <4>2
            <6> QED BY <1>n, <1>6, <6>1
          <5> QED BY <1>7, <5>1, <5>2 DEF staleStamp
        <4> QED BY <4>1, <4>2
      <3> QED BY <1>3, <1>7, <1>9, <3>1 DEF holderKnows, Writing
    <2>10. \A q \in lock' : holderKnows(handle'[q], file')
      <3>1. \A q \in lock' : q = p
        BY <1>2, <2>1 DEF FileInv, LockOK
      <3> QED BY <1>2, <1>8, <2>9, <3>1
    <2> QED BY <2>6, <2>7, <2>8, <2>10 DEF Clean
  <1> QED BY <1>2, <1>6, <1>10, <1>11, <1>13, <1>14, <1>15 DEF FileInv

\* What is left of a line is a line with the same entry, and has its newline
\* only if it is the line.
LEMMA CutLine ==
    ASSUME NEW l \in Lines, NEW k \in cuts(l)
    PROVE  k \in Lines /\ k.entry = l.entry /\ (k.ended => k = l)
  <1>1. \/ k = [l EXCEPT !.whole = FALSE, !.more = FALSE, !.ended = FALSE]
        \/ k = l
        \/ k = [l EXCEPT !.more = FALSE, !.ended = FALSE]
        \/ k = [l EXCEPT !.ended = FALSE]
    BY DEF cuts
  <1> QED BY <1>1 DEF Lines

LEMMA PowerLossStep ==
    ASSUME FileInv, PowerLoss
    PROVE  FileInv'
  <1>t. /\ file \in Seq(Lines) /\ Len(file) \in Nat /\ wellFormed(file)
        /\ durable \in Nat /\ durable <= endedLines(file)
        /\ endedLines(file) \in Nat /\ endedLines(file) <= Len(file)
    BY EndedCount DEF FileInv, FileType
  <1>1. /\ lock' = {} /\ handle' = [p \in Processes |-> Closed]
        /\ UNCHANGED <<acked, syncFailed, raced>>
    BY DEF PowerLoss
  <1>2. PICK n \in durable .. Len(file) :
            \/ file' = SubSeq(file, 1, n) /\ durable' = endedLines(SubSeq(file, 1, n))
            \/ /\ n < Len(file)
               /\ durable' = n
               /\ \E line \in cuts(file[n + 1]) :
                        file' = Append(SubSeq(file, 1, n), line)
    BY DEF PowerLoss
  <1>n. n \in Nat /\ n <= Len(file) /\ durable <= n
    BY <1>t, <1>2
  <1>s. /\ SubSeq(file, 1, n) \in Seq(Lines) /\ Len(SubSeq(file, 1, n)) = n
        /\ \A i \in 1 .. n : SubSeq(file, 1, n)[i] = file[i]
    BY <1>t, <1>n
  <1>3. /\ file' \in Seq(Lines) /\ n <= Len(file') /\ Len(file') <= Len(file)
        /\ Len(file') <= n + 1
        /\ \A i \in 1 .. n : file'[i] = file[i]
        /\ \A i \in 1 .. Len(file') :
              file'[i].entry = file[i].entry /\ (file'[i].ended => file'[i] = file[i])
        /\ durable' \in Nat /\ durable <= durable' /\ durable' <= endedLines(file')
    <2>e. \A g \in Seq(Lines) :
            /\ endedLines(g) = IF endsClean(g) THEN Len(g) ELSE Len(g) - 1
            /\ endedLines(g) \in Nat /\ Len(g) \in Nat /\ Len(g) - 1 <= endedLines(g)
      BY EndedCount
    <2>1. CASE file' = SubSeq(file, 1, n) /\ durable' = endedLines(SubSeq(file, 1, n))
      <3>0. PICK g \in Seq(Lines) : g = SubSeq(file, 1, n)
        BY <1>s
      <3>1. durable <= endedLines(g)
        <4>1. CASE n < Len(file)
          <5>1. endsClean(g)
            <6>1. CASE n = 0
              BY <1>s, <3>0, <6>1, EmptySeq DEF endsClean
            <6>2. CASE n # 0
              <7>1. n \in 1 .. n /\ n \in 1 .. Len(file)
                BY <1>n, <1>t, <6>2
              <7>2. file[n].ended
                BY <1>t, <4>1, <7>1 DEF wellFormed
              <7> QED BY <1>s, <3>0, <7>1, <7>2 DEF endsClean
            <6> QED BY <6>1, <6>2
          <5> QED BY <1>n, <1>s, <2>e, <3>0, <5>1
        <4>2. CASE n = Len(file)
          <5>1. g = file
            BY <1>t, <1>s, <3>0, <4>2, SeqEqual
          <5> QED BY <1>t, <5>1
        <4> QED BY <1>n, <1>t, <4>1, <4>2
      <3>2. file' = g /\ durable' = endedLines(g)
        BY <2>1, <3>0
      <3>3. Len(g) = n /\ \A i \in 1 .. n : g[i] = file[i]
        BY <1>s, <3>0
      <3> QED BY <1>n, <2>e, <3>1, <3>2, <3>3
    <2>2. CASE \E line \in cuts(file[n + 1]) :
                /\ n < Len(file) /\ durable' = n
                /\ file' = Append(SubSeq(file, 1, n), line)
      <3>1. PICK line \in cuts(file[n + 1]) : /\ n < Len(file) /\ durable' = n
                                              /\ file' = Append(SubSeq(file, 1, n), line)
        BY <2>2
      <3>2. n + 1 \in 1 .. Len(file)
        BY <1>n, <1>t, <3>1
      <3>3. file[n + 1] \in Lines
        BY <1>t, <3>2, LineAt
      <3>4. line \in Lines /\ line.entry = file[n + 1].entry
            /\ (line.ended => line = file[n + 1])
        BY <3>3, CutLine
      <3>5. /\ file' \in Seq(Lines) /\ Len(file') = n + 1 /\ file'[n + 1] = line
            /\ \A i \in 1 .. n : file'[i] = file[i]
        BY <1>n, <1>s, <3>1, <3>4
      <3>6. \A i \in 1 .. Len(file') : i \in 1 .. n \/ i = n + 1
        BY <1>n, <3>5
      <3>7. \A i \in 1 .. Len(file') :
              file'[i].entry = file[i].entry /\ (file'[i].ended => file'[i] = file[i])
        BY <3>4, <3>5, <3>6
      <3>8. durable' <= endedLines(file')
        <4>1. endedLines(file') \in Nat /\ n + 1 - 1 <= endedLines(file')
          BY <2>e, <3>5
        <4> QED BY <1>n, <3>1, <4>1
      <3> QED BY <1>n, <3>1, <3>2, <3>5, <3>7, <3>8
    <2> QED BY <1>2, <2>1, <2>2
  <1>4. FileType'
    <2>1. handle' \in [Processes -> Handles]
      BY <1>1, ClosedType
    <2> QED BY <1>1, <1>3, <2>1 DEF FileInv, FileType
  <1>c. \A p \in Processes : handle'[p] = Closed
    BY <1>1
  <1>5. LockOK'
    BY <1>1 DEF LockOK
  <1>w. \A p \in Processes :
            written(handle'[p], file', durable') /\ readOnly(handle'[p], file')
    BY <1>3, <1>c, ClosedType
  <1>6. wellFormed(file')
    <2> SUFFICES ASSUME NEW i \in 1 .. Len(file')
                 PROVE  /\ i < Len(file') => file'[i].ended
                        /\ file'[i].ended => file'[i].whole \/ file'[i].more
      BY DEF wellFormed
    <2>1. i \in 1 .. Len(file) /\ i \in Nat /\ Len(file') \in Nat
      BY <1>t, <1>3
    <2>2. /\ i < Len(file) => file[i].ended
          /\ file[i].ended => file[i].whole \/ file[i].more
      BY <1>t, <2>1 DEF wellFormed
    <2>3. i < Len(file') => i \in 1 .. n /\ i < Len(file)
      BY <1>t, <1>n, <1>3, <2>1
    <2>4. i < Len(file') => file'[i].ended
      BY <1>3, <2>2, <2>3
    <2> QED BY <1>3, <2>2, <2>4
  <1>7. DurableOK'
    <2> SUFFICES ASSUME Fsync, NEW a \in acked PROVE keptIn(file', durable', a)
      BY <1>1 DEF DurableOK
    <2>1. PICK i \in 1 .. durable : file[i].more \/ file[i].entry = a
      BY DEF FileInv, DurableOK, keptIn
    <2>2. i \in 1 .. n /\ i \in 1 .. durable'
      BY <1>t, <1>n, <1>3
    <2> QED BY <1>3, <2>1, <2>2 DEF keptIn
  <1>8. ASSUME ~raced, ~syncFailed PROVE Clean'
    <2>0. chained(file)
      BY <1>8 DEF FileInv, Clean
    <2>1. chained(file')
      <3> SUFFICES ASSUME NEW i \in 1 .. Len(file'), \A j \in 1 .. i - 1 : ~file'[j].more
                   PROVE  linked(file', i)
        BY DEF chained
      <3>2. Len(file') \in Nat /\ Len(file') <= Len(file')
        BY <1>3
      <3>3. \A j \in 1 .. Len(file') : file'[j].entry = file[j].entry
        BY <1>3
      <3>4. \A j \in 1 .. Len(file') - 1 : file[j].more => file'[j].more
        <4> TAKE j \in 1 .. Len(file') - 1
        <4>1. j \in 1 .. n
          BY <1>n, <1>3, <3>2
        <4> QED BY <1>3, <4>1
      <3> QED BY <1>t, <1>3, <2>0, <3>2, <3>3, <3>4, LinksKept
    <2>2. \A p \in Processes : knows(handle'[p], file') /\ handle'[p].at \notin Writing
      BY <1>3, <1>c, ClosedType
    <2> QED BY <1>1, <2>1, <2>2 DEF Clean
  <1> QED BY <1>1, <1>4, <1>5, <1>6, <1>7, <1>8, <1>w DEF FileInv
-----------------------------------------------------------------------------
(* The theorems.                                                             *)

\* Every reachable state has FileInv: whatever the writers do to each other the
\* file is well formed, what is acknowledged is durable or spoiled, and what
\* was only read is a past of the file; and while syncs succeed and no append
\* without the lock meets another writer, the file is chained and its one
\* writer knows it (ledger.rs open_exclusive, load, append, reload_if_changed;
\* main.rs cmd_peer).
THEOREM FileInvariant == Spec => []FileInv
  <1>1. Init => FileInv
    <2> SUFFICES ASSUME Init PROVE FileInv
      OBVIOUS
    <2>1. /\ file = <<>> /\ durable = 0 /\ lock = {} /\ acked = {}
          /\ syncFailed = FALSE /\ raced = FALSE
          /\ handle = [p \in Processes |-> Closed]
          /\ file \in Seq(Lines) /\ Len(file) = 0
      BY DEF Init
    <2>2. \A p \in Processes : handle[p] = Closed
      BY <2>1
    <2>3. FileType
      <3>1. handle \in [Processes -> Handles]
        BY <2>1, ClosedType
      <3>2. durable \in Nat /\ durable <= endedLines(file)
        <4>1. endedLines(file) \in Nat
          BY <2>1, EndedCount
        <4> QED BY <2>1, <4>1
      <3> QED BY <2>1, <3>1, <3>2 DEF FileType
    <2>4. wellFormed(file) /\ chained(file) /\ DurableOK /\ LockOK
      BY <2>1 DEF wellFormed, chained, DurableOK, LockOK
    <2>5. \A p \in Processes : written(handle[p], file, durable)
                              /\ readOnly(handle[p], file) /\ knows(handle[p], file)
                              /\ handle[p].at \notin Writing
      BY <2>1, <2>2, ClosedType
    <2>6. Clean
      BY <2>1, <2>4, <2>5 DEF Clean
    <2> QED BY <2>3, <2>4, <2>5, <2>6 DEF FileInv
  <1>2. FileInv /\ [Next]_vars => FileInv'
    <2> SUFFICES ASSUME FileInv, [Next]_vars PROVE FileInv'
      OBVIOUS
    <2>1. CASE Next
      <3>1. ASSUME NEW p \in Processes,
                   OpenExclusive(p) \/ Open(p) \/ Exit(p)
            PROVE  FileInv'
        BY <3>1, OpeningStep
      <3>2. ASSUME NEW p \in Processes,
                   Load(p) \/ TakeStamp(p) \/ LoadFails(p) \/ ReloadIfChanged(p)
            PROVE  FileInv'
        BY <3>2, ReadingStep
      <3>3. ASSUME NEW p \in Processes, NEW x \in Payloads, StartAppend(p, x)
            PROVE  FileInv'
        BY <3>3, StartAppendStep
      <3>4. ASSUME NEW p \in Processes, FailWrite(p) \/ FailSync(p)
            PROVE  FileInv'
        BY <3>4, AppendFailsStep
      <3>5. ASSUME NEW p \in Processes, WriteMore(p) \/ SyncData(p) \/ Push(p)
            PROVE  FileInv'
        BY <3>5, WriteMoreStep, SyncDataStep, PushStep
      <3>6. CASE PowerLoss
        BY <3>6, PowerLossStep
      <3> QED BY <2>1, <3>1, <3>2, <3>3, <3>4, <3>5, <3>6 DEF Next
    <2>2. CASE UNCHANGED vars
      BY <2>2 DEF vars, FileInv, FileType, LockOK, DurableOK, Clean,
                  wellFormed, chained, linked
    <2> QED BY <2>1, <2>2
  <1> QED BY <1>1, <1>2, PTL DEF Spec

\* A file that loads has no line that was run on.
LEMMA LoadsAlive ==
    ASSUME NEW f \in Seq(Lines), loads(f)
    PROVE  ~dead(f) /\ holds(readBack(f), f) /\ readBack(f) \in Seq(Entries)
  <1>1. \A i \in 1 .. Len(f) : readable(f[i])
    BY DEF loads
  <1>2. ~dead(f)
    BY <1>1 DEF dead, readable
  <1> QED BY <1>2, ReadBackEffect

\* The types, and that only the last line of a file may lack its newline and
\* what is durable are complete lines, in every reachable state (ledger.rs).
THEOREM FileTypes == Spec => []TypeOK
  <1>1. FileInv => TypeOK
    <2> SUFFICES ASSUME FileInv PROVE TypeOK
      OBVIOUS
    <2>0. Len(file) \in Nat /\ endedLines(file) \in Nat
      BY EndedCount DEF FileInv, FileType
    <2>1. \A i \in 1 .. Len(file) - 1 : file[i].ended
      BY <2>0 DEF FileInv, wellFormed
    <2>2. ASSUME NEW p \in Processes
          PROVE  /\ handle[p].at \in Places /\ handle[p].entries \in Seq(Entries)
                 /\ handle[p].part \in 0 .. 3 /\ handle[p].wrote \in BOOLEAN
      BY HandleFields
    <2>3. durable \in 0 .. endedLines(file)
      BY <2>0 DEF FileInv, FileType
    <2> QED BY <2>1, <2>2, <2>3 DEF TypeOK, Places, FileInv, FileType
  <1> QED BY <1>1, FileInvariant, PTL

\* While syncs succeed and no append without the lock meets another writer, a
\* file that loads is one hash chain with dense numbers, for any number of
\* processes, records and lines (ledger.rs append, verify_chain; main.rs
\* cmd_peer).
THEOREM OneChain == Spec => []LoadableFileIsOneChain
  <1>1. FileInv => LoadableFileIsOneChain
    <2> SUFFICES ASSUME FileInv, ~syncFailed, ~raced, loads(file)
                 PROVE  problems(readBack(file)) = {}
      BY DEF LoadableFileIsOneChain, FailedAppendsDoNotFork
    <2> DEFINE es == readBack(file)
    <2>1. file \in Seq(Lines) /\ chained(file)
      BY DEF FileInv, FileType, Clean
    <2>2. ~dead(file) /\ holds(es, file) /\ es \in Seq(Entries)
      BY <2>1, LoadsAlive
    <2> HIDE DEF es
    <2>3. ASSUME NEW i \in DOMAIN es
          PROVE  /\ Last(es[i])[1] = i - 1
                 /\ Front(es[i]) = IF i = 1 THEN <<>> ELSE es[i - 1]
      <3>1. i \in 1 .. Len(file) /\ DOMAIN es = 1 .. Len(es) /\ Len(file) \in Nat
        BY <2>1, <2>2 DEF holds
      <3>2. \A j \in 1 .. i - 1 : ~file[j].more
        BY <2>2, <3>1 DEF dead
      <3>3. linked(file, i)
        BY <2>1, <3>1, <3>2 DEF chained
      <3>4. es[i] = file[i].entry /\ (i # 1 => es[i - 1] = file[i - 1].entry)
        BY <2>2, <3>1 DEF holds
      <3> QED BY <3>3, <3>4 DEF linked
    <2> QED BY <2>3 DEF problems, es
  <1> QED BY <1>1, FileInvariant, PTL

\* When appends are synced, a file that loads holds every append that returned
\* Ok, whatever failed, whoever wrote into its line and wherever the power was
\* cut (ledger.rs append).
THEOREM AcknowledgedKept == Spec => []AcknowledgedIsKept
  <1>1. FileInv => AcknowledgedIsKept
    <2> SUFFICES ASSUME FileInv, Fsync, loads(file), NEW e \in acked
                 PROVE  e \in ToSet(readBack(file))
      BY DEF AcknowledgedIsKept
    <2> DEFINE es == readBack(file)
    <2>1. file \in Seq(Lines) /\ durable \in 0 .. Len(file)
      BY EndedCount DEF FileInv, FileType
    <2>2. ~dead(file) /\ holds(es, file) /\ es \in Seq(Entries)
      BY <2>1, LoadsAlive
    <2> HIDE DEF es
    <2>3. PICK i \in 1 .. durable : file[i].more \/ file[i].entry = e
      BY DEF FileInv, DurableOK, keptIn
    <2>4. i \in 1 .. Len(file)
      BY <2>1
    <2>5. ~file[i].more
      BY <2>2, <2>4 DEF dead
    <2>6. e = es[i] /\ i \in DOMAIN es
      BY <2>2, <2>3, <2>4, <2>5 DEF holds
    <2>7. e \in {es[j] : j \in DOMAIN es}
      BY <2>6
    <2> QED BY <2>7 DEF ToSet, es
  <1> QED BY <1>1, FileInvariant, PTL

\* What any process has only read of a log is a past of the file, as long as
\* the file loads and whatever its writers do to each other; what a process has
\* also written is, while syncs succeed and no append without the lock meets
\* another writer (ledger.rs open, load, append; main.rs open_node).
THEOREM PastIsHeld == Spec => []HandlesHoldThePast
  <1>1. FileInv => HandlesHoldThePast
    <2> SUFFICES ASSUME FileInv, loads(file), NEW p \in Processes,
                        ~handle[p].wrote \/ (~syncFailed /\ ~raced)
                 PROVE  IsPrefix(handle[p].entries, readBack(file))
      BY DEF HandlesHoldThePast
    <2>0. file \in Seq(Lines) /\ handle[p].entries \in Seq(Entries)
      BY HandleFields
    <2>1. ~dead(file) /\ holds(readBack(file), file) /\ readBack(file) \in Seq(Entries)
      BY <2>0, LoadsAlive
    <2>2. past(handle[p].entries, file)
      BY <2>1 DEF FileInv, Clean, knows, readOnly
    <2>3. PICK hs \in Seq(Entries), es \in Seq(Entries) :
              hs = handle[p].entries /\ es = readBack(file)
      BY <2>0, <2>1
    <2>4. /\ Len(hs) \in Nat /\ Len(es) \in Nat /\ Len(hs) <= Len(es)
          /\ \A i \in 1 .. Len(hs) : hs[i] = es[i]
      BY <2>0, <2>1, <2>2, <2>3 DEF holds, past
    <2>5. SubSeq(hs, 1, Len(hs)) = SubSeq(es, 1, Len(hs))
      <3>1. hs = SubSeq(hs, 1, Len(hs))
        BY <2>4
      <3>2. /\ SubSeq(es, 1, Len(hs)) \in Seq(Entries)
            /\ Len(SubSeq(es, 1, Len(hs))) = Len(hs)
            /\ \A i \in 1 .. Len(hs) : SubSeq(es, 1, Len(hs))[i] = es[i]
        BY <2>4
      <3>3. hs = SubSeq(es, 1, Len(hs))
        BY <2>4, <3>2, SeqEqual
      <3> QED BY <3>1, <3>3
    <2> QED BY <2>3, <2>4, <2>5 DEF IsPrefix
  <1> QED BY <1>1, FileInvariant, PTL

\* While no append without the lock meets another writer, the holder of the
\* lock whose stamp is the file's holds what the file holds, so that
\* reload_if_changed loses nothing by skipping the read (ledger.rs).
THEOREM HonestStamp == Spec => []StampIsHonest
  <1>1. FileInv => StampIsHonest
    <2> SUFFICES ASSUME FileInv, ~syncFailed, ~raced, loads(file), NEW p \in lock,
                        handle[p].at = "idle", handle[p].stamp = stampOf(file)
                 PROVE  handle[p].entries = readBack(file)
      BY DEF StampIsHonest
    <2>0. p \in Processes
      BY DEF FileInv, FileType
    <2>1. file \in Seq(Lines) /\ handle[p].entries \in Seq(Entries)
      BY <2>0, HandleFields
    <2>2. ~dead(file) /\ holds(readBack(file), file) /\ readBack(file) \in Seq(Entries)
      BY <2>1, LoadsAlive
    <2>3. holderKnows(handle[p], file)
      BY DEF FileInv, Clean
    <2>4. holds(handle[p].entries, file)
      BY <2>2, <2>3 DEF holderKnows, current
    <2> QED BY <2>1, <2>2, <2>4, SeqEqual DEF holds
  <1> QED BY <1>1, FileInvariant, PTL
=============================================================================
