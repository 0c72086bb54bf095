--------------------------- MODULE ExchangeProofs ---------------------------
(***************************************************************************)
(* Proofs about Exchange, for every set of records, every limit and every   *)
(* schedule of messages, lost connections, clocks and clients: the two ends *)
(* of a session stay in step (SidesInStep), a session past its comparison   *)
(* has staged the other log whole (WholeLogStaged), and a claim is first     *)
(* judged with the checker that was on offer (CheckersMet).  What the rules  *)
(* make of the records staged is a fold, about which nothing but its frame  *)
(* can be proved: SessionsDeliver and RecordsConverge are model-checked.     *)
(*                                                                         *)
(* The ends are never told where the other one is.  They agree because each *)
(* decides from what it sent and what it received, and both hold the same   *)
(* two things: the invariant relates every message on its way to the state  *)
(* of its sender, so that whoever is a message behind will take the turn    *)
(* the other one took.                                                      *)
(***************************************************************************)
EXTENDS Exchange, FiniteSetTheorems, SequenceTheorems, TLAPS

Fields == {"pc", "held", "outstanding", "buckets", "want", "needs"}
Stages == {"idle", "inventory", "bucket_ids", "want", "records", "done",
           "code_want", "code_blobs", "dht", "peers_digest", "peers_want",
           "peers_records", "pop_digest", "pop_want", "pop_records"}
Comparing == {"inventory", "bucket_ids", "want", "records"}
Coding == {"done", "code_want", "code_blobs"}

active(n) == at[n].pc # "idle"

\* What is on its way to a node: nothing, a message, or two.
first(n) == chan[n][1]
second(n) == chan[n][2]
lone(n) == Len(chan[n]) = 1 /\ chan[n] = <<first(n)>>
two(n) == Len(chan[n]) = 2 /\ chan[n] = <<first(n), second(n)>>

\* Where a node goes from here when it takes the message m and does not fail.
nextBuckets(n, m) ==
    IF at[n].pc = "inventory" THEN differing(inventory(at[n].held), m.body)
    ELSE IF at[n].pc = "bucket_ids" THEN at[n].buckets \ {Min(at[n].buckets)}
    ELSE at[n].buckets

Straight == [want |-> "records", records |-> "done", done |-> "code_want",
             code_blobs |-> "dht", dht |-> "peers_digest",
             peers_want |-> "peers_records", peers_records |-> "pop_digest",
             pop_want |-> "pop_records", pop_records |-> "idle", idle |-> "idle"]

nextPc(n, m) ==
    CASE at[n].pc \in {"inventory", "bucket_ids"} ->
            IF nextBuckets(n, m) # {} THEN "bucket_ids" ELSE "want"
      [] at[n].pc = "code_want" ->
            IF at[n].needs = {} /\ m.body = {} THEN "dht" ELSE "code_blobs"
      [] at[n].pc = "peers_digest" ->
            IF m.body = hint_ids(hints[n]) THEN "pop_digest" ELSE "peers_want"
      [] at[n].pc = "pop_digest" -> IF m.body = pop[n] THEN "idle" ELSE "pop_want"
      [] OTHER -> Straight[at[n].pc]

\* A node that would go to p ends its session instead.
quits(n, p) == p = "idle" \/ (p = "pop_digest" /\ n \notin carries)

suits(m, p, B) ==
    /\ m.t = p
    /\ p = "bucket_ids" => m.body.bucket = Min(B)
    /\ p = "records" => m.body \subseteq Records

\* What a message on its way to n says of its sender, which is at most one
\* message further.
says(n, m) ==
    /\ m.t = "inventory" => m.body = inventory(at[other(n)].held)
    /\ m.t = "bucket_ids" => m.body.ids = bucket_ids(log[other(n)], m.body.bucket)
    /\ m.t = "want" => m.body = at[other(n)].want
    /\ m.t = "records" => /\ log[other(n)] \ log[n] \subseteq m.body
                          /\ m.body \subseteq log[other(n)]
    /\ m.t = "code_want" => m.body = at[other(n)].needs
    /\ m.t = "peers_digest" => m.body = hint_ids(hints[other(n)])
    /\ m.t = "pop_digest" => m.body = pop[other(n)]

\* The two ends wait for the same message.
level(n) ==
    /\ at[other(n)].pc = at[n].pc /\ at[other(n)].buckets = at[n].buckets
    /\ ~two(n) /\ ~two(other(n))
    /\ link = "up" => chan[n] # <<>> /\ chan[other(n)] # <<>>

\* The other end is where n will be once it has taken its message.
behind(n) ==
    /\ at[other(n)].pc = nextPc(n, first(n))
    /\ at[other(n)].buckets = nextBuckets(n, first(n))
    /\ chan[other(n)] = <<>>
    /\ link = "up" => two(n)

Queued(n) ==
    /\ chan[n] = <<>> \/ lone(n) \/ two(n)
    /\ chan[n] # <<>> => suits(first(n), at[n].pc, at[n].buckets)
    /\ two(n) => suits(second(n), nextPc(n, first(n)), nextBuckets(n, first(n)))

Paired(n) ==
    active(other(n)) =>
        /\ chan[n] # <<>> => (level(n) \/ behind(n)) /\ says(n, first(n))
        /\ two(n) => says(n, second(n))

Served(n) ==
    link = "up" =>
        /\ chan[n] = <<>> =>
            \/ active(other(n)) /\ chan[other(n)] # <<>>
            \/ /\ at[n].pc = "pop_digest" /\ other(n) \notin carries
               /\ ~active(other(n))
        /\ chan[n] # <<>> /\ ~active(other(n)) =>
            ~two(n) /\ quits(other(n), nextPc(n, first(n)))

InStep(n) == active(n) => Queued(n) /\ Paired(n) /\ Served(n)

Ends ==
    /\ link \in {"up", "cut"} /\ DOMAIN at = Nodes /\ DOMAIN chan = Nodes
    /\ \A n \in Nodes :
        /\ DOMAIN at[n] = Fields /\ at[n].pc \in Stages
        /\ at[n].pc # "bucket_ids" => at[n].buckets = {}

Stores ==
    /\ DOMAIN hints = Nodes /\ DOMAIN pop = Nodes /\ DOMAIN unjudged = Nodes
    /\ log \in [Nodes -> SUBSET Records] /\ blobs \in [Nodes -> SUBSET Blobs]

Shape == Ends /\ Stores

\* What the staging peer of n holds of the two logs as its session goes on.
Staged(n) ==
    /\ at[n].pc \in Comparing =>
        at[n].held = log[n] /\ at[n].outstanding \subseteq at[n].want
    /\ at[n].pc \in Comparing \ {"inventory"} /\ active(other(n)) =>
        \A r \in log[other(n)] \ log[n] :
            Bucket[r] \in at[n].buckets \/ r \in at[n].want
    /\ at[n].pc \in Coding =>
        log[n] \subseteq at[n].held /\ at[n].held \subseteq Records
    /\ at[n].pc \in Coding \ {"done"} => at[n].needs \subseteq Blobs
    /\ at[n].pc \in Coding /\ active(other(n)) =>
        /\ log[other(n)] \subseteq at[n].held
        /\ at[n].held \subseteq log[n] \cup log[other(n)]

ExchangeInv ==
    /\ Shape
    /\ \A n \in Nodes : InStep(n)
    /\ \A n \in Nodes : Staged(n)

\* The code a node asked for is on its way, as far as the other end has it and
\* a message can carry it.
offers(n, m) ==
    m.t = "code_blobs" =>
        /\ m.body \subseteq blobs[other(n)]
        /\ Cardinality(at[n].needs) <= MaxBlobs =>
                at[n].needs \cap blobs[other(n)] \subseteq m.body

Asked(n) ==
    at[n].pc \in {"code_want", "code_blobs"} =>
        at[n].needs = needed_code(n, at[n].held)

Offered(n) ==
    active(n) => /\ chan[n] # <<>> => offers(n, first(n))
                 /\ two(n) => offers(n, second(n))

OfferInv == \A n \in Nodes : Asked(n) /\ Offered(n)

\* Clients publish no verifier code of their own, so that between a request for
\* code and its answer nobody comes to hold more.
ClientsBringNoCode ==
    \A n \in Nodes : \A r \in Clients[n] : Kind[r] # "objective"
-----------------------------------------------------------------------------
(* The two ends, and the queues between them.                                *)

\* Each end is the other's other end.
LEMMA TwoEnds ==
    ASSUME NEW n \in Nodes
    PROVE  /\ other(n) \in Nodes /\ other(n) # n /\ other(other(n)) = n
           /\ \A k \in Nodes : k = n \/ k = other(n)
<1>1. PICK a \in Nodes, b \in Nodes : a # b /\ Nodes = {a, b}
    BY ExchangeAssumption
<1>2. \E m \in Nodes : m # n
    BY <1>1
<1>3. other(n) \in Nodes /\ other(n) # n
    BY <1>2 DEF other
<1>4. \E m \in Nodes : m # other(n)
    BY <1>3
<1>5. other(other(n)) \in Nodes /\ other(other(n)) # other(n)
    BY <1>4 DEF other
<1> QED
    BY <1>1, <1>3, <1>5

\* Taking from and adding to a short queue.
LEMMA Queue ==
    ASSUME NEW a, NEW b
    PROVE  /\ Tail(<<a>>) = <<>> /\ Tail(<<a, b>>) = <<b>>
           /\ Append(<<>>, a) = <<a>> /\ Append(<<a>>, b) = <<a, b>>
           /\ Head(<<a>>) = a /\ Head(<<a, b>>) = a
           /\ Len(<<>>) = 0 /\ Len(<<a>>) = 1 /\ Len(<<a, b>>) = 2
           /\ <<a>>[1] = a /\ <<a, b>>[1] = a /\ <<a, b>>[2] = b
           /\ <<a>> # <<>> /\ <<a, b>> # <<>> /\ <<a, b>> # <<a>>
<1>1. Len(<<>>) = 0 /\ Len(<<a>>) = 1 /\ Len(<<a, b>>) = 2
    OBVIOUS
<1>2. <<a>>[1] = a /\ <<a, b>>[1] = a /\ <<a, b>>[2] = b
    OBVIOUS
<1>3. <<a>> # <<>> /\ <<a, b>> # <<>> /\ <<a, b>> # <<a>>
    BY <1>1
<1>4. Head(<<a>>) = a /\ Head(<<a, b>>) = a
    OBVIOUS
<1>5. Tail(<<a>>) = <<>>
    OBVIOUS
<1>6. Tail(<<a, b>>) = <<b>>
    OBVIOUS
<1>7. Append(<<>>, a) = <<a>>
    OBVIOUS
<1>8. Append(<<a>>, b) = <<a, b>>
    <2>1. <<a>> \in Seq({a, b}) /\ b \in {a, b} /\ <<a, b>> \in Seq({a, b})
        OBVIOUS
    <2>2. Append(<<a>>, b) \in Seq({a, b}) /\ Len(Append(<<a>>, b)) = 2
        BY <2>1, <1>1
    <2>3. Append(<<a>>, b)[1] = a /\ Append(<<a>>, b)[2] = b
        BY <2>1, <1>1, <1>2
    <2>4. \A i \in 1 .. 2 : Append(<<a>>, b)[i] = <<a, b>>[i]
        BY <1>2, <2>3
    <2> QED
        BY <1>1, <2>1, <2>2, <2>4, SeqEqual
<1> QED
    BY <1>1, <1>2, <1>3, <1>4, <1>5, <1>6, <1>7, <1>8

\* A node took its message and sent m.
Sends(n, m) ==
    chan' = [chan EXCEPT ![n] = Tail(@),
                         ![other(n)] = IF link = "up" THEN Append(@, m) ELSE @]

\* The queues after a message was taken and another one sent.
LEMMA Sent ==
    ASSUME NEW n \in Nodes, NEW o, o = other(n), DOMAIN chan = Nodes,
           NEW m, Sends(n, m)
    PROVE  /\ DOMAIN chan' = Nodes
           /\ lone(n) => chan'[n] = <<>>
           /\ two(n) => chan'[n] = <<second(n)>>
           /\ link # "up" => chan'[o] = chan[o]
           /\ link = "up" /\ chan[o] = <<>> => chan'[o] = <<m>>
           /\ link = "up" /\ lone(o) => chan'[o] = <<first(o), m>>
<1>1. o \in Nodes /\ o # n
    BY TwoEnds
<1>2. /\ DOMAIN chan' = Nodes /\ chan'[n] = Tail(chan[n])
      /\ chan'[o] = IF link = "up" THEN Append(chan[o], m) ELSE chan[o]
    BY <1>1 DEF Sends
<1>3. lone(n) => chan'[n] = <<>>
    BY <1>2, Queue DEF lone
<1>4. two(n) => chan'[n] = <<second(n)>>
    BY <1>2, Queue DEF two
<1>5. ASSUME lone(o) PROVE Append(chan[o], m) = <<first(o), m>>
    <2>1. Append(<<first(o)>>, m) = <<first(o), m>>
        BY Queue
    <2> QED
        BY <1>5, <2>1, Zenon DEF lone
<1>6. chan[o] = <<>> => Append(chan[o], m) = <<m>>
    BY Queue
<1> QED
    BY <1>2, <1>3, <1>4, <1>5, <1>6

\* What is on a queue, from its form.
LEMMA Forms ==
    ASSUME NEW n, NEW a, NEW b
    PROVE  /\ chan[n] = <<>> => ~lone(n) /\ ~two(n)
           /\ chan[n] = <<a>> => lone(n) /\ ~two(n) /\ chan[n] # <<>> /\ first(n) = a
           /\ chan[n] = <<a, b>> => /\ two(n) /\ ~lone(n) /\ chan[n] # <<>>
                                    /\ first(n) = a /\ second(n) = b
<1>1. ASSUME chan[n] = <<>> PROVE ~lone(n) /\ ~two(n)
    BY <1>1, Queue DEF lone, two
<1>2. ASSUME chan[n] = <<a>>
      PROVE  lone(n) /\ ~two(n) /\ chan[n] # <<>> /\ first(n) = a
    <2>1. first(n) = a /\ Len(chan[n]) = 1
        BY <1>2, Queue DEF first
    <2> QED
        BY <1>2, <2>1, Queue DEF lone, two
<1>3. ASSUME chan[n] = <<a, b>>
      PROVE  two(n) /\ ~lone(n) /\ chan[n] # <<>> /\ first(n) = a /\ second(n) = b
    <2>1. first(n) = a /\ second(n) = b /\ Len(chan[n]) = 2
        BY <1>3, Queue DEF first, second
    <2> QED
        BY <1>3, <2>1, Queue DEF lone, two
<1> QED
    BY <1>1, <1>2, <1>3

\* Two ends that wait for the same message, each with what the other said, will
\* take the same turn.
LEMMA Agree ==
    ASSUME NEW n \in Nodes, NEW o \in Nodes, o = other(n), n = other(o),
           NEW p, NEW u, Shape,
           at[o].pc = at[n].pc, at[o].buckets = at[n].buckets,
           suits(p, at[n].pc, at[n].buckets), suits(u, at[o].pc, at[o].buckets),
           says(n, p), says(o, u)
    PROVE  nextPc(n, p) = nextPc(o, u) /\ nextBuckets(n, p) = nextBuckets(o, u)
<1>1. CASE at[n].pc = "inventory"
    <2>1. p.body = inventory(at[o].held) /\ u.body = inventory(at[n].held)
        BY <1>1 DEF suits, says
    <2>2. differing(inventory(at[n].held), inventory(at[o].held))
            = differing(inventory(at[o].held), inventory(at[n].held))
        BY DEF differing, inventory
    <2>3. nextBuckets(n, p) = nextBuckets(o, u)
        BY <1>1, <2>1, <2>2 DEF nextBuckets
    <2> QED
        BY <1>1, <2>3 DEF nextPc
<1>2. CASE at[n].pc = "bucket_ids"
    BY <1>2 DEF nextBuckets, nextPc
<1>3. CASE at[n].pc \notin {"inventory", "bucket_ids"}
    <2>1. nextBuckets(n, p) = nextBuckets(o, u)
        BY <1>3 DEF nextBuckets
    <2>2. CASE at[n].pc = "code_want"
        BY <2>1, <2>2 DEF nextPc, suits, says
    <2>3. CASE at[n].pc = "peers_digest"
        BY <2>1, <2>3 DEF nextPc, suits, says
    <2>4. CASE at[n].pc = "pop_digest"
        BY <2>1, <2>4 DEF nextPc, suits, says
    <2>5. CASE at[n].pc \notin {"code_want", "peers_digest", "pop_digest"}
        BY <1>3, <2>1, <2>5 DEF nextPc
    <2> QED
        BY <2>2, <2>3, <2>4, <2>5
<1> QED
    BY <1>1, <1>2, <1>3

\* The same after a step.
LEMMA FormsNext ==
    ASSUME NEW n, NEW a, NEW b
    PROVE  /\ chan'[n] = <<>> => ~lone(n)' /\ ~two(n)'
           /\ chan'[n] = <<a>> => lone(n)' /\ ~two(n)' /\ chan'[n] # <<>> /\ first(n)' = a
           /\ chan'[n] = <<a, b>> => /\ two(n)' /\ ~lone(n)' /\ chan'[n] # <<>>
                                     /\ first(n)' = a /\ second(n)' = b
<1>1. ASSUME chan'[n] = <<>> PROVE ~lone(n)' /\ ~two(n)'
    BY <1>1, Queue DEF lone, two
<1>2. ASSUME chan'[n] = <<a>>
      PROVE  lone(n)' /\ ~two(n)' /\ chan'[n] # <<>> /\ first(n)' = a
    <2>1. first(n)' = a /\ Len(chan'[n]) = 1
        BY <1>2, Queue DEF first
    <2> QED
        BY <1>2, <2>1, Queue DEF lone, two
<1>3. ASSUME chan'[n] = <<a, b>>
      PROVE  two(n)' /\ ~lone(n)' /\ chan'[n] # <<>> /\ first(n)' = a /\ second(n)' = b
    <2>1. first(n)' = a /\ second(n)' = b /\ Len(chan'[n]) = 2
        BY <1>3, Queue DEF first, second
    <2> QED
        BY <1>3, <2>1, Queue DEF lone, two
<1> QED
    BY <1>1, <1>2, <1>3

\* Everything that decides where a node goes from here.
Still(n) == at'[n] = at[n] /\ hints'[n] = hints[n] /\ pop'[n] = pop[n]

LEMMA StillThere ==
    ASSUME NEW n, NEW m, Still(n)
    PROVE  nextPc(n, m)' = nextPc(n, m) /\ nextBuckets(n, m)' = nextBuckets(n, m)
    BY DEF Still, nextPc, nextBuckets

\* n takes its message p and goes where it said it would, sending m.
Moves(n, p, m) ==
    /\ at'[n].pc = nextPc(n, p) /\ at'[n].buckets = nextBuckets(n, p)
    /\ ~quits(n, nextPc(n, p))
    /\ suits(m, at'[n].pc, at'[n].buckets)
    /\ Sends(n, m)

\* A step of a session keeps the two ends in step, if what is and stays on its
\* way says what it should of the state after it.
LEMMA MoveStep ==
    ASSUME NEW n \in Nodes, NEW o \in Nodes, o = other(n), n = other(o),
           NEW p, NEW q, NEW u, NEW m,
           Shape, InStep(n), InStep(o), active(n), chan[n] # <<>>,
           p = first(n), q = second(n), u = first(o),
           Moves(n, p, m), Still(o), carries' = carries, link' = link,
           active(o) /\ level(n) /\ chan[o] # <<>> => says(o, u)',
           active(o) => says(o, m)',
           active(o) /\ behind(n) /\ two(n) => says(n, q)'
    PROVE  InStep(n)' /\ InStep(o)'
<1> USE DEF Moves
<1>1. active(n)' /\ (active(o)' <=> active(o))
    BY DEF active, Still, quits
<1>2. DOMAIN chan = Nodes /\ (lone(n) \/ two(n))
    BY DEF Shape, Ends, InStep, Queued
<1>3. suits(p, at[n].pc, at[n].buckets)
    BY DEF InStep, Queued
<1>4. nextPc(o, u)' = nextPc(o, u) /\ nextBuckets(o, u)' = nextBuckets(o, u)
    BY StillThere
<1>5. CASE ~active(o)
    <2>1. InStep(o)'
        BY <1>1, <1>5 DEF InStep
    <2>2. CASE two(n)
        <3>1. chan'[n] = <<q>>
            BY <1>2, <2>2, Sent
        <3>2. ~two(n)' /\ lone(n)' /\ first(n)' = q
            BY <3>1, FormsNext
        <3>3. link # "up"
            BY <1>5, <2>2 DEF InStep, Served
        <3>4. suits(q, at'[n].pc, at'[n].buckets)
            BY <2>2 DEF InStep, Queued
        <3>5. Queued(n)'
            BY <3>2, <3>4 DEF Queued
        <3> QED
            BY <1>1, <1>5, <2>1, <3>3, <3>5 DEF InStep, Paired, Served
    <2>3. CASE lone(n)
        <3>1. chan'[n] = <<>>
            BY <1>2, <2>3, Sent
        <3>2. ~two(n)' /\ ~lone(n)'
            BY <3>1, FormsNext
        <3>3. ASSUME link = "up"
              PROVE  at'[n].pc = "pop_digest" /\ o \notin carries
            <4>1. quits(o, nextPc(n, p))
                BY <1>5, <3>3 DEF InStep, Served
            <4> QED
                BY <4>1 DEF quits
        <3>4. Queued(n)' /\ Paired(n)'
            BY <1>1, <1>5, <3>1, <3>2 DEF Queued, Paired
        <3>5. Served(n)'
            BY <1>1, <1>5, <3>1, <3>3 DEF Served
        <3> QED
            BY <2>1, <3>4, <3>5 DEF InStep
    <2> QED
        BY <1>2, <2>2, <2>3
<1>6. CASE active(o) /\ level(n)
    <2>1. lone(n) /\ ~two(o)
        BY <1>2, <1>6 DEF level
    <2>2. chan'[n] = <<>> /\ ~two(n)' /\ ~lone(n)'
        BY <1>2, <2>1, Sent, FormsNext
    <2>3. chan[o] = <<>> \/ lone(o)
        BY <1>6, <2>1 DEF InStep, Queued
    <2>4. CASE chan[o] = <<>>
        <3>1. link # "up" /\ chan'[o] = <<>>
            BY <1>2, <1>6, <2>4, Sent DEF level
        <3>2. ~two(o)' /\ ~lone(o)'
            BY <3>1, FormsNext
        <3>3. InStep(n)'
            BY <2>2, <3>1 DEF InStep, Queued, Paired, Served
        <3>4. InStep(o)'
            BY <3>1, <3>2 DEF InStep, Queued, Paired, Served
        <3> QED
            BY <3>3, <3>4
    <2>5. CASE lone(o)
        <3>1. chan[o] # <<>>
            BY <2>5, Forms
        <3>2. suits(u, at[o].pc, at[o].buckets)
            BY <1>6, <3>1 DEF InStep, Queued
        <3>3. says(n, p) /\ says(o, u)
            BY <1>6, <3>1 DEF InStep, Paired
        <3>4. nextPc(n, p) = nextPc(o, u) /\ nextBuckets(n, p) = nextBuckets(o, u)
            BY <1>3, <1>6, <3>2, <3>3, Agree DEF level
        <3>5. link = "up" => chan'[o] = <<u, m>>
            <4>1. link = "up" => chan'[o] = <<first(o), m>>
                BY <1>2, <2>5, Sent
            <4> QED
                BY <4>1, Zenon
        <3>6. link # "up" => chan'[o] = <<u>>
            BY <1>2, <2>5, Sent DEF lone
        <3>7. /\ link = "up" => two(o)' /\ second(o)' = m
              /\ link # "up" => lone(o)' /\ ~two(o)'
              /\ first(o)' = u /\ chan'[o] # <<>>
            BY <3>5, <3>6, FormsNext
        <3>8. InStep(n)'
            BY <1>1, <1>6, <2>2, <3>7 DEF InStep, Queued, Paired, Served
        <3>9. Queued(o)'
            <4>1. suits(first(o)', at'[o].pc, at'[o].buckets)
                BY <3>2, <3>7 DEF Still
            <4>2. two(o)' => suits(m, nextPc(o, u)', nextBuckets(o, u)')
                BY <1>4, <3>4
            <4> QED
                BY <3>7, <4>1, <4>2 DEF Queued
        <3>10. behind(o)'
            BY <1>4, <2>2, <3>4, <3>7 DEF behind
        <3>11. Paired(o)'
            BY <1>1, <1>6, <3>1, <3>7, <3>10 DEF Paired
        <3>12. Served(o)'
            BY <1>1, <3>7 DEF Served
        <3> QED
            BY <3>8, <3>9, <3>11, <3>12 DEF InStep
    <2> QED
        BY <2>3, <2>4, <2>5
<1>7. CASE active(o) /\ behind(n)
    <2>1. chan[o] = <<>>
        BY <1>7 DEF behind
    <2>2. /\ at'[o] = at[o] /\ at'[n].pc = at[o].pc
          /\ at'[n].buckets = at[o].buckets
        BY <1>7 DEF behind, Still
    <2>3. link = "up" => /\ chan'[o] = <<m>> /\ lone(o)' /\ ~two(o)'
                         /\ first(o)' = m /\ chan'[o] # <<>>
        BY <1>2, <2>1, Sent, FormsNext
    <2>4. link # "up" => chan'[o] = <<>> /\ ~two(o)' /\ ~lone(o)'
        BY <1>2, <2>1, Sent, FormsNext
    <2>5. two(n) => /\ chan'[n] = <<q>> /\ lone(n)' /\ ~two(n)'
                    /\ first(n)' = q /\ chan'[n] # <<>>
        BY <1>2, Sent, FormsNext
    <2>6. lone(n) => chan'[n] = <<>> /\ ~two(n)' /\ ~lone(n)'
        BY <1>2, Sent, FormsNext
    <2>7. link = "up" => two(n)
        BY <1>7 DEF behind
    <2>8. level(n)' /\ level(o)'
        BY <1>2, <2>2, <2>3, <2>4, <2>5, <2>6, <2>7 DEF level
    <2>9. two(n) => suits(q, at'[n].pc, at'[n].buckets)
        BY DEF InStep, Queued
    <2>10. Queued(n)'
        BY <1>2, <2>5, <2>6, <2>9 DEF Queued
    <2>11. Paired(n)'
        BY <1>2, <1>7, <2>5, <2>6, <2>8 DEF Paired
    <2>12. Served(n)'
        BY <1>1, <1>7, <2>5, <2>7 DEF Served
    <2>13. Queued(o)'
        BY <2>2, <2>3, <2>4 DEF Queued
    <2>14. Paired(o)'
        BY <1>7, <2>3, <2>4, <2>8 DEF Paired
    <2>15. Served(o)'
        BY <1>1, <2>3 DEF Served
    <2> QED
        BY <2>10, <2>11, <2>12, <2>13, <2>14, <2>15 DEF InStep
<1> QED
    BY <1>5, <1>6, <1>7 DEF InStep, Paired

\* A node that ends its session leaves the other end in step.
LEMMA QuitStep ==
    ASSUME NEW n \in Nodes, NEW o \in Nodes, o = other(n), n = other(o),
           Shape, InStep(n), InStep(o), active(n), chan[n] # <<>>,
           quits(n, nextPc(n, first(n))),
           at'[n].pc = "idle", chan'[o] = chan[o],
           Still(o), carries' = carries, link' = link
    PROVE  InStep(n)' /\ InStep(o)'
<1>1. ~active(n)' /\ (active(o)' <=> active(o))
    BY DEF active, Still
<1>2. InStep(n)'
    BY <1>1 DEF InStep
<1>3. CASE ~active(o)
    BY <1>1, <1>2, <1>3 DEF InStep
<1>4. PICK p, u : p = first(n) /\ u = first(o)
    OBVIOUS
<1>5. nextPc(o, u)' = nextPc(o, u) /\ nextBuckets(o, u)' = nextBuckets(o, u)
    BY StillThere
<1>6. /\ first(o)' = first(o) /\ second(o)' = second(o)
      /\ (two(o)' <=> two(o)) /\ (lone(o)' <=> lone(o))
    BY DEF first, second, two, lone
<1>7. ASSUME active(o) PROVE Queued(o)'
    BY <1>4, <1>5, <1>6, <1>7 DEF InStep, Queued, Still
<1>8. Paired(o)'
    BY <1>1 DEF Paired
<1>9. CASE active(o) /\ level(n)
    <2>1. ASSUME chan[o] # <<>>
          PROVE  ~two(o)' /\ quits(n, nextPc(o, u)')
        <3>1. suits(p, at[n].pc, at[n].buckets) /\ suits(u, at[o].pc, at[o].buckets)
            BY <1>4, <1>9, <2>1 DEF InStep, Queued
        <3>2. says(n, p) /\ says(o, u)
            BY <1>4, <1>9, <2>1 DEF InStep, Paired
        <3>3. nextPc(n, p) = nextPc(o, u)
            BY <1>9, <3>1, <3>2, Agree DEF level
        <3> QED
            BY <1>4, <1>5, <1>6, <1>9, <3>3 DEF level
    <2>2. Served(o)'
        BY <1>1, <1>4, <1>6, <1>9, <2>1 DEF Served, level, quits
    <2> QED
        BY <1>2, <1>7, <1>8, <1>9, <2>2 DEF InStep
<1>10. CASE active(o) /\ behind(n)
    <2>1. at'[o].pc = "pop_digest" /\ n \notin carries /\ chan[o] = <<>>
        BY <1>10 DEF behind, quits, active, Still
    <2>2. Served(o)'
        BY <1>1, <2>1 DEF Served
    <2> QED
        BY <1>2, <1>7, <1>8, <1>10, <2>2 DEF InStep
<1> QED
    BY <1>3, <1>9, <1>10 DEF InStep, Paired

\* A dropped connection leaves only what was sent before.
LEMMA DropStep ==
    ASSUME NEW n \in Nodes, NEW o \in Nodes, o = other(n), n = other(o),
           InStep(o), at'[n].pc = "idle", chan'[o] = chan[o],
           Still(o), link' = "cut"
    PROVE  InStep(n)' /\ InStep(o)'
<1>1. ~active(n)' /\ (active(o)' <=> active(o))
    BY DEF active, Still
<1>2. PICK u : u = first(o)
    OBVIOUS
<1>3. nextPc(o, u)' = nextPc(o, u) /\ nextBuckets(o, u)' = nextBuckets(o, u)
    BY StillThere
<1>4. /\ first(o)' = first(o) /\ second(o)' = second(o)
      /\ (two(o)' <=> two(o)) /\ (lone(o)' <=> lone(o))
    BY DEF first, second, two, lone
<1>5. ASSUME active(o) PROVE Queued(o)'
    BY <1>2, <1>3, <1>4, <1>5 DEF InStep, Queued, Still
<1> QED
    BY <1>1, <1>5 DEF InStep, Paired, Served

\* Nothing that a session looks at changed but, perhaps, the connection.
LEMMA AsideStep ==
    ASSUME UNCHANGED <<at, chan, hints, pop, carries>>,
           link' = link \/ link' = "cut",
           NEW n \in Nodes, NEW o \in Nodes, o = other(n), n = other(o),
           active(n) => log'[n] = log[n], active(o) => log'[o] = log[o],
           InStep(n), InStep(o)
    PROVE  InStep(n)'
<1>1. SUFFICES ASSUME active(n) PROVE Queued(n)' /\ Paired(n)' /\ Served(n)'
    BY DEF InStep, active
<1>2. PICK p, q : p = first(n) /\ q = second(n)
    OBVIOUS
<1>3. nextPc(n, p)' = nextPc(n, p) /\ nextBuckets(n, p)' = nextBuckets(n, p)
    BY StillThere DEF Still
<1>4. /\ first(n)' = first(n) /\ second(n)' = second(n)
      /\ (two(n)' <=> two(n)) /\ (lone(n)' <=> lone(n))
      /\ (two(o)' <=> two(o))
    BY DEF first, second, two, lone
<1>5. Queued(n)'
    BY <1>1, <1>2, <1>3, <1>4 DEF InStep, Queued
<1>6. ASSUME active(o) PROVE /\ says(n, p) => says(n, p)'
                             /\ says(n, q) => says(n, q)'
    BY <1>1, <1>6 DEF says
<1>7. level(n) => level(n)'
    BY <1>4 DEF level
<1>8. behind(n) => behind(n)'
    BY <1>2, <1>3, <1>4 DEF behind
<1>9. Paired(n)'
    BY <1>1, <1>2, <1>4, <1>6, <1>7, <1>8 DEF InStep, Paired, active
<1>10. Served(n)'
    BY <1>1, <1>2, <1>3, <1>4 DEF InStep, Served, active, quits
<1> QED
    BY <1>5, <1>9, <1>10
-----------------------------------------------------------------------------
(* One end's turn.                                                           *)

\* The message at hand, when a node takes it.
LEMMA Taken ==
    ASSUME NEW n \in Nodes, NEW t, t # "idle", InStep(n), Got(n, t)
    PROVE  /\ at[n].pc = t /\ active(n) /\ chan[n] # <<>>
           /\ Body(n) = first(n).body
           /\ suits(first(n), t, at[n].buckets)
<1>1. at[n].pc = t /\ active(n) /\ chan[n] # <<>>
    BY DEF Got, active
<1>2. Queued(n)
    BY <1>1 DEF InStep
<1>3. Head(chan[n]) = first(n)
    <2>1. CASE lone(n)
        BY <2>1, Queue DEF lone
    <2>2. CASE two(n)
        BY <2>2, Queue DEF two
    <2> QED
        BY <1>1, <1>2, <2>1, <2>2 DEF Queued
<1> QED
    BY <1>1, <1>2, <1>3 DEF Body, Queued

\* What Go does to the ends.
LEMMA Gone ==
    ASSUME NEW n \in Nodes, NEW o \in Nodes, o = other(n), n # o, Ends,
           NEW a, NEW m, Go(n, a, m), DOMAIN a = Fields, a.pc \in Stages,
           a.pc # "bucket_ids" => a.buckets = {}
    PROVE  Ends' /\ at'[n] = a /\ at'[o] = at[o] /\ link' = link /\ Sends(n, m)
<1>1. at'[n] = a /\ at'[o] = at[o] /\ link' = link /\ Sends(n, m)
    BY DEF Go, Ends, Sends
<1>2. DOMAIN at' = Nodes /\ \A k \in Nodes : at'[k] = IF k = n THEN a ELSE at[k]
    BY DEF Go, Ends
<1>3. DOMAIN chan' = Nodes
    BY DEF Go, Ends
<1> QED
    BY <1>1, <1>2, <1>3 DEF Ends

\* A turn of n on p, with the message m and the new side a, keeps the invariant:
\* what is left to show is what m says and what the staging peers hold.
LEMMA TurnStep ==
    ASSUME ExchangeInv, NEW n \in Nodes, NEW o \in Nodes, o = other(n), n = other(o),
           NEW p, NEW a, NEW m, Go(n, a, m),
           active(n), chan[n] # <<>>, p = first(n),
           DOMAIN a = Fields, a.pc \in Stages,
           a.pc # "bucket_ids" => a.buckets = {},
           a.pc = nextPc(n, p), a.buckets = nextBuckets(n, p),
           a.pc # "idle", a.pc = "pop_digest" => n \in carries,
           suits(m, a.pc, a.buckets),
           carries' = carries, hints'[o] = hints[o], pop'[o] = pop[o],
           log'[o] = log[o],
           at[n].pc \notin {"code_want", "code_blobs"} => log'[n] = log[n],
           at[n].pc = "inventory" => a.held = at[n].held,
           at[n].pc = "want" => a.want = at[n].want,
           at[n].pc = "code_want" => a.needs = at[n].needs,
           at[n].pc = "peers_digest" => hints'[n] = hints[n],
           at[n].pc = "pop_digest" => pop'[n] = pop[n],
           active(o) => says(o, m)',
           Stores', Staged(n)', Staged(o)'
    PROVE  ExchangeInv'
<1>1. PICK q, u : q = second(n) /\ u = first(o)
    OBVIOUS
<1>2. n # o /\ \A k \in Nodes : k = n \/ k = o
    BY TwoEnds
<1>3. Shape /\ InStep(n) /\ InStep(o)
    BY DEF ExchangeInv
<1>4. Ends' /\ at'[n] = a /\ at'[o] = at[o] /\ link' = link /\ Sends(n, m)
    BY <1>2, <1>3, Gone DEF Shape
<1>5. Moves(n, p, m) /\ Still(o)
    BY <1>4 DEF Moves, Still, quits
<1>6. ASSUME active(o), level(n), chan[o] # <<>> PROVE says(o, u)'
    <2>1. u.t = at[n].pc /\ says(o, u)
        BY <1>1, <1>3, <1>6 DEF InStep, Queued, Paired, suits, level
    <2> QED
        BY <1>4, <2>1 DEF says
<1>7. ASSUME active(o), behind(n), two(n) PROVE says(n, q)'
    <2>1. q.t = nextPc(n, p) /\ says(n, q)
        BY <1>1, <1>3, <1>7 DEF InStep, Queued, Paired, suits
    <2>2. q.t = "records" => log'[n] = log[n]
        BY <2>1 DEF nextPc, Straight
    <2> QED
        BY <1>4, <2>1, <2>2 DEF says
<1>8. InStep(n)' /\ InStep(o)'
    BY <1>1, <1>3, <1>4, <1>5, <1>6, <1>7, MoveStep
<1> QED
    BY <1>2, <1>4, <1>8 DEF ExchangeInv, Shape

\* A staging peer keeps what it holds while its own node does nothing.
LEMMA StagedAside ==
    ASSUME NEW n \in Nodes, NEW o \in Nodes, n = other(o), Staged(o),
           at'[o] = at[o], log'[o] = log[o],
           active(n)' => active(n) /\ log'[n] = log[n]
    PROVE  Staged(o)'
    BY DEF Staged

\* A session that ends, in whatever way, leaves its node idle.
LEMMA IdleAgain ==
    ASSUME NEW n \in Nodes, NEW o \in Nodes, o = other(n), n = other(o), n # o,
           Ends, at' = [at EXCEPT ![n] = Idle], DOMAIN chan' = Nodes,
           link' \in {"up", "cut"}
    PROVE  Ends' /\ Staged(n)' /\ ~active(n)' /\ at'[n].pc = "idle" /\ at'[o] = at[o]
<1>1. /\ Idle.pc = "idle" /\ Idle.buckets = {} /\ DOMAIN Idle = Fields
    BY DEF Idle, Fields
<1>2. DOMAIN at' = Nodes /\ \A k \in Nodes : at'[k] = IF k = n THEN Idle ELSE at[k]
    BY DEF Ends
<1>3. Ends'
    BY <1>1, <1>2 DEF Ends, Stages
<1> QED
    BY <1>1, <1>2, <1>3 DEF Staged, Comparing, Coding, active

LEMMA FinishStep ==
    ASSUME ExchangeInv, NEW n \in Nodes, NEW o \in Nodes, o = other(n), n = other(o),
           active(n), chan[n] # <<>>, Finish(n), quits(n, nextPc(n, first(n))),
           carries' = carries, hints'[o] = hints[o], pop'[o] = pop[o],
           log' = log, Stores'
    PROVE  ExchangeInv'
<1>1. n # o /\ \A k \in Nodes : k = n \/ k = o
    BY TwoEnds
<1>2. Shape /\ InStep(n) /\ InStep(o) /\ Staged(o)
    BY DEF ExchangeInv
<1>3. chan'[o] = chan[o] /\ DOMAIN chan' = Nodes /\ link' = link
    BY <1>1, <1>2 DEF Finish, Shape, Ends
<1>4. Ends' /\ Staged(n)' /\ ~active(n)' /\ at'[n].pc = "idle" /\ at'[o] = at[o]
    BY <1>1, <1>2, <1>3, IdleAgain DEF Finish, Shape, Ends
<1>5. InStep(n)' /\ InStep(o)'
    BY <1>2, <1>3, <1>4, QuitStep DEF Still
<1>6. Staged(o)'
    BY <1>2, <1>4, StagedAside
<1> QED
    BY <1>1, <1>4, <1>5, <1>6 DEF ExchangeInv, Shape

LEMMA DropInv ==
    ASSUME ExchangeInv, NEW n \in Nodes, NEW o \in Nodes, o = other(n), n = other(o),
           Drop(n), hints'[o] = hints[o], pop'[o] = pop[o], log'[o] = log[o], Stores'
    PROVE  ExchangeInv'
<1>1. n # o /\ \A k \in Nodes : k = n \/ k = o
    BY TwoEnds
<1>2. Shape /\ InStep(n) /\ InStep(o) /\ Staged(o)
    BY DEF ExchangeInv
<1>3. chan'[o] = chan[o] /\ DOMAIN chan' = Nodes /\ link' = "cut"
    BY <1>1, <1>2 DEF Drop, Shape, Ends
<1>4. Ends' /\ Staged(n)' /\ ~active(n)' /\ at'[n].pc = "idle" /\ at'[o] = at[o]
    BY <1>1, <1>2, <1>3, IdleAgain DEF Drop, Shape, Ends
<1>5. InStep(n)' /\ InStep(o)'
    BY <1>2, <1>3, <1>4, DropStep DEF Still
<1>6. Staged(o)'
    BY <1>2, <1>4, StagedAside
<1> QED
    BY <1>1, <1>4, <1>5, <1>6 DEF ExchangeInv, Shape

LEMMA FailInv ==
    ASSUME ExchangeInv, NEW n \in Nodes, NEW o \in Nodes, o = other(n), n = other(o),
           Fail(n)
    PROVE  ExchangeInv'
<1>1. Stores'
    BY DEF Fail, ExchangeInv, Shape, Stores
<1> QED
    BY <1>1, DropInv DEF Fail

\* The comparison of the inventories and of the buckets that differ.
LEMMA AskStep ==
    ASSUME ExchangeInv, NEW n \in Nodes, NEW o \in Nodes, o = other(n), n = other(o),
           NEW p, NEW a, AskNext(n, a), UNCHANGED <<log, blobs, hints, pop, unjudged, world>>,
           active(n), chan[n] # <<>>, p = first(n),
           at[n].pc \in {"inventory", "bucket_ids"}, DOMAIN a = Fields,
           a.held = at[n].held, a.buckets = nextBuckets(n, p),
           a.outstanding \subseteq a.want,
           active(o) => \A r \in log[o] \ log[n] :
                            Bucket[r] \in a.buckets \/ r \in a.want
    PROVE  ExchangeInv'
<1>1. n # o /\ \A k \in Nodes : k = n \/ k = o
    BY TwoEnds
<1>2. Shape /\ Staged(n) /\ Staged(o) /\ at[n].held = log[n]
    BY DEF ExchangeInv, Staged, Comparing
<1>3. Stores' /\ carries' = carries
    BY <1>2 DEF Shape, Stores, world
<1>4. CASE a.buckets # {}
    <2> DEFINE b == [a EXCEPT !.pc = "bucket_ids"]
               body == [bucket |-> Min(a.buckets), ids |-> bucket_ids(a.held, Min(a.buckets))]
    <2>1. PICK c, m : c = b /\ m = Msg("bucket_ids", body)
        OBVIOUS
    <2>2. /\ c.pc = "bucket_ids" /\ c.held = a.held /\ c.buckets = a.buckets
          /\ c.want = a.want /\ c.outstanding = a.outstanding /\ DOMAIN c = Fields
        BY <2>1 DEF Fields
    <2>3. /\ m.t = "bucket_ids" /\ m.body.bucket = Min(a.buckets)
          /\ m.body.ids = bucket_ids(a.held, Min(a.buckets))
        BY <2>1 DEF Msg
    <2>4. Go(n, c, m)
        BY <1>4, <2>1 DEF AskNext
    <2>5. c.pc = nextPc(n, p)
        BY <1>4, <2>2 DEF nextPc
    <2>6. Ends' /\ at'[n] = c /\ at'[o] = at[o]
        BY <1>1, <1>2, <2>2, <2>4, Gone DEF Shape, Stages
    <2>7. says(o, m)'
        BY <1>2, <2>3 DEF says, bucket_ids
    <2>8. Staged(n)'
        BY <1>2, <2>2, <2>6 DEF Staged, Comparing, Coding, active
    <2>9. Staged(o)'
        BY <1>2, <2>6, StagedAside DEF active
    <2>10. suits(m, c.pc, c.buckets)
        BY <2>2, <2>3 DEF suits
    <2> HIDE DEF b, body
    <2> QED
        BY <1>3, <2>2, <2>4, <2>5, <2>7, <2>8, <2>9, <2>10, TurnStep DEF Stages
<1>5. CASE a.buckets = {}
    <2>1. PICK c, m : c = [a EXCEPT !.pc = "want"] /\ m = Msg("want", a.want)
        OBVIOUS
    <2>2. /\ c.pc = "want" /\ c.held = a.held /\ c.buckets = a.buckets
          /\ c.want = a.want /\ c.outstanding = a.outstanding /\ DOMAIN c = Fields
        BY <2>1 DEF Fields
    <2>3. m.t = "want" /\ m.body = a.want
        BY <2>1 DEF Msg
    <2>4. Go(n, c, m)
        BY <1>5, <2>1 DEF AskNext
    <2>5. c.pc = nextPc(n, p)
        BY <1>5, <2>2 DEF nextPc
    <2>6. Ends' /\ at'[n] = c /\ at'[o] = at[o]
        BY <1>1, <1>2, <1>5, <2>2, <2>4, Gone DEF Shape, Stages
    <2>7. says(o, m)'
        BY <1>2, <2>2, <2>3, <2>6 DEF says
    <2>8. Staged(n)'
        BY <1>2, <2>2, <2>6 DEF Staged, Comparing, Coding, active
    <2>9. Staged(o)'
        BY <1>2, <2>6, StagedAside DEF active
    <2>10. suits(m, c.pc, c.buckets)
        BY <2>2, <2>3 DEF suits
    <2> QED
        BY <1>3, <1>5, <2>2, <2>4, <2>5, <2>7, <2>8, <2>9, <2>10, TurnStep DEF Stages
<1> QED
    BY <1>4, <1>5

LEMMA OnInventoryStep ==
    ASSUME ExchangeInv, NEW n \in Nodes, NEW o \in Nodes, o = other(n), n = other(o),
           OnInventory(n)
    PROVE  ExchangeInv'
<1>1. Shape /\ InStep(n) /\ Staged(n) /\ Staged(o)
    BY DEF ExchangeInv
<1>2. PICK p, a : /\ p = first(n)
                  /\ a = [at[n] EXCEPT !.buckets = differing(inventory(at[n].held), Body(n))]
    OBVIOUS
<1>3. Got(n, "inventory") /\ AskNext(n, a)
      /\ UNCHANGED <<log, blobs, hints, pop, unjudged, drained, world>>
    BY <1>2 DEF OnInventory
<1>4. at[n].pc = "inventory" /\ active(n) /\ chan[n] # <<>> /\ Body(n) = p.body
    BY <1>1, <1>2, <1>3, Taken
<1>5. /\ DOMAIN a = Fields /\ a.held = at[n].held /\ a.want = at[n].want
      /\ a.outstanding = at[n].outstanding /\ a.buckets = nextBuckets(n, p)
    BY <1>1, <1>2, <1>4 DEF Shape, Ends, Fields, nextBuckets
<1>6. ASSUME active(o), NEW r \in log[o] \ log[n] PROVE Bucket[r] \in a.buckets
    <2>1. (level(n) \/ behind(n)) /\ says(n, p)
        BY <1>1, <1>2, <1>4, <1>6 DEF InStep, Paired
    <2>2. suits(p, "inventory", at[n].buckets)
        BY <1>1, <1>2, <1>3, Taken
    <2>3. at[o].pc \in {"inventory", "bucket_ids", "want"}
        BY <1>2, <1>4, <2>1 DEF level, behind, nextPc
    <2>4. at[o].held = log[o] /\ at[n].held = log[n]
        BY <1>1, <1>4, <2>3 DEF Staged, Comparing
    <2>5. p.body = inventory(log[o])
        BY <2>1, <2>2, <2>4 DEF says, suits
    <2>6. r \in Records
        BY <1>1, <1>6 DEF Shape, Stores
    <2>7. Bucket[r] \in differing(inventory(log[n]), inventory(log[o]))
        BY <1>6, <2>6 DEF differing, inventory, bucket_ids
    <2> QED
        BY <1>4, <1>5, <2>4, <2>5, <2>7 DEF nextBuckets
<1>7. a.outstanding \subseteq a.want
    BY <1>1, <1>4, <1>5 DEF Staged, Comparing
<1> QED
    BY <1>2, <1>3, <1>4, <1>5, <1>6, <1>7, AskStep

LEMMA OnBucketIdsStep ==
    ASSUME ExchangeInv, NEW n \in Nodes, NEW o \in Nodes, o = other(n), n = other(o),
           OnBucketIds(n)
    PROVE  ExchangeInv'
<1>1. Shape /\ InStep(n) /\ Staged(n) /\ Staged(o)
    BY DEF ExchangeInv
<1>2. PICK p, ask, a :
        /\ p = first(n) /\ ask = want_from(at[n], Body(n).ids)
        /\ a = [at[n] EXCEPT !.buckets = @ \ {Min(@)}, !.want = @ \cup ask,
                             !.outstanding = @ \cup ask]
    OBVIOUS
<1>3. Got(n, "bucket_ids")
    BY DEF OnBucketIds
<1>4. /\ at[n].pc = "bucket_ids" /\ active(n) /\ chan[n] # <<>> /\ Body(n) = p.body
      /\ suits(p, "bucket_ids", at[n].buckets)
    BY <1>1, <1>2, <1>3, Taken
<1>5. CASE Fail(n)
    BY <1>5, FailInv
<1>6. CASE AskNext(n, a) /\ UNCHANGED <<log, blobs, hints, pop, unjudged, drained, world>>
    <2>1. /\ DOMAIN a = Fields /\ a.held = at[n].held /\ a.want = at[n].want \cup ask
          /\ a.outstanding = at[n].outstanding \cup ask /\ a.buckets = nextBuckets(n, p)
        BY <1>1, <1>2, <1>4 DEF Shape, Ends, Fields, nextBuckets
    <2>2. a.outstanding \subseteq a.want
        BY <1>1, <1>4, <2>1 DEF Staged, Comparing
    <2>3. ASSUME active(o), NEW r \in log[o] \ log[n]
          PROVE  Bucket[r] \in a.buckets \/ r \in a.want
        <3>1. says(n, p)
            BY <1>1, <1>2, <1>4, <2>3 DEF InStep, Paired
        <3>2. p.body.ids = bucket_ids(log[o], Min(at[n].buckets))
            BY <1>4, <3>1 DEF says, suits
        <3>3. Bucket[r] \in at[n].buckets \/ r \in at[n].want
            BY <1>1, <1>4, <2>3 DEF Staged, Comparing
        <3>4. at[n].held = log[n] /\ at[n].outstanding \subseteq at[n].want
            BY <1>1, <1>4 DEF Staged, Comparing
        <3>5. CASE Bucket[r] = Min(at[n].buckets)
            <4>1. r \in p.body.ids
                BY <2>3, <3>2, <3>5 DEF bucket_ids
            <4>2. r \in ask \/ r \in at[n].outstanding
                BY <1>2, <1>4, <2>3, <3>4, <4>1 DEF want_from
            <4> QED
                BY <2>1, <3>4, <4>2
        <3>6. CASE Bucket[r] # Min(at[n].buckets)
            BY <1>4, <2>1, <3>3, <3>6 DEF nextBuckets
        <3> QED
            BY <3>5, <3>6
    <2> QED
        BY <1>2, <1>4, <1>6, <2>1, <2>2, <2>3, AskStep
<1> QED
    BY <1>2, <1>5, <1>6 DEF OnBucketIds

LEMMA OnWantStep ==
    ASSUME ExchangeInv, NEW n \in Nodes, NEW o \in Nodes, o = other(n), n = other(o),
           OnWant(n)
    PROVE  ExchangeInv'
<1>1. Shape /\ InStep(n) /\ Staged(n) /\ Staged(o)
    BY DEF ExchangeInv
<1>2. PICK p, a, m : /\ p = first(n) /\ a = [at[n] EXCEPT !.pc = "records"]
                     /\ m = Msg("records", Body(n) \cap at[n].held)
    OBVIOUS
<1>3. Got(n, "want")
    BY DEF OnWant
<1>4. /\ at[n].pc = "want" /\ active(n) /\ chan[n] # <<>> /\ Body(n) = p.body
      /\ suits(p, "want", at[n].buckets)
    BY <1>1, <1>2, <1>3, Taken
<1>5. CASE Fail(n)
    BY <1>5, FailInv
<1>6. CASE Go(n, a, m) /\ UNCHANGED <<log, blobs, hints, pop, unjudged, drained, world>>
    <2>1. n # o
        BY TwoEnds
    <2>2. /\ a.pc = "records" /\ a.held = at[n].held /\ a.want = at[n].want
          /\ a.buckets = at[n].buckets /\ a.outstanding = at[n].outstanding
          /\ DOMAIN a = Fields /\ a.buckets = {}
        BY <1>1, <1>2, <1>4 DEF Shape, Ends, Fields
    <2>3. m.t = "records" /\ m.body = p.body \cap log[n]
        BY <1>1, <1>2, <1>4 DEF Msg, Staged, Comparing
    <2>4. Stores' /\ carries' = carries
        BY <1>1, <1>6 DEF Shape, Stores, world
    <2>5. a.pc = nextPc(n, p) /\ a.buckets = nextBuckets(n, p) /\ a.pc \in Stages
        BY <1>4, <2>2 DEF nextPc, nextBuckets, Straight, Stages
    <2>6. Ends' /\ at'[n] = a /\ at'[o] = at[o]
        BY <1>1, <1>6, <2>1, <2>2, <2>5, Gone DEF Shape
    <2>7. ASSUME active(o) PROVE says(o, m)'
        <3>1. (level(n) \/ behind(n)) /\ says(n, p)
            BY <1>1, <1>2, <1>4, <2>7 DEF InStep, Paired
        <3>2. at[o].pc \in {"want", "records"}
            BY <1>2, <1>4, <2>2, <2>5, <3>1 DEF level, behind
        <3>3. p.body = at[o].want
            BY <1>4, <3>1 DEF says, suits
        <3>4. at[o].buckets = {}
            BY <1>1, <3>2 DEF Shape, Ends
        <3>5. log[n] \ log[o] \subseteq at[o].want
            BY <1>1, <1>4, <3>2, <3>4 DEF Staged, Comparing, active
        <3> QED
            BY <1>6, <2>3, <3>3, <3>5 DEF says
    <2>8. Staged(n)'
        BY <1>1, <1>4, <1>6, <2>2, <2>6 DEF Staged, Comparing, Coding, active
    <2>9. Staged(o)'
        BY <1>1, <1>4, <1>6, <2>6, StagedAside DEF active
    <2>10. suits(m, a.pc, a.buckets)
        BY <1>1, <2>2, <2>3 DEF suits, Shape, Stores
    <2> QED
        BY <1>2, <1>4, <1>6, <2>2, <2>4, <2>5, <2>7, <2>8, <2>9, <2>10, TurnStep
<1> QED
    BY <1>2, <1>5, <1>6 DEF OnWant

LEMMA OnRecordsStep ==
    ASSUME ExchangeInv, NEW n \in Nodes, NEW o \in Nodes, o = other(n), n = other(o),
           OnRecords(n)
    PROVE  ExchangeInv'
<1>1. Shape /\ InStep(n) /\ Staged(n) /\ Staged(o)
    BY DEF ExchangeInv
<1>2. PICK p, a, m :
        /\ p = first(n) /\ m = Msg("done", {})
        /\ a = [at[n] EXCEPT !.pc = "done", !.held = @ \cup Body(n),
                             !.outstanding = @ \ Body(n)]
    OBVIOUS
<1>3. Got(n, "records")
    BY DEF OnRecords
<1>4. /\ at[n].pc = "records" /\ active(n) /\ chan[n] # <<>> /\ Body(n) = p.body
      /\ suits(p, "records", at[n].buckets)
    BY <1>1, <1>2, <1>3, Taken
<1>5. CASE Fail(n)
    BY <1>5, FailInv
<1>6. CASE Go(n, a, m) /\ UNCHANGED <<log, blobs, hints, pop, unjudged, drained, world>>
    <2>1. n # o
        BY TwoEnds
    <2>2. /\ a.pc = "done" /\ a.held = log[n] \cup p.body /\ a.buckets = at[n].buckets
          /\ DOMAIN a = Fields /\ a.buckets = {}
        BY <1>1, <1>2, <1>4 DEF Shape, Ends, Fields, Staged, Comparing
    <2>3. m.t = "done"
        BY <1>2 DEF Msg
    <2>4. Stores' /\ carries' = carries
        BY <1>1, <1>6 DEF Shape, Stores, world
    <2>5. a.pc = nextPc(n, p) /\ a.buckets = nextBuckets(n, p) /\ a.pc \in Stages
        BY <1>4, <2>2 DEF nextPc, nextBuckets, Straight, Stages
    <2>6. Ends' /\ at'[n] = a /\ at'[o] = at[o]
        BY <1>1, <1>6, <2>1, <2>2, <2>5, Gone DEF Shape
    <2>7. says(o, m)'
        BY <2>3 DEF says
    <2>8. active(o) => /\ log[o] \ log[n] \subseteq p.body
                       /\ p.body \subseteq log[o]
        BY <1>1, <1>2, <1>4 DEF InStep, Paired, says, suits
    <2>9. Staged(n)'
        BY <1>1, <1>4, <1>6, <2>2, <2>6, <2>8
           DEF Staged, Comparing, Coding, active, suits, Shape, Stores
    <2>10. Staged(o)'
        BY <1>1, <1>4, <1>6, <2>6, StagedAside DEF active
    <2>11. suits(m, a.pc, a.buckets)
        BY <2>2, <2>3 DEF suits
    <2> QED
        BY <1>2, <1>4, <1>6, <2>2, <2>4, <2>5, <2>7, <2>9, <2>10, <2>11, TurnStep
<1> QED
    BY <1>2, <1>5, <1>6 DEF OnRecords

LEMMA OnDoneStep ==
    ASSUME ExchangeInv, NEW n \in Nodes, NEW o \in Nodes, o = other(n), n = other(o),
           OnDone(n)
    PROVE  ExchangeInv'
<1>1. Shape /\ InStep(n) /\ Staged(n) /\ Staged(o)
    BY DEF ExchangeInv
<1>2. PICK p, needs, a, m :
        /\ p = first(n) /\ needs = needed_code(n, at[n].held)
        /\ a = [at[n] EXCEPT !.pc = "code_want", !.needs = needs]
        /\ m = Msg("code_want", needs)
    OBVIOUS
<1>3. /\ Got(n, "done") /\ Go(n, a, m)
      /\ UNCHANGED <<log, blobs, hints, pop, unjudged, drained, world>>
    BY <1>2 DEF OnDone
<1>4. at[n].pc = "done" /\ active(n) /\ chan[n] # <<>>
    BY <1>1, <1>3, Taken
<1>5. n # o
    BY TwoEnds
<1>6. /\ a.pc = "code_want" /\ a.held = at[n].held /\ a.buckets = at[n].buckets
      /\ a.needs = needs /\ DOMAIN a = Fields /\ a.buckets = {}
    BY <1>1, <1>2, <1>4 DEF Shape, Ends, Fields
<1>7. m.t = "code_want" /\ m.body = needs
    BY <1>2 DEF Msg
<1>8. Stores' /\ carries' = carries
    BY <1>1, <1>3 DEF Shape, Stores, world
<1>9. a.pc = nextPc(n, p) /\ a.buckets = nextBuckets(n, p) /\ a.pc \in Stages
    BY <1>4, <1>6 DEF nextPc, nextBuckets, Straight, Stages
<1>10. Ends' /\ at'[n] = a /\ at'[o] = at[o]
    BY <1>1, <1>3, <1>5, <1>6, <1>9, Gone DEF Shape
<1>11. says(o, m)'
    BY <1>6, <1>7, <1>10 DEF says
<1>12. Staged(n)'
    <2>1. log[n] \subseteq Records /\ at[n].held \subseteq Records
        BY <1>1, <1>4 DEF Staged, Coding, Shape, Stores
    <2>2. needs \subseteq Blobs
        BY <1>2, <2>1, ExchangeAssumption DEF needed_code
    <2> QED
        BY <1>1, <1>3, <1>4, <1>6, <1>10, <2>2 DEF Staged, Comparing, Coding, active
<1>13. Staged(o)'
    BY <1>1, <1>3, <1>4, <1>10, StagedAside DEF active
<1>14. suits(m, a.pc, a.buckets)
    BY <1>6, <1>7 DEF suits
<1>15. /\ p = first(n) /\ Go(n, a, m) /\ a.pc = "code_want"
       /\ hints'[o] = hints[o] /\ pop'[o] = pop[o] /\ log'[o] = log[o] /\ log'[n] = log[n]
    BY <1>2, <1>3, <1>6
<1>16. DOMAIN a = Fields /\ a.buckets = {}
    BY <1>6
<1> QED
    BY <1>4, <1>8, <1>9, <1>11, <1>12, <1>13, <1>14, <1>15, <1>16, TurnStep

\* A turn of the later rounds, which leave the records alone.
LEMMA LateStep ==
    ASSUME ExchangeInv, NEW n \in Nodes, NEW o \in Nodes, o = other(n), n = other(o),
           NEW p, NEW t, NEW a, NEW m, Go(n, a, m), NEW W,
           active(n), chan[n] # <<>>, p = first(n),
           a = [at[n] EXCEPT !.pc = t] \/ a = [at[n] EXCEPT !.pc = t, !.want = W],
           t \in Stages \ ({"idle"} \cup Comparing \cup Coding),
           at[n].pc \notin Comparing \cup Coding,
           t = nextPc(n, p), t = "pop_digest" => n \in carries, m.t = t,
           carries' = carries, hints'[o] = hints[o], pop'[o] = pop[o], log' = log,
           at[n].pc = "peers_digest" => hints'[n] = hints[n],
           at[n].pc = "pop_digest" => pop'[n] = pop[n],
           t = "peers_digest" => m.body = hint_ids(hints'[n]),
           t = "pop_digest" => m.body = pop'[n],
           Stores'
    PROVE  ExchangeInv'
<1>1. Shape /\ InStep(n) /\ Staged(n) /\ Staged(o)
    BY DEF ExchangeInv
<1>2. n # o
    BY TwoEnds
<1>3. a.pc = t /\ a.buckets = at[n].buckets /\ DOMAIN a = Fields
    BY <1>1 DEF Shape, Ends, Fields
<1>4. at[n].buckets = {} /\ at[n].pc \notin {"inventory", "bucket_ids", "want", "code_want"}
    BY <1>1 DEF Shape, Ends, Comparing, Coding
<1>5. a.buckets = nextBuckets(n, p)
    BY <1>3, <1>4 DEF nextBuckets
<1>6. Ends' /\ at'[n] = a /\ at'[o] = at[o]
    BY <1>1, <1>2, <1>3, <1>4, Gone DEF Shape
<1>7. says(o, m)'
    BY DEF says, Comparing, Coding
<1>8. Staged(n)'
    BY <1>3, <1>6 DEF Staged, Comparing, Coding
<1>9. Staged(o)'
    BY <1>1, <1>6, StagedAside DEF active
<1>10. suits(m, a.pc, a.buckets)
    BY <1>3 DEF suits, Comparing
<1>11. /\ a.pc \in Stages /\ a.pc # "idle" /\ a.buckets = {}
       /\ a.pc = nextPc(n, p) /\ (a.pc = "pop_digest" => n \in carries)
       /\ log'[n] = log[n] /\ log'[o] = log[o]
    BY <1>3, <1>4
<1> QED
    BY <1>4, <1>5, <1>3, <1>7, <1>8, <1>9, <1>10, <1>11, TurnStep

LEMMA OnDhtStep ==
    ASSUME ExchangeInv, NEW n \in Nodes, NEW o \in Nodes, o = other(n), n = other(o),
           OnDht(n)
    PROVE  ExchangeInv'
<1>1. Shape /\ InStep(n)
    BY DEF ExchangeInv
<1>2. PICK p, pinned, a, m :
        /\ p = first(n) /\ pinned = pin_hints_from_log(n)
        /\ a = [at[n] EXCEPT !.pc = "peers_digest"]
        /\ m = Msg("peers_digest", hint_ids(pinned))
    OBVIOUS
<1>3. /\ Got(n, "dht") /\ Go(n, a, m) /\ hints' = [hints EXCEPT ![n] = pinned]
      /\ UNCHANGED <<log, blobs, pop, unjudged, world>>
    BY <1>2 DEF OnDht
<1>4. at[n].pc = "dht" /\ active(n) /\ chan[n] # <<>>
    BY <1>1, <1>3, Taken
<1>5. n # o
    BY TwoEnds
<1>6. hints'[n] = pinned /\ hints'[o] = hints[o] /\ Stores' /\ carries' = carries
    BY <1>1, <1>3, <1>5 DEF Shape, Stores, world
<1>7. m.t = "peers_digest" /\ m.body = hint_ids(pinned)
    BY <1>2 DEF Msg
<1>8. /\ "peers_digest" \in Stages \ ({"idle"} \cup Comparing \cup Coding)
      /\ at[n].pc \notin Comparing \cup Coding
    BY <1>4 DEF Stages, Comparing, Coding
<1>9. nextPc(n, p) = "peers_digest"
    BY <1>4 DEF nextPc, Straight
<1> QED
    BY <1>2, <1>3, <1>4, <1>6, <1>7, <1>8, <1>9, LateStep

LEMMA NextPopStep ==
    ASSUME ExchangeInv, NEW n \in Nodes, NEW o \in Nodes, o = other(n), n = other(o),
           NextPop(n), active(n), chan[n] # <<>>,
           at[n].pc \in {"peers_digest", "peers_records"},
           nextPc(n, first(n)) = "pop_digest",
           hints'[o] = hints[o], at[n].pc = "peers_digest" => hints'[n] = hints[n],
           log' = log, pop' = pop, carries' = carries, Stores'
    PROVE  ExchangeInv'
<1>1. CASE n \in carries
    <2>1. PICK p, a, m : /\ p = first(n) /\ a = [at[n] EXCEPT !.pc = "pop_digest"]
                         /\ m = Msg("pop_digest", pop[n])
        OBVIOUS
    <2>2. Go(n, a, m)
        BY <1>1, <2>1 DEF NextPop
    <2>3. m.t = "pop_digest" /\ m.body = pop[n]
        BY <2>1 DEF Msg
    <2>4. /\ "pop_digest" \in Stages \ ({"idle"} \cup Comparing \cup Coding)
          /\ at[n].pc \notin Comparing \cup Coding
        BY DEF Stages, Comparing, Coding
    <2> QED
        BY <1>1, <2>1, <2>2, <2>3, <2>4, LateStep
<1>2. CASE n \notin carries
    <2>1. Finish(n) /\ quits(n, nextPc(n, first(n)))
        BY <1>2 DEF NextPop, quits
    <2> QED
        BY <2>1, FinishStep
<1> QED
    BY <1>1, <1>2

LEMMA OnPeersDigestStep ==
    ASSUME ExchangeInv, NEW n \in Nodes, NEW o \in Nodes, o = other(n), n = other(o),
           OnPeersDigest(n)
    PROVE  ExchangeInv'
<1>1. Shape /\ InStep(n)
    BY DEF ExchangeInv
<1>2. /\ Got(n, "peers_digest")
      /\ UNCHANGED <<log, blobs, hints, pop, unjudged, drained, world>>
    BY DEF OnPeersDigest
<1>3. /\ at[n].pc = "peers_digest" /\ active(n) /\ chan[n] # <<>>
      /\ Body(n) = first(n).body
    BY <1>1, <1>2, Taken
<1>4. Stores' /\ carries' = carries
    BY <1>1, <1>2 DEF Shape, Stores, world
<1>5. CASE Body(n) = hint_ids(hints[n])
    <2>1. NextPop(n)
        BY <1>5 DEF OnPeersDigest
    <2>2. nextPc(n, first(n)) = "pop_digest"
        BY <1>3, <1>5 DEF nextPc
    <2> QED
        BY <1>2, <1>3, <1>4, <2>1, <2>2, NextPopStep
<1>6. CASE Body(n) # hint_ids(hints[n])
    <2>1. PICK p, want, a, m :
            /\ p = first(n) /\ want = Body(n) \ hint_ids(hints[n])
            /\ a = [at[n] EXCEPT !.pc = "peers_want", !.want = want]
            /\ m = Msg("peers_want", want)
        OBVIOUS
    <2>2. Go(n, a, m)
        BY <1>6, <2>1 DEF OnPeersDigest
    <2>3. m.t = "peers_want"
        BY <2>1 DEF Msg
    <2>4. nextPc(n, p) = "peers_want"
        BY <1>3, <1>6, <2>1 DEF nextPc
    <2>5. /\ "peers_want" \in Stages \ ({"idle"} \cup Comparing \cup Coding)
          /\ at[n].pc \notin Comparing \cup Coding
        BY <1>3 DEF Stages, Comparing, Coding
    <2> QED
        BY <1>2, <1>3, <1>4, <2>1, <2>2, <2>3, <2>4, <2>5, LateStep
<1> QED
    BY <1>5, <1>6

LEMMA OnPeersWantStep ==
    ASSUME ExchangeInv, NEW n \in Nodes, NEW o \in Nodes, o = other(n), n = other(o),
           OnPeersWant(n)
    PROVE  ExchangeInv'
<1>1. Shape /\ InStep(n)
    BY DEF ExchangeInv
<1>2. PICK p, a, m :
        /\ p = first(n) /\ a = [at[n] EXCEPT !.pc = "peers_records"]
        /\ m = Msg("peers_records", serve_hints(hints[n], Body(n)))
    OBVIOUS
<1>3. /\ Got(n, "peers_want") /\ Go(n, a, m)
      /\ UNCHANGED <<log, blobs, hints, pop, unjudged, drained, world>>
    BY <1>2 DEF OnPeersWant
<1>4. at[n].pc = "peers_want" /\ active(n) /\ chan[n] # <<>>
    BY <1>1, <1>3, Taken
<1>5. Stores' /\ carries' = carries
    BY <1>1, <1>3 DEF Shape, Stores, world
<1>6. m.t = "peers_records"
    BY <1>2 DEF Msg
<1>7. nextPc(n, p) = "peers_records"
    BY <1>4 DEF nextPc, Straight
<1>8. /\ "peers_records" \in Stages \ ({"idle"} \cup Comparing \cup Coding)
      /\ at[n].pc \notin Comparing \cup Coding
    BY <1>4 DEF Stages, Comparing, Coding
<1> QED
    BY <1>2, <1>3, <1>4, <1>5, <1>6, <1>7, <1>8, LateStep

LEMMA OnPeersRecordsStep ==
    ASSUME ExchangeInv, NEW n \in Nodes, NEW o \in Nodes, o = other(n), n = other(o),
           OnPeersRecords(n)
    PROVE  ExchangeInv'
<1>1. Shape /\ InStep(n)
    BY DEF ExchangeInv
<1>2. PICK H : H = admit_all(hints[n], Body(n) \cap at[n].want, FALSE)
    OBVIOUS
<1>3. /\ Got(n, "peers_records") /\ NextPop(n)
      /\ UNCHANGED <<log, blobs, pop, unjudged, world>>
    BY DEF OnPeersRecords
<1>4. hints' = [hints EXCEPT ![n] = H]
    BY <1>2 DEF OnPeersRecords
<1>5. at[n].pc = "peers_records" /\ active(n) /\ chan[n] # <<>>
    BY <1>1, <1>3, Taken
<1>6. n # o
    BY TwoEnds
<1>7. Stores' /\ carries' = carries /\ hints'[o] = hints[o]
    BY <1>1, <1>3, <1>4, <1>6 DEF Shape, Stores, world
<1>8. nextPc(n, first(n)) = "pop_digest"
    BY <1>5 DEF nextPc, Straight
<1> QED
    BY <1>3, <1>5, <1>7, <1>8, NextPopStep

LEMMA OnPopDigestStep ==
    ASSUME ExchangeInv, NEW n \in Nodes, NEW o \in Nodes, o = other(n), n = other(o),
           OnPopDigest(n)
    PROVE  ExchangeInv'
<1>1. Shape /\ InStep(n)
    BY DEF ExchangeInv
<1>2. /\ Got(n, "pop_digest")
      /\ UNCHANGED <<log, blobs, hints, pop, unjudged, drained, world>>
    BY DEF OnPopDigest
<1>3. /\ at[n].pc = "pop_digest" /\ active(n) /\ chan[n] # <<>>
      /\ Body(n) = first(n).body
    BY <1>1, <1>2, Taken
<1>4. Stores' /\ carries' = carries
    BY <1>1, <1>2 DEF Shape, Stores, world
<1>5. CASE Body(n) = pop[n]
    <2>1. Finish(n)
        BY <1>5 DEF OnPopDigest
    <2>2. quits(n, nextPc(n, first(n)))
        BY <1>3, <1>5 DEF nextPc, quits
    <2> QED
        BY <1>2, <1>3, <1>4, <2>1, <2>2, FinishStep
<1>6. CASE Body(n) # pop[n]
    <2>1. PICK p, want, a, m :
            /\ p = first(n) /\ want = Body(n) \ pop[n]
            /\ a = [at[n] EXCEPT !.pc = "pop_want", !.want = want]
            /\ m = Msg("pop_want", want)
        OBVIOUS
    <2>2. Go(n, a, m)
        BY <1>6, <2>1 DEF OnPopDigest
    <2>3. m.t = "pop_want"
        BY <2>1 DEF Msg
    <2>4. nextPc(n, p) = "pop_want"
        BY <1>3, <1>6, <2>1 DEF nextPc
    <2>5. /\ "pop_want" \in Stages \ ({"idle"} \cup Comparing \cup Coding)
          /\ at[n].pc \notin Comparing \cup Coding
        BY <1>3 DEF Stages, Comparing, Coding
    <2> QED
        BY <1>2, <1>3, <1>4, <2>1, <2>2, <2>3, <2>4, <2>5, LateStep
<1> QED
    BY <1>5, <1>6

LEMMA OnPopWantStep ==
    ASSUME ExchangeInv, NEW n \in Nodes, NEW o \in Nodes, o = other(n), n = other(o),
           OnPopWant(n)
    PROVE  ExchangeInv'
<1>1. Shape /\ InStep(n)
    BY DEF ExchangeInv
<1>2. PICK p, a, m :
        /\ p = first(n) /\ a = [at[n] EXCEPT !.pc = "pop_records"]
        /\ m = Msg("pop_records", Body(n) \cap pop[n])
    OBVIOUS
<1>3. /\ Got(n, "pop_want") /\ Go(n, a, m)
      /\ UNCHANGED <<log, blobs, hints, pop, unjudged, drained, world>>
    BY <1>2 DEF OnPopWant
<1>4. at[n].pc = "pop_want" /\ active(n) /\ chan[n] # <<>>
    BY <1>1, <1>3, Taken
<1>5. Stores' /\ carries' = carries
    BY <1>1, <1>3 DEF Shape, Stores, world
<1>6. m.t = "pop_records"
    BY <1>2 DEF Msg
<1>7. nextPc(n, p) = "pop_records"
    BY <1>4 DEF nextPc, Straight
<1>8. /\ "pop_records" \in Stages \ ({"idle"} \cup Comparing \cup Coding)
      /\ at[n].pc \notin Comparing \cup Coding
    BY <1>4 DEF Stages, Comparing, Coding
<1> QED
    BY <1>2, <1>3, <1>4, <1>5, <1>6, <1>7, <1>8, LateStep

LEMMA OnPopRecordsStep ==
    ASSUME ExchangeInv, NEW n \in Nodes, NEW o \in Nodes, o = other(n), n = other(o),
           OnPopRecords(n)
    PROVE  ExchangeInv'
<1>1. Shape /\ InStep(n)
    BY DEF ExchangeInv
<1>2. PICK P : P = ingest_candidates(n, Body(n))
    OBVIOUS
<1>3. /\ Got(n, "pop_records") /\ Finish(n) /\ pop' = [pop EXCEPT ![n] = P]
      /\ UNCHANGED <<log, blobs, hints, unjudged, world>>
    BY <1>2 DEF OnPopRecords
<1>4. at[n].pc = "pop_records" /\ active(n) /\ chan[n] # <<>>
    BY <1>1, <1>3, Taken
<1>5. n # o
    BY TwoEnds
<1>6. Stores' /\ carries' = carries /\ pop'[o] = pop[o]
    BY <1>1, <1>3, <1>5 DEF Shape, Stores, world
<1>7. quits(n, nextPc(n, first(n)))
    BY <1>4 DEF nextPc, Straight, quits
<1> QED
    BY <1>3, <1>4, <1>6, <1>7, FinishStep
-----------------------------------------------------------------------------
(* The code round, at whose end the records enter the log.                   *)

\* What applied does to the logs.
LEMMA AppliedLog ==
    ASSUME NEW n \in Nodes, NEW o \in Nodes, n # o, Stores,
           NEW held \in SUBSET Records, NEW code, applied(n, held, code)
    PROVE  /\ log'[o] = log[o]
           /\ log[n] \subseteq log'[n] /\ log'[n] \subseteq log[n] \cup held
           /\ log' \in [Nodes -> SUBSET Records] /\ DOMAIN unjudged' = Nodes
<1>1. PICK taken \in SUBSET replayable(n, held) :
        log' = [log EXCEPT ![n] = @ \cup taken]
    BY DEF applied
<1>2. taken \subseteq held
    BY <1>1 DEF replayable
<1>3. DOMAIN unjudged' = Nodes
    BY DEF applied, Stores
<1>4. log'[n] = log[n] \cup taken /\ \A k \in Nodes : k # n => log'[k] = log[k]
    BY <1>1 DEF Stores
<1> QED
    BY <1>1, <1>2, <1>3, <1>4 DEF Stores

\* The end that applies first takes nothing that the other does not hold.
LEMMA AppliedStaged ==
    ASSUME ExchangeInv, NEW n \in Nodes, NEW o \in Nodes, o = other(n), n = other(o),
           active(n), chan[n] # <<>>, at[n].pc \in {"code_want", "code_blobs"},
           at'[o] = at[o], log'[o] = log[o],
           log[n] \subseteq log'[n], log'[n] \subseteq log[n] \cup at[n].held
    PROVE  Staged(o)'
<1>1. InStep(n) /\ Staged(n) /\ Staged(o)
    BY DEF ExchangeInv
<1>2. CASE ~active(o)
    BY <1>2 DEF Staged, active, Comparing, Coding
<1>3. CASE active(o)
    <2>1. level(n) \/ behind(n)
        BY <1>1, <1>3 DEF InStep, Paired
    <2>2. at[o].pc \in {"code_want", "code_blobs", "dht"}
        BY <2>1 DEF level, behind, nextPc, Straight
    <2>3. log'[n] \subseteq log[n] \cup log[o]
        BY <1>1, <1>3 DEF Staged, Coding
    <2> QED
        BY <1>1, <2>2, <2>3 DEF Staged, Comparing, Coding, active
<1> QED
    BY <1>2, <1>3

\* The turn that ends the code round.
LEMMA ApplyStep ==
    ASSUME ExchangeInv, NEW n \in Nodes, NEW o \in Nodes, o = other(n), n = other(o),
           NEW p, NEW code, p = first(n), active(n), chan[n] # <<>>,
           at[n].pc \in {"code_want", "code_blobs"}, nextPc(n, p) = "dht",
           applied(n, at[n].held, code), blobs' \in [Nodes -> SUBSET Blobs],
           Go(n, [at[n] EXCEPT !.pc = "dht"], Msg("dht", {})),
           UNCHANGED <<hints, pop, world>>
    PROVE  ExchangeInv'
<1>1. Shape /\ InStep(n) /\ Staged(n) /\ Staged(o)
    BY DEF ExchangeInv
<1>2. PICK a, m, held : /\ a = [at[n] EXCEPT !.pc = "dht"] /\ m = Msg("dht", {})
                        /\ held = at[n].held
    OBVIOUS
<1>3. n # o
    BY TwoEnds
<1>4. held \in SUBSET Records
    BY <1>1, <1>2 DEF Staged, Coding
<1>5. applied(n, held, code)
    BY <1>2
<1>6. /\ log'[o] = log[o]
      /\ log[n] \subseteq log'[n] /\ log'[n] \subseteq log[n] \cup held
      /\ log' \in [Nodes -> SUBSET Records] /\ DOMAIN unjudged' = Nodes
    BY <1>1, <1>3, <1>4, <1>5, AppliedLog DEF Shape
<1>7. Stores' /\ carries' = carries
    BY <1>1, <1>6 DEF Shape, Stores, world
<1>8. /\ a.pc = "dht" /\ a.buckets = at[n].buckets /\ a.needs = at[n].needs
      /\ DOMAIN a = Fields /\ a.buckets = {} /\ a.pc \in Stages
    BY <1>1, <1>2 DEF Shape, Ends, Fields, Stages
<1>9. a.buckets = nextBuckets(n, p)
    BY <1>8 DEF nextBuckets
<1>10. Go(n, a, m)
    BY <1>2
<1>11. Ends' /\ at'[n] = a /\ at'[o] = at[o]
    BY <1>1, <1>3, <1>8, <1>10, Gone DEF Shape
<1>12. Staged(n)'
    BY <1>8, <1>11 DEF Staged, Comparing, Coding
<1>13. Staged(o)'
    BY <1>2, <1>6, <1>11, AppliedStaged
<1>14. m.t = "dht"
    BY <1>2 DEF Msg
<1>15. says(o, m)' /\ suits(m, a.pc, a.buckets)
    BY <1>8, <1>14 DEF says, suits
<1> QED
    BY <1>6, <1>7, <1>8, <1>9, <1>10, <1>12, <1>13, <1>15, TurnStep

LEMMA OnCodeWantStep ==
    ASSUME ExchangeInv, NEW n \in Nodes, NEW o \in Nodes, o = other(n), n = other(o),
           OnCodeWant(n)
    PROVE  ExchangeInv'
<1>1. Shape /\ InStep(n) /\ Staged(n) /\ Staged(o)
    BY DEF ExchangeInv
<1>2. Got(n, "code_want") /\ UNCHANGED <<blobs, hints, pop, world>>
    BY DEF OnCodeWant
<1>3. PICK p, a, m, code :
        /\ p = first(n) /\ a = [at[n] EXCEPT !.pc = "code_blobs"] /\ code = blobs[n]
        /\ m = Msg("code_blobs", served(blobs[n] \cap Body(n)))
    OBVIOUS
<1>4. at[n].pc = "code_want" /\ active(n) /\ chan[n] # <<>> /\ Body(n) = p.body
    BY <1>1, <1>2, <1>3, Taken
<1>5. CASE at[n].needs = {} /\ Body(n) = {}
    <2>1. /\ applied(n, at[n].held, code)
          /\ Go(n, [at[n] EXCEPT !.pc = "dht"], Msg("dht", {}))
        BY <1>3, <1>5 DEF OnCodeWant
    <2>2. nextPc(n, p) = "dht"
        BY <1>4, <1>5 DEF nextPc
    <2>3. blobs' \in [Nodes -> SUBSET Blobs]
        BY <1>1, <1>2 DEF Shape, Stores
    <2> QED
        BY <1>2, <1>3, <1>4, <2>1, <2>2, <2>3, ApplyStep
<1>6. CASE ~(at[n].needs = {} /\ Body(n) = {})
    <2>1. Go(n, a, m) /\ UNCHANGED <<log, unjudged, drained>>
        BY <1>3, <1>6 DEF OnCodeWant
    <2>2. n # o
        BY TwoEnds
    <2>3. /\ a.pc = "code_blobs" /\ a.buckets = at[n].buckets /\ a.needs = at[n].needs
          /\ a.held = at[n].held /\ DOMAIN a = Fields /\ a.buckets = {} /\ a.pc \in Stages
        BY <1>1, <1>3, <1>4 DEF Shape, Ends, Fields, Stages
    <2>4. a.pc = nextPc(n, p) /\ a.buckets = nextBuckets(n, p)
        BY <1>4, <1>6, <2>3 DEF nextPc, nextBuckets
    <2>5. Stores' /\ carries' = carries
        BY <1>1, <1>2, <2>1 DEF Shape, Stores, world
    <2>6. Ends' /\ at'[n] = a /\ at'[o] = at[o]
        BY <1>1, <2>1, <2>2, <2>3, Gone DEF Shape
    <2>7. m.t = "code_blobs"
        BY <1>3 DEF Msg
    <2>8. says(o, m)' /\ suits(m, a.pc, a.buckets)
        BY <2>3, <2>7 DEF says, suits
    <2>9. Staged(n)'
        BY <1>1, <1>4, <2>1, <2>3, <2>6 DEF Staged, Comparing, Coding, active
    <2>10. Staged(o)'
        BY <1>1, <1>4, <2>1, <2>6, StagedAside DEF active
    <2> QED
        BY <1>2, <1>3, <1>4, <2>1, <2>3, <2>4, <2>5, <2>8, <2>9, <2>10, TurnStep
<1> QED
    BY <1>5, <1>6

LEMMA OnCodeBlobsStep ==
    ASSUME ExchangeInv, NEW n \in Nodes, NEW o \in Nodes, o = other(n), n = other(o),
           OnCodeBlobs(n)
    PROVE  ExchangeInv'
<1>1. Shape /\ InStep(n)
    BY DEF ExchangeInv
<1>2. PICK p, code : p = first(n) /\ code = blobs[n] \cup (Body(n) \cap at[n].needs)
    OBVIOUS
<1>3. /\ Got(n, "code_blobs") /\ UNCHANGED <<hints, pop, world>>
      /\ blobs' = [blobs EXCEPT ![n] = code] /\ applied(n, at[n].held, code)
      /\ Go(n, [at[n] EXCEPT !.pc = "dht"], Msg("dht", {}))
    BY <1>2 DEF OnCodeBlobs
<1>4. at[n].pc = "code_blobs" /\ active(n) /\ chan[n] # <<>>
    BY <1>1, <1>3, Taken
<1>5. nextPc(n, p) = "dht"
    BY <1>4 DEF nextPc, Straight
<1>6. at[n].needs \subseteq Blobs
    BY <1>4 DEF ExchangeInv, Staged, Coding
<1>7. blobs' \in [Nodes -> SUBSET Blobs]
    BY <1>1, <1>2, <1>3, <1>6 DEF Shape, Stores
<1> QED
    BY <1>2, <1>3, <1>4, <1>5, <1>7, ApplyStep

LEMMA AbortStep ==
    ASSUME ExchangeInv, NEW n \in Nodes, NEW o \in Nodes, o = other(n), n = other(o),
           Abort(n)
    PROVE  ExchangeInv'
<1>1. Shape /\ Staged(n)
    BY DEF ExchangeInv
<1>2. n # o
    BY TwoEnds
<1>3. Drop(n) /\ UNCHANGED <<blobs, hints, pop, world>>
    BY DEF Abort
<1>4. CASE at[n].pc \in {"code_want", "code_blobs"}
    <2>1. PICK held, code : held = at[n].held /\ code = blobs[n]
        OBVIOUS
    <2>2. applied(n, held, code) /\ held \in SUBSET Records
        BY <1>1, <1>4, <2>1 DEF Abort, Staged, Coding
    <2>3. /\ log'[o] = log[o] /\ DOMAIN unjudged' = Nodes
          /\ log' \in [Nodes -> SUBSET Records]
        BY <1>1, <1>2, <2>2, AppliedLog DEF Shape
    <2>4. Stores'
        BY <1>1, <1>3, <2>3 DEF Shape, Stores
    <2> QED
        BY <1>3, <2>3, <2>4, DropInv
<1>5. CASE at[n].pc \notin {"code_want", "code_blobs"}
    <2>1. UNCHANGED <<log, unjudged, drained>>
        BY <1>5 DEF Abort
    <2>2. Stores'
        BY <1>1, <1>3, <2>1 DEF Shape, Stores
    <2> QED
        BY <1>3, <2>1, <2>2, DropInv
<1> QED
    BY <1>4, <1>5
-----------------------------------------------------------------------------
(* Sessions that begin, and the world around them.                           *)

LEMMA OpenStep ==
    ASSUME ExchangeInv, Open
    PROVE  ExchangeInv'
<1>1. /\ Shape /\ link' = "up"
      /\ at' = [n \in Nodes |-> [Idle EXCEPT !.pc = "inventory", !.held = log[n]]]
      /\ chan' = [n \in Nodes |-> <<Msg("inventory", inventory(log[other(n)]))>>]
      /\ UNCHANGED <<log, blobs, hints, pop, unjudged, drained, world>>
    BY DEF Open, ExchangeInv
<1>2. Stores' /\ carries' = carries
    BY <1>1 DEF Shape, Stores, world
<1>3. ASSUME NEW n \in Nodes
      PROVE  /\ DOMAIN at'[n] = Fields /\ at'[n].pc = "inventory"
             /\ at'[n].held = log[n] /\ at'[n].buckets = {}
             /\ at'[n].want = {} /\ at'[n].outstanding = {}
    BY <1>1, <1>3 DEF Idle, Fields
<1>4. Ends'
    BY <1>1, <1>3 DEF Ends, Stages
<1>5. ASSUME NEW n \in Nodes PROVE InStep(n)' /\ Staged(n)'
    <2>1. PICK o, m, v : /\ o = other(n) /\ m = Msg("inventory", inventory(log[o]))
                         /\ v = Msg("inventory", inventory(log[n]))
        OBVIOUS
    <2>2. o \in Nodes /\ n = other(o)
        BY <1>5, <2>1, TwoEnds
    <2>3. chan'[n] = <<m>> /\ chan'[o] = <<v>>
        BY <1>1, <1>5, <2>1, <2>2
    <2>4. /\ lone(n)' /\ ~two(n)' /\ chan'[n] # <<>> /\ first(n)' = m
          /\ lone(o)' /\ ~two(o)' /\ chan'[o] # <<>>
        BY <2>3, FormsNext
    <2>5. m.t = "inventory" /\ m.body = inventory(log[o])
        BY <2>1 DEF Msg
    <2>6. active(n)' /\ active(o)'
        BY <1>3, <1>5, <2>2 DEF active
    <2>7. Queued(n)'
        BY <1>3, <1>5, <2>4, <2>5 DEF Queued, suits
    <2>8. level(n)'
        BY <1>3, <1>5, <2>1, <2>2, <2>4 DEF level
    <2>9. says(n, m)'
        BY <1>3, <2>1, <2>2, <2>5 DEF says
    <2>10. Paired(n)'
        BY <2>4, <2>8, <2>9 DEF Paired
    <2>11. Served(n)'
        BY <2>1, <2>4, <2>6 DEF Served
    <2>12. Staged(n)'
        BY <1>1, <1>3, <1>5 DEF Staged, Comparing, Coding
    <2> QED
        BY <2>7, <2>10, <2>11, <2>12 DEF InStep
<1> QED
    BY <1>2, <1>4, <1>5 DEF ExchangeInv, Shape

LEMMA CutStep ==
    ASSUME ExchangeInv, Cut
    PROVE  ExchangeInv'
<1>1. /\ Shape /\ link' = "cut"
      /\ UNCHANGED <<carries, log, blobs, hints, pop, unjudged, chan, at>>
    BY DEF Cut, ExchangeInv
<1>2. Shape'
    BY <1>1 DEF Shape, Ends, Stores
<1>3. ASSUME NEW n \in Nodes PROVE InStep(n)' /\ Staged(n)'
    <2>1. PICK o : o = other(n)
        OBVIOUS
    <2>2. o \in Nodes /\ n = other(o)
        BY <1>3, <2>1, TwoEnds
    <2>3. InStep(n) /\ InStep(o) /\ Staged(n)
        BY <1>3, <2>2 DEF ExchangeInv
    <2>4. InStep(n)'
        BY <1>1, <1>3, <2>1, <2>2, <2>3, AsideStep
    <2>5. Staged(n)'
        BY <1>1, <2>3 DEF Staged, active
    <2> QED
        BY <2>4, <2>5
<1> QED
    BY <1>2, <1>3 DEF ExchangeInv

LEMMA SubmitStep ==
    ASSUME ExchangeInv, NEW n \in Nodes, NEW o \in Nodes, o = other(n), n = other(o),
           Submit(n)
    PROVE  ExchangeInv'
<1>1. /\ Shape /\ ~active(n)
      /\ UNCHANGED <<carries, hints, pop, link, chan, at>>
    BY DEF Submit, ExchangeInv, active
<1>2. n # o /\ \A k \in Nodes : k = n \/ k = o
    BY TwoEnds
<1>3. PICK r \in Clients[n] \ log[n] :
        /\ log' = [log EXCEPT ![n] = @ \cup {r}]
        /\ blobs' = [blobs EXCEPT ![n] = @ \cup
                {Checker[x] : x \in {r} \cap {y \in Records : Kind[y] = "objective"}}]
        /\ DOMAIN unjudged' = DOMAIN unjudged
    BY DEF Submit
<1>4. r \in Records
    BY <1>3, ExchangeAssumption
<1>5. log'[n] = log[n] \cup {r} /\ log'[o] = log[o]
    BY <1>1, <1>2, <1>3 DEF Shape, Stores
<1>6. log' \in [Nodes -> SUBSET Records]
    BY <1>1, <1>3, <1>4 DEF Shape, Stores
<1>7. blobs' \in [Nodes -> SUBSET Blobs]
    <2>1. {Checker[x] : x \in {r} \cap {y \in Records : Kind[y] = "objective"}}
            \subseteq Blobs
        BY ExchangeAssumption
    <2> QED
        BY <1>1, <1>3, <2>1 DEF Shape, Stores
<1>9. Shape'
    BY <1>1, <1>3, <1>6, <1>7 DEF Shape, Ends, Stores
<1>10. InStep(n) /\ InStep(o) /\ Staged(n) /\ Staged(o)
    BY DEF ExchangeInv
<1>11. InStep(n)' /\ InStep(o)'
    BY <1>1, <1>5, <1>10, AsideStep
<1>12. Staged(n)'
    BY <1>1 DEF Staged, active, Comparing, Coding
<1>13. Staged(o)'
    BY <1>1, <1>5, <1>10, StagedAside DEF active
<1> QED
    BY <1>2, <1>9, <1>11, <1>12, <1>13 DEF ExchangeInv

\* Steps that touch nothing a session looks at.
LEMMA ClockStep ==
    ASSUME ExchangeInv,
           UNCHANGED <<carries, log, blobs, hints, pop, unjudged, link, chan, at>>
    PROVE  ExchangeInv'
<1>1. Shape'
    BY DEF ExchangeInv, Shape, Ends, Stores
<1>2. ASSUME NEW n \in Nodes PROVE InStep(n)' /\ Staged(n)'
    <2>1. PICK o : o = other(n)
        OBVIOUS
    <2>2. o \in Nodes /\ n = other(o)
        BY <1>2, <2>1, TwoEnds
    <2>3. InStep(n) /\ InStep(o) /\ Staged(n)
        BY <1>2, <2>2 DEF ExchangeInv
    <2>4. InStep(n)'
        BY <1>2, <2>1, <2>2, <2>3, AsideStep
    <2>5. Staged(n)'
        BY <2>3 DEF Staged, active
    <2> QED
        BY <2>4, <2>5
<1> QED
    BY <1>1, <1>2 DEF ExchangeInv

LEMMA ExchangeInit ==
    ASSUME Init
    PROVE  ExchangeInv
<1>1. PICK w \in Worlds :
        log = w.log /\ blobs = w.blobs /\ pop = w.pop /\ hints = w.hints
    BY DEF Init
<1>2. Stores
    BY <1>1, RecordsAssumption DEF Stores, Init
<1>3. \A n \in Nodes : /\ DOMAIN at[n] = Fields /\ at[n].pc = "idle"
                       /\ at[n].buckets = {}
    BY DEF Init, Idle, Fields
<1>4. Ends
    BY <1>3 DEF Init, Ends, Stages
<1> QED
    BY <1>2, <1>3, <1>4 DEF ExchangeInv, Shape, InStep, Staged, active, Comparing, Coding

LEMMA ExchangeNext ==
    ASSUME ExchangeInv, [Next]_vars
    PROVE  ExchangeInv'
<1>1. CASE UNCHANGED vars
    BY <1>1, ClockStep DEF vars
<1>2. CASE Open
    BY <1>2, OpenStep
<1>3. CASE Cut
    BY <1>3, CutStep
<1>4. ASSUME NEW n \in Nodes, Step(n) \/ Submit(n) \/ Settle(n) \/ AdvanceEpoch(n)
      PROVE  ExchangeInv'
    <2>1. PICK o : o = other(n)
        OBVIOUS
    <2>2. o \in Nodes /\ n = other(o)
        BY <1>4, <2>1, TwoEnds
    <2>3. CASE Step(n)
        BY <1>4, <2>1, <2>2, <2>3, OnInventoryStep, OnBucketIdsStep, OnWantStep,
           OnRecordsStep, OnDoneStep, OnCodeWantStep, OnCodeBlobsStep, OnDhtStep,
           OnPeersDigestStep, OnPeersWantStep, OnPeersRecordsStep, OnPopDigestStep,
           OnPopWantStep, OnPopRecordsStep, AbortStep DEF Step
    <2>4. CASE Submit(n)
        BY <1>4, <2>1, <2>2, <2>4, SubmitStep
    <2>5. CASE Settle(n) \/ AdvanceEpoch(n)
        BY <2>5, ClockStep DEF Settle, AdvanceEpoch
    <2> QED
        BY <1>4, <2>3, <2>4, <2>5
<1> QED
    BY <1>1, <1>2, <1>3, <1>4 DEF Next

\* The invariant of a session holds in every reachable state.
THEOREM ExchangeInvariant == Spec => []ExchangeInv
<1>1. Init => ExchangeInv
    BY ExchangeInit
<1>2. ExchangeInv /\ [Next]_vars => ExchangeInv'
    BY ExchangeNext
<1> QED
    BY <1>1, <1>2, PTL DEF Spec

\* The two ends take every early-out together, whatever they hold and however
\* the connection fails (session.rs reconcile, reconcile_code,
\* exchange_peer_hints, reconcile_population).
THEOREM SidesInStep == Spec => []SidesStayInStep
<1>1. ExchangeInv => SidesStayInStep
    <2>1. SUFFICES ASSUME ExchangeInv, NEW n \in Nodes, active(n)
          PROVE  IF chan[n] # <<>>
                 THEN /\ Head(chan[n]).t = at[n].pc
                      /\ at[n].pc = "bucket_ids" => Body(n).bucket = Min(at[n].buckets)
                 ELSE \/ link = "cut"
                      \/ at[other(n)].pc # "idle" /\ chan[other(n)] # <<>>
                      \/ at[n].pc = "pop_digest" /\ other(n) \notin carries
        BY DEF SidesStayInStep, active
    <2>2. Queued(n) /\ Served(n) /\ link \in {"up", "cut"}
        BY <2>1 DEF ExchangeInv, InStep, Shape, Ends
    <2>3. ASSUME chan[n] # <<>> PROVE Head(chan[n]) = first(n)
        <3>1. CASE lone(n)
            BY <3>1, Queue DEF lone
        <3>2. CASE two(n)
            BY <3>2, Queue DEF two
        <3> QED
            BY <2>2, <2>3, <3>1, <3>2 DEF Queued
    <2> QED
        BY <2>2, <2>3 DEF Queued, Served, suits, Body, active
<1> QED
    BY <1>1, ExchangeInvariant, PTL
\* Past the comparison of buckets and until the records are applied, the staging
\* peer holds everything the other end's log holds, whatever the ids, buckets and
\* limits (session.rs reconcile, sync.rs Peer::ingest).
THEOREM WholeLogStaged == Spec => []LogsAreStaged
<1>1. ExchangeInv => LogsAreStaged
    BY DEF ExchangeInv, LogsAreStaged, Staged, Coding, active
<1> QED
    BY <1>1, ExchangeInvariant, PTL

\* A turn moves the node that takes it, and no other.
LEMMA OneMoves ==
    ASSUME ExchangeInv, NEW n \in Nodes, NEW k \in Nodes, k # n, Step(k)
    PROVE  at'[n] = at[n]
<1>1. DOMAIN at = Nodes
    BY DEF ExchangeInv, Shape, Ends
<1>2. ASSUME NEW a, NEW m, Go(k, a, m) PROVE at'[n] = at[n]
    BY <1>1, <1>2 DEF Go
<1>3. ASSUME Finish(k) \/ Drop(k) \/ Fail(k) PROVE at'[n] = at[n]
    BY <1>1, <1>3 DEF Finish, Drop, Fail
<1>4. ASSUME NEW a, AskNext(k, a) PROVE at'[n] = at[n]
    BY <1>1, <1>4 DEF AskNext, Go
<1>5. ASSUME NextPop(k) PROVE at'[n] = at[n]
    BY <1>1, <1>5 DEF NextPop, Go, Finish
<1>6. CASE OnInventory(k)
    BY <1>1, <1>6 DEF OnInventory, AskNext, Go
<1>7. CASE OnBucketIds(k)
    BY <1>1, <1>3, <1>7 DEF OnBucketIds, AskNext, Go
<1>8. CASE OnWant(k)
    BY <1>1, <1>3, <1>8 DEF OnWant, Go
<1>9. CASE OnRecords(k)
    BY <1>1, <1>3, <1>9 DEF OnRecords, Go
<1>10. CASE OnDone(k)
    BY <1>1, <1>10 DEF OnDone, Go
<1>11. CASE OnCodeWant(k) \/ OnCodeBlobs(k)
    BY <1>1, <1>11 DEF OnCodeWant, OnCodeBlobs, Go
<1>12. CASE OnDht(k)
    BY <1>1, <1>12 DEF OnDht, Go
<1>13. CASE OnPeersDigest(k)
    BY <1>1, <1>5, <1>13 DEF OnPeersDigest, Go
<1>14. CASE OnPeersWant(k)
    BY <1>1, <1>14 DEF OnPeersWant, Go
<1>15. CASE OnPeersRecords(k)
    BY <1>5, <1>15 DEF OnPeersRecords
<1>16. CASE OnPopDigest(k) \/ OnPopWant(k)
    BY <1>1, <1>3, <1>16 DEF OnPopDigest, OnPopWant, Go
<1>17. CASE OnPopRecords(k) \/ Abort(k)
    BY <1>3, <1>17 DEF OnPopRecords, Abort
<1> QED
    BY <1>6, <1>7, <1>8, <1>9, <1>10, <1>11, <1>12, <1>13, <1>14, <1>15, <1>16, <1>17
       DEF Step

\* Only the end of its code round takes a node from there to the next round.
LEMMA RoundEnds ==
    ASSUME ExchangeInv, [Next]_vars, NEW n \in Nodes,
           at[n].pc \in {"code_want", "code_blobs"}, at'[n].pc = "dht"
    PROVE  OnCodeWant(n) \/ OnCodeBlobs(n)
<1>1. at'[n] # at[n]
    OBVIOUS
<1>2. ~Open /\ ~Cut /\ ~UNCHANGED vars
    BY <1>1 DEF Open, Cut, vars
<1>3. PICK k \in Nodes : Step(k)
    BY <1>1, <1>2 DEF Next, Submit, Settle, AdvanceEpoch
<1>4. k = n
    BY <1>1, <1>3, OneMoves
<1>5. ~Abort(n)
    <2>1. DOMAIN at = Nodes
        BY DEF ExchangeInv, Shape, Ends
    <2> QED
        BY <2>1 DEF Abort, Drop, Idle
<1> QED
    BY <1>3, <1>4, <1>5 DEF Step, OnInventory, OnBucketIds, OnWant, OnRecords, OnDone,
       OnDht, OnPeersDigest, OnPeersWant, OnPeersRecords, OnPopDigest, OnPopWant,
       OnPopRecords, Got

-----------------------------------------------------------------------------
(* The code that claims are judged with.                                     *)

\* A message that can carry all the code asked for does.
LEMMA AllServed ==
    ASSUME NEW B \in SUBSET Blobs, NEW needs \in SUBSET Blobs
    PROVE  /\ served(B \cap needs) \subseteq B
           /\ Cardinality(needs) <= MaxBlobs => needs \cap B \subseteq served(B \cap needs)
<1>1. served(B \cap needs) \subseteq B
    BY DEF served
<1>2. ASSUME Cardinality(needs) <= MaxBlobs, NEW b \in needs \cap B
      PROVE  b \in served(B \cap needs)
    <2> DEFINE C == {c \in B \cap needs : c <= b}
    <2>1. IsFiniteSet(needs)
        BY ExchangeAssumption, FS_Subset
    <2>2. C \subseteq needs
        OBVIOUS
    <2>3. /\ Cardinality(C) <= Cardinality(needs)
          /\ Cardinality(C) \in Nat /\ Cardinality(needs) \in Nat
        BY <2>1, <2>2, FS_Subset, FS_CardinalityType
    <2>4. Cardinality(C) <= MaxBlobs
        BY <1>2, <2>3, ExchangeAssumption
    <2> QED
        BY <1>2, <2>4 DEF served
<1> QED
    BY <1>1, <1>2

\* A turn keeps the offers, if it asks for the code it needs and its message and
\* what it comes to hold are within what was offered.
LEMMA OfferTurn ==
    ASSUME ExchangeInv, OfferInv, NEW n \in Nodes, NEW o \in Nodes,
           o = other(n), n = other(o), NEW a, NEW m, NEW u, Go(n, a, m),
           active(n), chan[n] # <<>>, u = first(o),
           at[n].pc # "done" => a.needs = at[n].needs,
           blobs'[o] = blobs[o], log'[o] = log[o], Asked(n)',
           active(o) => offers(o, m)',
           active(o) /\ chan[o] # <<>> => offers(o, u)'
    PROVE  OfferInv'
<1>1. n # o /\ \A k \in Nodes : k = n \/ k = o
    BY TwoEnds
<1>2. /\ InStep(n) /\ InStep(o) /\ DOMAIN chan = Nodes /\ DOMAIN at = Nodes
      /\ Asked(o) /\ Offered(n) /\ Offered(o)
    BY DEF ExchangeInv, Shape, Ends, OfferInv
<1>3. at'[n] = a /\ at'[o] = at[o] /\ Sends(n, m)
    BY <1>1, <1>2 DEF Go, Sends
<1>4. Asked(o)'
    BY <1>2, <1>3 DEF Asked, needed_code
<1>5. PICK q : q = second(n)
    OBVIOUS
<1>6. lone(n) \/ two(n)
    BY <1>2 DEF InStep, Queued
<1>7. Offered(n)'
    <2>1. CASE lone(n)
        <3>1. chan'[n] = <<>>
            BY <1>2, <1>3, <2>1, Sent
        <3>2. ~two(n)'
            BY <3>1, FormsNext
        <3> QED
            BY <3>1, <3>2 DEF Offered
    <2>2. CASE two(n)
        <3>1. chan'[n] = <<q>>
            BY <1>2, <1>3, <1>5, <2>2, Sent
        <3>2. ~two(n)' /\ first(n)' = q
            BY <3>1, FormsNext
        <3>3. offers(n, q) /\ q.t = nextPc(n, first(n))
            BY <1>2, <1>5, <2>2 DEF Offered, InStep, Queued, suits
        <3>4. q.t = "code_blobs" => at[n].pc # "done"
            BY <3>3 DEF nextPc, Straight
        <3>5. offers(n, q)'
            BY <1>3, <3>3, <3>4 DEF offers
        <3> QED
            BY <3>2, <3>5 DEF Offered
    <2> QED
        BY <1>6, <2>1, <2>2
<1>8. Offered(o)'
    <2>1. CASE ~active(o)
        BY <1>3, <2>1 DEF Offered, active
    <2>2. CASE active(o) /\ chan[o] = <<>>
        <3>1. chan'[o] = <<>> \/ chan'[o] = <<m>>
            BY <1>2, <1>3, <2>2, Sent
        <3>2. ~two(o)' /\ (chan'[o] # <<>> => first(o)' = m)
            BY <3>1, FormsNext
        <3> QED
            BY <2>2, <3>2 DEF Offered
    <2>3. CASE active(o) /\ chan[o] # <<>>
        <3>1. ~behind(n)
            BY <2>3 DEF behind
        <3>2. lone(o)
            BY <1>2, <2>3, <3>1 DEF InStep, Paired, Queued, level
        <3>3. chan'[o] = <<first(o)>> \/ chan'[o] = <<first(o), m>>
            BY <1>2, <1>3, <3>2, Sent DEF lone
        <3>4. chan'[o] = <<u>> \/ chan'[o] = <<u, m>>
            BY <3>3, Zenon
        <3>5. first(o)' = u /\ (two(o)' => second(o)' = m)
            BY <3>4, FormsNext
        <3> QED
            BY <2>3, <3>5 DEF Offered
    <2> QED
        BY <2>1, <2>2, <2>3
<1> QED
    BY <1>1, <1>4, <1>7, <1>8 DEF OfferInv

\* A turn of another round.
LEMMA OfferPlain ==
    ASSUME ExchangeInv, OfferInv, NEW n \in Nodes, NEW o \in Nodes,
           o = other(n), n = other(o), NEW a, NEW m, Go(n, a, m),
           active(n), chan[n] # <<>>, a.needs = at[n].needs,
           a.pc \notin {"code_want", "code_blobs"}, m.t # "code_blobs",
           UNCHANGED <<log, blobs>>
    PROVE  OfferInv'
<1>1. PICK u : u = first(o)
    OBVIOUS
<1>2. n # o
    BY TwoEnds
<1>3. DOMAIN at = Nodes /\ Offered(o)
    BY DEF ExchangeInv, Shape, Ends, OfferInv
<1>4. at'[n] = a /\ at'[o] = at[o]
    BY <1>2, <1>3 DEF Go
<1>5. Asked(n)'
    BY <1>4 DEF Asked
<1>6. offers(o, m)'
    BY DEF offers
<1>7. ASSUME active(o), chan[o] # <<>> PROVE offers(o, u)'
    BY <1>1, <1>3, <1>4, <1>7 DEF Offered, offers
<1> QED
    BY <1>1, <1>5, <1>6, <1>7, OfferTurn

\* A session that ends takes no code.
LEMMA OfferEnd ==
    ASSUME ExchangeInv, OfferInv, NEW n \in Nodes, NEW o \in Nodes,
           o = other(n), n = other(o), Finish(n) \/ Drop(n),
           log'[o] = log[o], blobs' = blobs
    PROVE  OfferInv'
<1>1. n # o /\ \A k \in Nodes : k = n \/ k = o
    BY TwoEnds
<1>2. DOMAIN at = Nodes /\ DOMAIN chan = Nodes /\ Asked(o) /\ Offered(o)
    BY DEF ExchangeInv, Shape, Ends, OfferInv
<1>3. at'[n].pc = "idle" /\ at'[o] = at[o] /\ chan'[o] = chan[o]
    BY <1>1, <1>2 DEF Finish, Drop, Idle
<1>4. Asked(n)' /\ Offered(n)'
    BY <1>3 DEF Asked, Offered, active
<1>5. Asked(o)'
    BY <1>2, <1>3 DEF Asked, needed_code
<1>6. Offered(o)'
    BY <1>2, <1>3 DEF Offered, offers, active, first, second, two
<1> QED
    BY <1>1, <1>4, <1>5, <1>6 DEF OfferInv

LEMMA OfferAsk ==
    ASSUME ExchangeInv, OfferInv, NEW n \in Nodes, NEW o \in Nodes,
           o = other(n), n = other(o), NEW a, AskNext(n, a), DOMAIN a = Fields,
           active(n), chan[n] # <<>>, a.needs = at[n].needs, UNCHANGED <<log, blobs>>
    PROVE  OfferInv'
<1>1. PICK b, m, c, v :
        /\ b = [a EXCEPT !.pc = "bucket_ids"] /\ c = [a EXCEPT !.pc = "want"]
        /\ m = Msg("bucket_ids", [bucket |-> Min(a.buckets),
                                  ids |-> bucket_ids(a.held, Min(a.buckets))])
        /\ v = Msg("want", a.want)
    OBVIOUS
<1>2. Go(n, b, m) \/ Go(n, c, v)
    BY <1>1 DEF AskNext
<1>3. /\ b.needs = at[n].needs /\ b.pc = "bucket_ids" /\ m.t = "bucket_ids"
      /\ c.needs = at[n].needs /\ c.pc = "want" /\ v.t = "want"
    BY <1>1 DEF Fields, Msg
<1> QED
    BY <1>2, <1>3, OfferPlain

LEMMA OfferPop ==
    ASSUME ExchangeInv, OfferInv, NEW n \in Nodes, NEW o \in Nodes,
           o = other(n), n = other(o), NextPop(n),
           active(n), chan[n] # <<>>, UNCHANGED <<log, blobs>>
    PROVE  OfferInv'
<1>1. PICK a, m : a = [at[n] EXCEPT !.pc = "pop_digest"] /\ m = Msg("pop_digest", pop[n])
    OBVIOUS
<1>2. Go(n, a, m) \/ Finish(n)
    BY <1>1 DEF NextPop
<1>3. a.needs = at[n].needs /\ a.pc = "pop_digest" /\ m.t = "pop_digest"
    BY <1>1 DEF Fields, Msg, ExchangeInv, Shape, Ends
<1> QED
    BY <1>2, <1>3, OfferPlain, OfferEnd

LEMMA OfferCodeWant ==
    ASSUME ExchangeInv, OfferInv, NEW n \in Nodes, NEW o \in Nodes,
           o = other(n), n = other(o), OnCodeWant(n)
    PROVE  OfferInv'
<1>1. Shape /\ InStep(n) /\ Staged(n) /\ Staged(o) /\ Asked(n) /\ Offered(o)
    BY DEF ExchangeInv, OfferInv
<1>2. Got(n, "code_want") /\ blobs' = blobs
    BY DEF OnCodeWant
<1>3. PICK p, u, a, m, b, v, held :
        /\ p = first(n) /\ u = first(o) /\ held = at[n].held
        /\ a = [at[n] EXCEPT !.pc = "code_blobs"]
        /\ m = Msg("code_blobs", served(blobs[n] \cap Body(n)))
        /\ b = [at[n] EXCEPT !.pc = "dht"] /\ v = Msg("dht", {})
    OBVIOUS
<1>4. /\ at[n].pc = "code_want" /\ active(n) /\ chan[n] # <<>> /\ Body(n) = p.body
      /\ p.t = "code_want"
    BY <1>1, <1>2, <1>3, Taken DEF suits
<1>5. n # o
    BY TwoEnds
<1>6. /\ a.pc = "code_blobs" /\ a.needs = at[n].needs /\ a.held = at[n].held
      /\ b.pc = "dht" /\ b.needs = at[n].needs
      /\ m.t = "code_blobs" /\ m.body = served(blobs[n] \cap p.body) /\ v.t = "dht"
    BY <1>1, <1>3, <1>4 DEF Shape, Ends, Fields, Msg
<1>7. CASE at[n].needs = {} /\ Body(n) = {}
    <2>1. Go(n, b, v) /\ \E code : applied(n, held, code)
        BY <1>3, <1>7 DEF OnCodeWant
    <2>2. PICK code : applied(n, held, code)
        BY <2>1
    <2>3. held \in SUBSET Records
        BY <1>1, <1>3, <1>4 DEF Staged, Coding
    <2>4. log'[o] = log[o]
        BY <1>1, <1>5, <2>2, <2>3, AppliedLog DEF Shape
    <2>5. at'[n] = b /\ at'[o] = at[o]
        BY <1>1, <1>5, <2>1 DEF Go, Shape, Ends
    <2>6. Asked(n)'
        BY <1>6, <2>5 DEF Asked
    <2>7. offers(o, v)'
        BY <1>6 DEF offers
    <2>8. ASSUME active(o), chan[o] # <<>> PROVE offers(o, u)'
        BY <1>1, <1>2, <1>3, <2>5, <2>8 DEF Offered, offers
    <2> QED
        BY <1>2, <1>3, <1>4, <1>6, <2>1, <2>4, <2>6, <2>7, <2>8, OfferTurn
<1>8. CASE ~(at[n].needs = {} /\ Body(n) = {})
    <2>1. Go(n, a, m) /\ log' = log
        BY <1>3, <1>8 DEF OnCodeWant
    <2>2. at'[n] = a /\ at'[o] = at[o]
        BY <1>1, <1>5, <2>1 DEF Go, Shape, Ends
    <2>3. Asked(n)'
        BY <1>1, <1>2, <1>4, <1>6, <2>1, <2>2 DEF Asked, needed_code
    <2>4. ASSUME active(o) PROVE offers(o, m)'
        <3>1. (level(n) \/ behind(n)) /\ says(n, p)
            BY <1>1, <1>3, <1>4, <2>4 DEF InStep, Paired
        <3>2. p.body = at[o].needs
            BY <1>4, <3>1 DEF says
        <3>3. nextPc(n, p) = "code_blobs"
            BY <1>4, <1>8 DEF nextPc
        <3>4. at[o].pc \in {"code_want", "code_blobs"}
            BY <1>3, <1>4, <3>1, <3>3 DEF level, behind
        <3>5. at[o].needs \in SUBSET Blobs /\ blobs[n] \in SUBSET Blobs
            BY <1>1, <3>4 DEF Staged, Coding, Shape, Stores
        <3>6. /\ m.body \subseteq blobs[n]
              /\ Cardinality(at[o].needs) <= MaxBlobs =>
                    at[o].needs \cap blobs[n] \subseteq m.body
            <4>1. /\ served(blobs[n] \cap at[o].needs) \subseteq blobs[n]
                  /\ Cardinality(at[o].needs) <= MaxBlobs =>
                        at[o].needs \cap blobs[n]
                            \subseteq served(blobs[n] \cap at[o].needs)
                BY <3>5, AllServed
            <4> QED
                BY <1>6, <3>2, <4>1
        <3> QED
            BY <1>2, <2>2, <3>6 DEF offers
    <2>5. ASSUME active(o), chan[o] # <<>> PROVE offers(o, u)'
        BY <1>1, <1>2, <1>3, <2>2, <2>5 DEF Offered, offers
    <2> QED
        BY <1>2, <1>3, <1>4, <1>6, <2>1, <2>3, <2>4, <2>5, OfferTurn
<1> QED
    BY <1>7, <1>8

LEMMA OfferCodeBlobs ==
    ASSUME ExchangeInv, OfferInv, NEW n \in Nodes, NEW o \in Nodes,
           o = other(n), n = other(o), OnCodeBlobs(n)
    PROVE  OfferInv'
<1>1. /\ Shape /\ InStep(n) /\ InStep(o) /\ Staged(n)
      /\ Asked(o) /\ Offered(n) /\ Offered(o)
    BY DEF ExchangeInv, OfferInv
<1>2. PICK p, u, code, b, v, held :
        /\ p = first(n) /\ u = first(o) /\ held = at[n].held
        /\ code = blobs[n] \cup (Body(n) \cap at[n].needs)
        /\ b = [at[n] EXCEPT !.pc = "dht"] /\ v = Msg("dht", {})
    OBVIOUS
<1>3. /\ Got(n, "code_blobs") /\ Go(n, b, v) /\ applied(n, held, code)
      /\ blobs' = [blobs EXCEPT ![n] = code]
    BY <1>2 DEF OnCodeBlobs
<1>4. /\ at[n].pc = "code_blobs" /\ active(n) /\ chan[n] # <<>> /\ Body(n) = p.body
      /\ p.t = "code_blobs"
    BY <1>1, <1>2, <1>3, Taken DEF suits
<1>5. n # o
    BY TwoEnds
<1>6. b.pc = "dht" /\ b.needs = at[n].needs /\ v.t = "dht"
    BY <1>1, <1>2 DEF Shape, Ends, Fields, Msg
<1>7. held \in SUBSET Records
    BY <1>1, <1>2, <1>4 DEF Staged, Coding
<1>8. log'[o] = log[o]
    BY <1>1, <1>3, <1>5, <1>7, AppliedLog DEF Shape
<1>9. /\ at'[n] = b /\ at'[o] = at[o]
      /\ blobs'[n] = code /\ blobs'[o] = blobs[o]
    BY <1>1, <1>3, <1>5 DEF Go, Shape, Ends, Stores
<1>10. Asked(n)'
    BY <1>6, <1>9 DEF Asked
<1>11. offers(o, v)'
    BY <1>6 DEF offers
<1>12. ASSUME active(o), chan[o] # <<>> PROVE offers(o, u)'
    <2>1. offers(o, u) /\ u.t = at[o].pc
        BY <1>1, <1>2, <1>12 DEF Offered, InStep, Queued, suits
    <2>2. p.body \subseteq blobs[o]
        BY <1>1, <1>2, <1>4 DEF Offered, offers
    <2>3. ASSUME u.t = "code_blobs" PROVE at[o].needs \cap blobs[o] = {}
        BY <1>1, <2>1, <2>3 DEF Asked, needed_code
    <2> QED
        BY <1>2, <1>4, <1>9, <2>1, <2>2, <2>3 DEF offers
<1> QED
    BY <1>2, <1>3, <1>4, <1>6, <1>8, <1>9, <1>10, <1>11, <1>12, OfferTurn

LEMMA OfferTurns ==
    ASSUME ExchangeInv, OfferInv, NEW n \in Nodes, NEW o \in Nodes,
           o = other(n), n = other(o), Step(n)
    PROVE  OfferInv'
<1>1. Ends /\ InStep(n) /\ DOMAIN at[n] = Fields /\ Staged(n) /\ Stores /\ n # o
    BY TwoEnds DEF ExchangeInv, Shape, Ends
<1>2. CASE Fail(n)
    BY <1>2, OfferEnd DEF Fail
<1>3. CASE OnInventory(n)
    <2>1. PICK a : a = [at[n] EXCEPT !.buckets = differing(inventory(at[n].held), Body(n))]
        OBVIOUS
    <2>2. /\ Got(n, "inventory") /\ AskNext(n, a) /\ UNCHANGED <<log, blobs>>
        BY <1>3, <2>1 DEF OnInventory
    <2>3. DOMAIN a = Fields /\ a.needs = at[n].needs
        BY <1>1, <2>1 DEF Fields
    <2> QED
        BY <1>1, <2>2, <2>3, Taken, OfferAsk
<1>4. CASE OnBucketIds(n)
    <2>1. PICK ask, a :
            /\ ask = want_from(at[n], Body(n).ids)
            /\ a = [at[n] EXCEPT !.buckets = @ \ {Min(@)}, !.want = @ \cup ask,
                                 !.outstanding = @ \cup ask]
        OBVIOUS
    <2>2. /\ Got(n, "bucket_ids")
          /\ Fail(n) \/ (AskNext(n, a) /\ UNCHANGED <<log, blobs>>)
        BY <1>4, <2>1 DEF OnBucketIds
    <2>3. DOMAIN a = Fields /\ a.needs = at[n].needs
        BY <1>1, <2>1 DEF Fields
    <2> QED
        BY <1>1, <1>2, <2>2, <2>3, Taken, OfferAsk
<1>5. CASE OnWant(n)
    <2>1. PICK a, m : /\ a = [at[n] EXCEPT !.pc = "records"]
                      /\ m = Msg("records", Body(n) \cap at[n].held)
        OBVIOUS
    <2>2. /\ Got(n, "want")
          /\ Fail(n) \/ (Go(n, a, m) /\ UNCHANGED <<log, blobs>>)
        BY <1>5, <2>1 DEF OnWant
    <2>3. a.pc = "records" /\ a.needs = at[n].needs /\ m.t = "records"
        BY <1>1, <2>1 DEF Fields, Msg
    <2> QED
        BY <1>1, <1>2, <2>2, <2>3, Taken, OfferPlain
<1>6. CASE OnRecords(n)
    <2>1. PICK a, m :
            /\ a = [at[n] EXCEPT !.pc = "done", !.held = @ \cup Body(n),
                                 !.outstanding = @ \ Body(n)]
            /\ m = Msg("done", {})
        OBVIOUS
    <2>2. /\ Got(n, "records")
          /\ Fail(n) \/ (Go(n, a, m) /\ UNCHANGED <<log, blobs>>)
        BY <1>6, <2>1 DEF OnRecords
    <2>3. a.pc = "done" /\ a.needs = at[n].needs /\ m.t = "done"
        BY <1>1, <2>1 DEF Fields, Msg
    <2> QED
        BY <1>1, <1>2, <2>2, <2>3, Taken, OfferPlain
<1>7. CASE OnDone(n)
    <2>1. PICK needs, a, m, u :
            /\ needs = needed_code(n, at[n].held) /\ u = first(o)
            /\ a = [at[n] EXCEPT !.pc = "code_want", !.needs = needs]
            /\ m = Msg("code_want", needs)
        OBVIOUS
    <2>2. Got(n, "done") /\ Go(n, a, m) /\ log' = log /\ blobs' = blobs
        BY <1>7, <2>1 DEF OnDone
    <2>3. /\ a.pc = "code_want" /\ a.needs = needs /\ a.held = at[n].held
          /\ m.t = "code_want"
        BY <1>1, <2>1 DEF Fields, Msg
    <2>4. at'[n] = a /\ at'[o] = at[o]
        BY <1>1, <2>2 DEF Go, Ends
    <2>5. Asked(n)'
        BY <2>1, <2>2, <2>3, <2>4 DEF Asked, needed_code
    <2>6. offers(o, m)'
        BY <2>3 DEF offers
    <2>7. ASSUME active(o), chan[o] # <<>> PROVE offers(o, u)'
        BY <2>1, <2>2, <2>4, <2>7 DEF OfferInv, Offered, offers
    <2>8. at[n].pc = "done" /\ active(n) /\ chan[n] # <<>>
        BY <1>1, <2>2, Taken
    <2> QED
        BY <2>1, <2>2, <2>5, <2>6, <2>7, <2>8, OfferTurn
<1>8. CASE OnDht(n)
    <2>1. PICK a, m : /\ a = [at[n] EXCEPT !.pc = "peers_digest"]
                      /\ m = Msg("peers_digest", hint_ids(pin_hints_from_log(n)))
        OBVIOUS
    <2>2. Got(n, "dht") /\ Go(n, a, m) /\ UNCHANGED <<log, blobs>>
        BY <1>8, <2>1 DEF OnDht
    <2>3. a.pc = "peers_digest" /\ a.needs = at[n].needs /\ m.t = "peers_digest"
        BY <1>1, <2>1 DEF Fields, Msg
    <2> QED
        BY <1>1, <2>2, <2>3, Taken, OfferPlain
<1>9. CASE OnPeersDigest(n)
    <2>1. PICK want, a, m :
            /\ want = Body(n) \ hint_ids(hints[n])
            /\ a = [at[n] EXCEPT !.pc = "peers_want", !.want = want]
            /\ m = Msg("peers_want", want)
        OBVIOUS
    <2>2. /\ Got(n, "peers_digest") /\ (NextPop(n) \/ Go(n, a, m))
          /\ UNCHANGED <<log, blobs>>
        BY <1>9, <2>1 DEF OnPeersDigest
    <2>3. a.pc = "peers_want" /\ a.needs = at[n].needs /\ m.t = "peers_want"
        BY <1>1, <2>1 DEF Fields, Msg
    <2> QED
        BY <1>1, <2>2, <2>3, Taken, OfferPlain, OfferPop
<1>10. CASE OnPeersWant(n)
    <2>1. PICK a, m : /\ a = [at[n] EXCEPT !.pc = "peers_records"]
                      /\ m = Msg("peers_records", serve_hints(hints[n], Body(n)))
        OBVIOUS
    <2>2. Got(n, "peers_want") /\ Go(n, a, m) /\ UNCHANGED <<log, blobs>>
        BY <1>10, <2>1 DEF OnPeersWant
    <2>3. a.pc = "peers_records" /\ a.needs = at[n].needs /\ m.t = "peers_records"
        BY <1>1, <2>1 DEF Fields, Msg
    <2> QED
        BY <1>1, <2>2, <2>3, Taken, OfferPlain
<1>11. CASE OnPeersRecords(n)
    <2>1. Got(n, "peers_records") /\ NextPop(n) /\ UNCHANGED <<log, blobs>>
        BY <1>11 DEF OnPeersRecords
    <2> QED
        BY <1>1, <2>1, Taken, OfferPop
<1>12. CASE OnPopDigest(n)
    <2>1. PICK want, a, m :
            /\ want = Body(n) \ pop[n]
            /\ a = [at[n] EXCEPT !.pc = "pop_want", !.want = want]
            /\ m = Msg("pop_want", want)
        OBVIOUS
    <2>2. /\ Got(n, "pop_digest") /\ (Finish(n) \/ Go(n, a, m))
          /\ UNCHANGED <<log, blobs>>
        BY <1>12, <2>1 DEF OnPopDigest
    <2>3. a.pc = "pop_want" /\ a.needs = at[n].needs /\ m.t = "pop_want"
        BY <1>1, <2>1 DEF Fields, Msg
    <2> QED
        BY <1>1, <2>2, <2>3, Taken, OfferPlain, OfferEnd
<1>13. CASE OnPopWant(n)
    <2>1. PICK a, m : /\ a = [at[n] EXCEPT !.pc = "pop_records"]
                      /\ m = Msg("pop_records", Body(n) \cap pop[n])
        OBVIOUS
    <2>2. Got(n, "pop_want") /\ Go(n, a, m) /\ UNCHANGED <<log, blobs>>
        BY <1>13, <2>1 DEF OnPopWant
    <2>3. a.pc = "pop_records" /\ a.needs = at[n].needs /\ m.t = "pop_records"
        BY <1>1, <2>1 DEF Fields, Msg
    <2> QED
        BY <1>1, <2>2, <2>3, Taken, OfferPlain
<1>14. CASE OnPopRecords(n)
    BY <1>14, OfferEnd DEF OnPopRecords
<1>15. CASE Abort(n)
    <2>1. Drop(n) /\ blobs' = blobs
        BY <1>15 DEF Abort
    <2>2. log'[o] = log[o]
        BY <1>1, <1>15 DEF Abort, applied, Stores
    <2> QED
        BY <2>1, <2>2, OfferEnd
<1> QED
    BY <1>3, <1>4, <1>5, <1>6, <1>7, <1>8, <1>9, <1>10, <1>11, <1>12, <1>13, <1>14,
       <1>15, OfferCodeWant, OfferCodeBlobs DEF Step

LEMMA OfferAside ==
    ASSUME OfferInv, UNCHANGED <<at, chan, log, blobs>>
    PROVE  OfferInv'
    BY DEF OfferInv, Asked, Offered, offers, needed_code, active, first, second, two

LEMMA OfferOpen ==
    ASSUME Open
    PROVE  OfferInv'
<1>1. SUFFICES ASSUME NEW n \in Nodes PROVE Asked(n)' /\ Offered(n)'
    BY DEF OfferInv
<1>2. PICK m : m = Msg("inventory", inventory(log[other(n)]))
    OBVIOUS
<1>3. chan'[n] = <<m>> /\ at'[n].pc = "inventory"
    BY <1>1, <1>2 DEF Open, Idle
<1>4. ~two(n)' /\ first(n)' = m
    BY <1>3, FormsNext
<1>5. offers(n, m)'
    BY <1>2 DEF offers, Msg
<1> QED
    BY <1>3, <1>4, <1>5 DEF Asked, Offered

LEMMA OfferSubmit ==
    ASSUME ExchangeInv, OfferInv, ClientsBringNoCode, NEW n \in Nodes, NEW o \in Nodes,
           o = other(n), n = other(o), Submit(n)
    PROVE  OfferInv'
<1>1. n # o /\ \A k \in Nodes : k = n \/ k = o
    BY TwoEnds
<1>2. Stores /\ Asked(o) /\ Offered(o)
    BY DEF ExchangeInv, Shape, OfferInv
<1>3. at[n].pc = "idle" /\ UNCHANGED <<chan, at>>
    BY DEF Submit
<1>4. PICK r \in Clients[n] \ log[n] :
        /\ log' = [log EXCEPT ![n] = @ \cup {r}]
        /\ blobs' = [blobs EXCEPT ![n] = @ \cup
                {Checker[x] : x \in {r} \cap {y \in Records : Kind[y] = "objective"}}]
    BY DEF Submit
<1>5. {r} \cap {y \in Records : Kind[y] = "objective"} = {}
    BY <1>4 DEF ClientsBringNoCode
<1>6. blobs'[n] = blobs[n] /\ blobs'[o] = blobs[o] /\ log'[o] = log[o]
    BY <1>1, <1>2, <1>4, <1>5 DEF Stores
<1>7. Asked(n)' /\ Offered(n)'
    BY <1>3 DEF Asked, Offered, active
<1>8. Asked(o)'
    BY <1>2, <1>3, <1>6 DEF Asked, needed_code
<1>9. Offered(o)'
    BY <1>2, <1>3, <1>6 DEF Offered, offers, active, first, second, two
<1> QED
    BY <1>1, <1>7, <1>8, <1>9 DEF OfferInv

LEMMA OfferNext ==
    ASSUME ClientsBringNoCode, ExchangeInv, OfferInv, [Next]_vars
    PROVE  OfferInv'
<1>1. CASE UNCHANGED vars
    BY <1>1, OfferAside DEF vars
<1>2. CASE Open
    BY <1>2, OfferOpen
<1>3. CASE Cut
    BY <1>3, OfferAside DEF Cut
<1>4. ASSUME NEW n \in Nodes, Step(n) \/ Submit(n) \/ Settle(n) \/ AdvanceEpoch(n)
      PROVE  OfferInv'
    <2>1. PICK o : o = other(n)
        OBVIOUS
    <2>2. o \in Nodes /\ n = other(o)
        BY <1>4, <2>1, TwoEnds
    <2>3. CASE Settle(n) \/ AdvanceEpoch(n)
        BY <2>3, OfferAside DEF Settle, AdvanceEpoch
    <2> QED
        BY <1>4, <2>1, <2>2, <2>3, OfferTurns, OfferSubmit
<1> QED
    BY <1>1, <1>2, <1>3, <1>4 DEF Next

\* What a node asked for is what it lacks, and the answer on its way holds all
\* of it that the other end has.
THEOREM OffersHold ==
    ASSUME ClientsBringNoCode
    PROVE  Spec => []OfferInv
<1>1. Init => OfferInv
    BY DEF Init, OfferInv, Asked, Offered, active, Idle
<1>2. ExchangeInv /\ OfferInv /\ [Next]_vars => OfferInv'
    BY OfferNext
<1> QED
    BY <1>1, <1>2, ExchangeInvariant, PTL DEF Spec

\* A claim names the objective it is about.
LEMMA ClaimHasObjective ==
    ASSUME NEW c \in Records, Kind[c] = "claim"
    PROVE  objective_of(c) \in After[c] /\ Kind[objective_of(c)] = "objective"
<1>1. \E x \in After[c] : Kind[x] = "objective"
    BY RecordsAssumption
<1> QED
    BY <1>1 DEF objective_of

\* A claim is first judged with its checker when either end of the session held
\* it and a message could carry all the code asked for (service.rs
\* dial_node_and_population, code.rs serve).
THEOREM CheckersMet ==
    ASSUME ClientsBringNoCode
    PROVE  Spec => ClaimsMeetTheirChecker
<1>1. ASSUME ExchangeInv, OfferInv, [Next]_vars, NEW n \in Nodes,
             at[n].pc \in {"code_want", "code_blobs"}, at'[n].pc = "dht",
             Cardinality(needed_code(n, at[n].held)) <= MaxBlobs,
             NEW c \in unjudged'[n] \ unjudged[n]
      PROVE  Checker[objective_of(c)] \notin blobs[other(n)]
    <2>1. PICK o, held, x : /\ o = other(n) /\ held = at[n].held
                            /\ x = Checker[objective_of(c)]
        OBVIOUS
    <2>2. o \in Nodes /\ n # o
        BY <1>1, <2>1, TwoEnds
    <2>3. /\ Stores /\ DOMAIN at = Nodes /\ DOMAIN at[n] = Fields
          /\ InStep(n) /\ Staged(n) /\ Asked(n) /\ Offered(n)
        BY <1>1 DEF ExchangeInv, Shape, Ends, OfferInv
    <2>4. held \in SUBSET Records /\ at[n].needs = needed_code(n, held)
        BY <1>1, <2>1, <2>3 DEF Staged, Coding, Asked
    <2>5. ASSUME NEW code, applied(n, held, code), blobs[n] \subseteq code
          PROVE  x \in at[n].needs /\ x \notin code
        <3>1. PICK taken \in SUBSET replayable(n, held) :
                unjudged' = [unjudged EXCEPT ![n] = @ \cup
                    {d \in taken : /\ Kind[d] = "claim"
                                   /\ Checker[objective_of(d)] \notin code}]
            BY <2>5 DEF applied
        <3>2. unjudged'[n] = unjudged[n] \cup
                {d \in taken : /\ Kind[d] = "claim"
                               /\ Checker[objective_of(d)] \notin code}
            BY <2>3, <3>1 DEF Stores
        <3>3. c \in replayable(n, held) /\ Kind[c] = "claim" /\ x \notin code
            BY <1>1, <2>1, <3>1, <3>2
        <3>4. c \in held /\ After[c] \subseteq log[n] \cup held
            BY <3>3 DEF replayable
        <3>7. objective_of(c) \in log[n] \cup held /\ Kind[objective_of(c)] = "objective"
            BY <2>4, <3>3, <3>4, ClaimHasObjective
        <3>8. x \in needed_code(n, held)
            BY <2>1, <2>3, <2>4, <2>5, <3>3, <3>7, ExchangeAssumption DEF needed_code, Stores
        <3> QED
            BY <2>4, <3>3, <3>8
    <2>6. OnCodeWant(n) \/ OnCodeBlobs(n)
        BY <1>1, RoundEnds
    <2>7. CASE OnCodeWant(n) /\ at[n].needs = {} /\ Body(n) = {}
        <3>1. applied(n, held, blobs[n])
            BY <2>1, <2>7 DEF OnCodeWant
        <3>2. x \in at[n].needs
            BY <2>5, <3>1
        <3> QED
            BY <2>7, <3>2
    <2>8. CASE OnCodeWant(n) /\ ~(at[n].needs = {} /\ Body(n) = {})
        <3>1. at'[n] = [at[n] EXCEPT !.pc = "code_blobs"]
            BY <2>3, <2>8 DEF OnCodeWant, Go
        <3> QED
            BY <1>1, <2>3, <3>1 DEF Fields
    <2>9. CASE OnCodeBlobs(n)
        <3>1. PICK code : code = blobs[n] \cup (Body(n) \cap at[n].needs)
            OBVIOUS
        <3>2. Got(n, "code_blobs") /\ applied(n, held, code)
            BY <2>1, <2>9, <3>1 DEF OnCodeBlobs
        <3>3. /\ active(n) /\ chan[n] # <<>> /\ Body(n) = first(n).body
              /\ first(n).t = "code_blobs"
            BY <2>3, <3>2, Taken DEF suits
        <3>4. at[n].needs \cap blobs[o] \subseteq Body(n)
            BY <1>1, <2>1, <2>3, <2>4, <3>3 DEF Offered, offers
        <3>5. x \in at[n].needs /\ x \notin code
            BY <2>5, <3>1, <3>2
        <3> QED
            BY <2>1, <3>1, <3>4, <3>5
    <2> QED
        BY <2>6, <2>7, <2>8, <2>9
<1>2. ExchangeInv /\ OfferInv /\ [Next]_vars =>
        [\A n \in Nodes :
            (/\ at[n].pc \in {"code_want", "code_blobs"} /\ at'[n].pc = "dht"
             /\ Cardinality(needed_code(n, at[n].held)) <= MaxBlobs)
                => \A c \in unjudged'[n] \ unjudged[n] :
                        Checker[objective_of(c)] \notin blobs[other(n)]]_vars
    BY <1>1
<1> QED
    BY <1>2, ExchangeInvariant, OffersHold, PTL DEF Spec, ClaimsMeetTheirChecker
=============================================================================
