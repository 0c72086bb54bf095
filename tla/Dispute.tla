------------------------------ MODULE Dispute --------------------------------
(***************************************************************************)
(* Challenges of accepted claims on one log (src/src/node.rs, interactive  *)
(* fraud proofs): bonded objections, bisection moves, forfeits and the     *)
(* money a decided dispute moves.  Each handler is one append, and the     *)
(* state of a dispute is a fold over its records, so it is kept here as    *)
(* the record the fold returns.                                            *)
(*                                                                         *)
(* The log declares a supply, so that bonds have to be covered.            *)
(***************************************************************************)
EXTENDS Bisection

CONSTANTS
    Parties,      \* identities
    Claims,       \* accepted claims of bisectable objectives
    Challenges,   \* ids of the challenges that may be posted
    Claim,        \* submitter, the objective's reward, what the claim was paid
    Challenge,    \* claim, challenger and bond
    Scenarios,    \* the traces the parties may have committed to
    Endowment,    \* what each identity was issued and paid
    Window,       \* CHALLENGE_WINDOW_EPOCHS
    Spenders,     \* bound: the identities that other records charge
    Diligents     \* bound: the identities to try as the one that always answers

ASSUME WindowAssumption == Window \in Nat
ASSUME ClaimAssumption ==
    Claim \in [Claims -> [submitter : Parties, reward : Nat, paid : Nat]]
ASSUME ChallengeAssumption ==
    Challenge \in [Challenges -> [claim : Claims, challenger : Parties, bond : Nat]]
ASSUME EndowmentAssumption ==
    Endowment \in [Parties -> Nat] /\ Spenders \subseteq Parties
ASSUME ScenariosAssumption ==
    Scenarios \subseteq [claim : [Claims -> Traces],
                         challenge : [Challenges -> Traces]]

VARIABLES
    traces,    \* what the claims and the challenges committed to
    diligent,  \* an identity that answers whatever it is asked
    age,       \* epochs since the claims were admitted, up to Window + 1
    posted,    \* CHALLENGE entries
    game,      \* the dispute its BISECTION entries fold to
    quiet,     \* epochs since the last entry about it, up to Window + 1
    outcome,   \* its CHALLENGE_SETTLEMENT entry
    gross,     \* gross_paid_within: issued, paid and won
    locked,    \* challenge_bonds_within: bonds of live challenges
    debits     \* lost in disputes or charged by other records

money == <<gross, locked, debits>>
vars  == <<traces, diligent, age, posted, game, quiet, outcome, money>>
-----------------------------------------------------------------------------
claimOf(x)    == Claim[Challenge[x].claim]
partyOf(x, side) ==
    IF side = "challenger" THEN Challenge[x].challenger ELSE claimOf(x).submitter
tracesOf(x)   ==
    [side \in Sides |-> IF side = "challenger" THEN traces.challenge[x]
                        ELSE traces.claim[Challenge[x].claim]]

\* Mutant of held: the gross side alone.
heldGross(p) == gross[p]

\* balances_within: what an identity holds beyond what it has at risk.
held(p) ==
    IF locked[p] + debits[p] <= gross[p]
    THEN gross[p] - (locked[p] + debits[p]) ELSE 0

NoOutcome == [winner |-> "none", how |-> "open", units |-> 0]

\* The phase of the dispute that the records leave it in.
phase(x) ==
    IF missing(game[x]) # {} THEN "endpoints"
    ELSE IF ~wellFounded(tracesOf(x)) THEN "void"
    ELSE IF narrowed(game[x]) THEN "adjudicate" ELSE "open"

\* Mutant of owes: the endpoints are not counted.
owesInTheSearch(x) == IF phase(x) = "open" THEN waitingOn(game[x]) ELSE {}

\* The sides the dispute is waiting on.
owes(x) ==
    CASE phase(x) = "endpoints" -> {m[2] : m \in missing(game[x])}
      [] phase(x) = "open"      -> waitingOn(game[x])
      [] OTHER                  -> {}

\* Mutant of overdue: silence held against the defender when both are silent.
overdueDefender(x) ==
    IF quiet[x] > Window /\ "defender" \in owes(x) THEN {"defender"}
    ELSE IF quiet[x] > Window THEN owes(x) ELSE {}

\* The side that let the window pass: the only one that owes a move, or the
\* challenger of a dispute that nobody has played.
overdue(x) ==
    IF quiet[x] <= Window THEN {}
    ELSE IF Cardinality(owes(x)) = 1 THEN owes(x)
    ELSE IF game[x].opened = {} /\ "challenger" \in owes(x) THEN {"challenger"}
    ELSE {}
-----------------------------------------------------------------------------
Init ==
    /\ traces \in Scenarios
    /\ diligent \in Diligents
    /\ age = 0
    /\ posted = {}
    /\ game = [x \in Challenges |-> NewDispute]
    /\ quiet = [x \in Challenges |-> 0]
    /\ outcome = [x \in Challenges |-> NoOutcome]
    /\ gross = Endowment
    /\ locked = [p \in Parties |-> 0]
    /\ debits = [p \in Parties |-> 0]

\* Node::post_challenge: another root, in time, once per claim and challenger,
\* with a bond the challenger holds.
PostChallenge(x) ==
    LET p == Challenge[x].challenger IN
    /\ tracesOf(x)["defender"] # tracesOf(x)["challenger"]
    /\ age <= Window
    /\ \A y \in posted : ~ /\ Challenge[y].claim = Challenge[x].claim
                           /\ Challenge[y].challenger = p
    /\ Challenge[x].bond <= held(p)
    /\ posted' = posted \cup {x}
    /\ quiet' = [quiet EXCEPT ![x] = 0]
    /\ locked' = [locked EXCEPT ![p] = @ + Challenge[x].bond]
    /\ UNCHANGED <<traces, diligent, age, game, outcome, gross, debits>>

\* side_of answers for the challenger first, so an identity that challenges
\* its own claim never moves as its defender.
moves(x, side) ==
    side = "defender" => claimOf(x).submitter # Challenge[x].challenger

\* Node::post_bisection: an endpoint while one of the mover's is missing, and
\* the answer to the query after that.
OpenEndpoint(x, side, index) ==
    /\ x \in posted /\ outcome[x] = NoOutcome /\ moves(x, side)
    /\ <<index, side>> \in missing(game[x])
    /\ game' = [game EXCEPT ![x].opened = @ \cup {<<index, side>>}]
    /\ quiet' = [quiet EXCEPT ![x] = 0]
    /\ UNCHANGED <<traces, diligent, age, posted, outcome, money>>

Answer(x, side) ==
    /\ x \in posted /\ outcome[x] = NoOutcome /\ moves(x, side)
    /\ phase(x) = "open"
    /\ side \in waitingOn(game[x])
    /\ game' = [game EXCEPT ![x] = play(@, tracesOf(x), side)]
    /\ quiet' = [quiet EXCEPT ![x] = 0]
    /\ UNCHANGED <<traces, diligent, age, posted, outcome, money>>

\* The units a decided dispute moves.
atStake(x, winner) ==
    IF winner = "defender" THEN Challenge[x].bond
    ELSE LET h == held(claimOf(x).submitter) IN
         IF h <= claimOf(x).reward THEN h ELSE claimOf(x).reward

\* The CHALLENGE_SETTLEMENT entry; it releases the bond.
Decide(x, winner, how) ==
    LET units == atStake(x, winner) IN
    /\ x \in posted /\ outcome[x] = NoOutcome
    /\ outcome' = [outcome EXCEPT ![x] =
            [winner |-> winner, how |-> how, units |-> units]]
    /\ gross' = [gross EXCEPT ![partyOf(x, winner)] = @ + units]
    /\ debits' = [debits EXCEPT ![partyOf(x, other(winner))] = @ + units]
    /\ locked' = [locked EXCEPT ![Challenge[x].challenger] =
            @ - Challenge[x].bond]
    /\ UNCHANGED <<traces, diligent, age, posted, game, quiet>>

\* Node::settle_challenge, by the phase of the dispute.  A stepper that cannot
\* run here decides nothing and writes nothing.
SettleVoid(x)       == phase(x) = "void" /\ Decide(x, "defender", "void")
SettleForfeit(x)    ==
    \E side \in overdue(x) : Decide(x, other(side), "forfeited")
SettleByStepping(x) ==
    /\ phase(x) = "adjudicate"
    /\ Decide(x, decide(game[x], tracesOf(x)), "adjudicated")

SettleChallenge(x) == SettleVoid(x) \/ SettleForfeit(x) \/ SettleByStepping(x)

\* Any other record that charges an identity (an objective, a pool, an
\* undertaking), for a part of what it holds.
Charge(p, n) ==
    /\ n <= held(p)
    /\ debits' = [debits EXCEPT ![p] = @ + n]
    /\ UNCHANGED <<traces, diligent, age, posted, game, quiet, outcome, gross,
                   locked>>

older(n) == IF n <= Window THEN n + 1 ELSE n

AdvanceEpoch ==
    /\ age' = older(age)
    /\ quiet' = [x \in Challenges |->
                    IF x \in posted THEN older(quiet[x]) ELSE quiet[x]]
    /\ UNCHANGED <<traces, diligent, posted, game, outcome, money>>

Next ==
    \/ \E x \in Challenges :
        \/ PostChallenge(x)
        \/ \E side \in Sides :
            \/ \E index \in {0, Last} : OpenEndpoint(x, side, index)
            \/ Answer(x, side)
        \/ SettleVoid(x) \/ SettleForfeit(x) \/ SettleByStepping(x)
    \/ \E p \in Spenders : Charge(p, 1)
    \/ AdvanceEpoch

\* A move of the diligent party in dispute x.
DiligentMove(x) ==
    \E side \in Sides :
        /\ partyOf(x, side) = diligent
        /\ \/ \E index \in {0, Last} : OpenEndpoint(x, side, index)
           \/ Answer(x, side)

\* Time passes, somebody asks for a settlement again and again, and one party
\* answers; nothing is assumed of anybody else.
Fairness ==
    /\ WF_vars(AdvanceEpoch)
    /\ \A x \in Challenges : WF_vars(DiligentMove(x)) /\ WF_vars(SettleChallenge(x))

Spec     == Init /\ [][Next]_vars
FairSpec == Spec /\ Fairness
-----------------------------------------------------------------------------
Outcomes ==
    [winner : Sides \cup {"none"},
     how : {"open", "void", "forfeited", "adjudicated"}, units : Nat]

TypeOK ==
    /\ traces \in [claim : [Claims -> Traces], challenge : [Challenges -> Traces]]
    /\ diligent \in Diligents
    /\ age \in 0 .. Window + 1
    /\ posted \in SUBSET Challenges
    /\ game \in [Challenges -> Disputes]
    /\ quiet \in [Challenges -> 0 .. Window + 1]
    /\ outcome \in [Challenges -> Outcomes]
    /\ gross \in [Parties -> Nat]
    /\ locked \in [Parties -> Int]
    /\ debits \in [Parties -> Nat]

\* The search's invariant, witnessed by what both sides have opened: they
\* agree at lo and differ at hi (challenge.rs Dispute::open, play).
SearchInvariant ==
    \A x \in Challenges :
        LET d == game[x]
            t == tracesOf(x)
        IN  (x \in posted /\ phase(x) \in {"open", "adjudicate"}) =>
                /\ d.lo < d.hi
                /\ ({d.lo, d.hi} \X Sides) \subseteq d.opened
                /\ t["defender"][d.lo] = t["challenger"][d.lo]
                /\ t["defender"][d.hi] # t["challenger"][d.hi]

\* A trace that follows the stepper throughout.
faithful(t) == \A i \in 0 .. Last - 1 : t[i + 1] = Step[t[i]]

\* A party whose trace is a true execution is never convicted by the one step
\* that is run, wherever the other trace leaves it (challenge.rs decide).
FaithfulTraceWinsTheStep ==
    \A x \in Challenges : \A side \in Sides :
        (outcome[x].how = "adjudicated" /\ faithful(tracesOf(x)[side])) =>
            outcome[x].winner = side

\* A dispute carries the four endpoints and two moves a round, for a number of
\* rounds logarithmic in the trace (challenge.rs rounds_needed).
SearchIsLogarithmic ==
    \A x \in Challenges :
        Cardinality(game[x].opened) <= 4 + 2 * rounds_needed[Last]

\* Silence loses only against the silent: whoever wins by forfeit owed nothing
\* when the window ran out, or was the defender of an objection that nobody
\* had played (node.rs overdue, settle_challenge).
OnlyTheSilentForfeit ==
    \A x \in Challenges : outcome[x].how = "forfeited" =>
        /\ other(outcome[x].winner) \in owes(x)
        /\ quiet[x] > Window
        /\ \/ outcome[x].winner \notin owes(x)
           \/ outcome[x].winner = "defender" /\ game[x].opened = {}

\* No unit is at risk twice: bonds and losses are covered by what an identity
\* was issued, paid and won, so no balance is ever cut off at zero (node.rs
\* balances_within, afford, settle_challenge).
BondsAreCovered == \A p \in Parties : locked[p] + debits[p] <= gross[p]

\* What the disputes over one claim took from its submitter is no more than
\* the claim was paid (node.rs settle_challenge).
LossIsCappedByTheClaim ==
    \A c \in Claims : \A x, y \in Challenges :
        /\ Challenge[x].claim = c /\ Challenge[y].claim = c
        /\ outcome[x].winner = "challenger" /\ outcome[y].winner = "challenger"
        => IF x = y THEN outcome[x].units <= Claim[c].paid
           ELSE outcome[x].units + outcome[y].units <= Claim[c].paid

\* A party that answers what it is asked gets its dispute decided, whatever the
\* other side does (node.rs overdue, settle_challenge).
DisputesClose ==
    \A x \in Challenges :
        (x \in posted /\ diligent \in {partyOf(x, side) : side \in Sides})
            ~> outcome[x] # NoOutcome

\* An objection that nobody plays does not hold its bond for ever (node.rs
\* overdue).
UnplayedChallengesClose ==
    \A x \in Challenges :
        (x \in posted /\ game[x].opened = {})
            ~> (outcome[x] # NoOutcome \/ game[x].opened # {})
=============================================================================
