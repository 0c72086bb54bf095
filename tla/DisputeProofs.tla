---------------------------- MODULE DisputeProofs ----------------------------
(***************************************************************************)
(* Proofs about Dispute: the search, the step that decides it, forfeits    *)
(* and the cover of bonds, for every trace, number of challenges and       *)
(* window.                                                                 *)
(***************************************************************************)
EXTENDS Dispute, FiniteSetTheorems, TLAPS

\* The constants' assumptions, field by field.
LEMMA RecordShape ==
    /\ \A x \in Challenges :
        /\ Challenge[x].claim \in Claims
        /\ Challenge[x].challenger \in Parties
        /\ Challenge[x].bond \in Nat
        /\ claimOf(x).submitter \in Parties
        /\ claimOf(x).reward \in Nat
    /\ \A x \in Challenges : \A side \in Sides : partyOf(x, side) \in Parties
    /\ \A p \in Parties : Endowment[p] \in Nat
  BY ClaimAssumption, ChallengeAssumption, EndowmentAssumption
  DEF claimOf, partyOf, Sides

LEMMA TracesShape ==
    ASSUME TypeOK, NEW x \in Challenges
    PROVE  /\ tracesOf(x)["defender"] \in Traces
           /\ tracesOf(x)["challenger"] \in Traces
           /\ tracesOf(x)["defender"] = traces.claim[Challenge[x].claim]
           /\ tracesOf(x)["challenger"] = traces.challenge[x]
  BY RecordShape DEF tracesOf, Sides, TypeOK

\* A midpoint lies strictly inside an interval that is still too wide.
LEMMA QueryInside ==
    ASSUME NEW d \in Disputes, d.lo < d.hi, ~narrowed(d)
    PROVE  query(d) \in Indices /\ d.lo < query(d) /\ query(d) < d.hi
  <1>1. d.lo \in Nat /\ d.hi \in Nat /\ d.hi - d.lo >= 2 /\ Last \in Nat /\ d.hi <= Last
    BY LengthAssumption DEF Disputes, Indices, narrowed
  <1>2. (d.hi - d.lo) \div 2 \in Nat
        /\ (d.hi - d.lo) \div 2 >= 1 /\ (d.hi - d.lo) \div 2 < d.hi - d.lo
    BY <1>1
  <1> QED BY <1>1, <1>2 DEF query, Indices

\* What is at stake is a natural number, and no more than a losing submitter
\* holds.
LEMMA StakeShape ==
    ASSUME TypeOK, NEW x \in Challenges, NEW winner \in Sides
    PROVE  /\ atStake(x, winner) \in Nat
           /\ winner = "defender" => atStake(x, winner) = Challenge[x].bond
           /\ (winner = "challenger" /\ BondsAreCovered) =>
                atStake(x, winner) <=
                    gross[claimOf(x).submitter]
                        - (locked[claimOf(x).submitter]
                            + debits[claimOf(x).submitter])
  <1> DEFINE p == claimOf(x).submitter
  <1>1. /\ p \in Parties /\ claimOf(x).reward \in Nat /\ Challenge[x].bond \in Nat
        /\ gross[p] \in Nat /\ locked[p] \in Int /\ debits[p] \in Nat
    BY RecordShape DEF TypeOK
  <1>2. held(p) \in Nat
    BY <1>1 DEF held
  <1>3. BondsAreCovered => held(p) = gross[p] - (locked[p] + debits[p])
    BY <1>1 DEF held, BondsAreCovered
  <1>4. winner = "defender" \/ winner = "challenger"
    BY DEF Sides
  <1> HIDE DEF p
  <1>5. /\ winner = "defender" => atStake(x, winner) = Challenge[x].bond
        /\ winner = "challenger" => atStake(x, winner) =
                IF held(p) <= claimOf(x).reward THEN held(p) ELSE claimOf(x).reward
    BY <1>4 DEF atStake, p
  <1>6. winner = "challenger" =>
            atStake(x, winner) \in Nat /\ atStake(x, winner) <= held(p)
    BY <1>1, <1>2, <1>5
  <1> QED BY <1>1, <1>2, <1>3, <1>4, <1>5, <1>6 DEF p

LEMMA OlderShape ==
    ASSUME NEW n \in 0 .. Window + 1
    PROVE  older(n) \in 0 .. Window + 1 /\ n <= older(n)
  BY WindowAssumption DEF older
-----------------------------------------------------------------------------
\* SearchInvariant for a dispute at any stage: an end of the interval that is
\* not an end of the trace was opened by both, and a dispute whose endpoints
\* found one is agreed at lo and disagreed at hi.
GameOK(x) ==
    LET d == game[x]
        t == tracesOf(x)
    IN  /\ d.lo < d.hi
        /\ (({d.lo, d.hi} \ {0, Last}) \X Sides) \subseteq d.opened
        /\ wellFounded(t) =>
                /\ t["defender"][d.lo] = t["challenger"][d.lo]
                /\ t["defender"][d.hi] # t["challenger"][d.hi]

DecidedWerePosted ==
    \A x \in Challenges : outcome[x] # NoOutcome => x \in posted

\* The inductive invariant.
DisputeInv ==
    /\ TypeOK
    /\ \A x \in Challenges : GameOK(x)
    /\ BondsAreCovered
    /\ FaithfulTraceWinsTheStep
    /\ OnlyTheSilentForfeit
    /\ DecidedWerePosted

\* Every action that leaves the traces, the moves and the outcomes alone
\* leaves what is said of them alone.
LEMMA SameGame ==
    ASSUME UNCHANGED <<traces, game>>, NEW x \in Challenges
    PROVE  /\ tracesOf(x)' = tracesOf(x)
           /\ phase(x)' = phase(x)
           /\ owes(x)' = owes(x)
           /\ GameOK(x) => GameOK(x)'
  BY DEF tracesOf, phase, owes, GameOK

\* An answer keeps the search on a disagreement (Dispute::play).
LEMMA PlayKeepsGame ==
    ASSUME TypeOK, NEW x \in Challenges, NEW side \in Sides, GameOK(x),
           phase(x) = "open",
           UNCHANGED traces,
           game' = [game EXCEPT ![x] = play(@, tracesOf(x), side)]
    PROVE  game'[x] \in Disputes /\ GameOK(x)'
  <1> DEFINE d == game[x]
             t == tracesOf(x)
             i == query(d)
             a == [d EXCEPT !.opened = @ \cup {<<i, side>>}]
  <1>1. d \in Disputes /\ game'[x] = play(d, t, side)
    BY DEF TypeOK
  <1>2. ~narrowed(d) /\ wellFounded(t) /\ missing(d) = {}
    BY DEF phase
  <1>3. /\ d.lo < d.hi
        /\ (({d.lo, d.hi} \ {0, Last}) \X Sides) \subseteq d.opened
        /\ t["defender"][d.lo] = t["challenger"][d.lo]
        /\ t["defender"][d.hi] # t["challenger"][d.hi]
    BY <1>2 DEF GameOK
  <1>4. i \in Indices /\ d.lo < i /\ i < d.hi
    BY <1>1, <1>2, <1>3, QueryInside
  <1>5. tracesOf(x)' = t
    BY DEF tracesOf
  <1>6. /\ a \in Disputes /\ a.lo = d.lo /\ a.hi = d.hi
        /\ a.opened = d.opened \cup {<<i, side>>}
    BY <1>1, <1>4 DEF Disputes
  <1>7. other(side) \in Sides /\ Sides = {side, other(side)}
    BY DEF other, Sides
  <1> HIDE DEF d, t, i, a
  <1>8. CASE <<i, other(side)>> \notin d.opened
    <2>1. game'[x] = a
      BY <1>1, <1>8 DEF play, a, i
    <2>2. (({d.lo, d.hi} \ {0, Last}) \X Sides) \subseteq a.opened
      BY <1>3, <1>6
    <2> QED BY <2>1, <2>2, <1>3, <1>5, <1>6 DEF GameOK
  <1>9. CASE <<i, other(side)>> \in d.opened
    <2>1. game'[x] = narrow(a, t, i)
      BY <1>1, <1>9 DEF play, a, i
    <2>2. ({i} \X Sides) \subseteq a.opened
      BY <1>6, <1>7, <1>9
    <2>3. CASE t["defender"][i] = t["challenger"][i]
      <3>1. game'[x] = [a EXCEPT !.lo = i]
        BY <2>1, <2>3 DEF narrow
      <3>2. /\ game'[x] \in Disputes /\ game'[x].lo = i /\ game'[x].hi = d.hi
            /\ game'[x].opened = a.opened
        BY <3>1, <1>4, <1>6 DEF Disputes
      <3>3. (({i, d.hi} \ {0, Last}) \X Sides) \subseteq a.opened
        BY <1>3, <1>6, <2>2
      <3> QED BY <3>2, <3>3, <1>3, <1>4, <1>5, <2>3 DEF GameOK
    <2>4. CASE t["defender"][i] # t["challenger"][i]
      <3>1. game'[x] = [a EXCEPT !.hi = i]
        BY <2>1, <2>4 DEF narrow
      <3>2. /\ game'[x] \in Disputes /\ game'[x].lo = d.lo /\ game'[x].hi = i
            /\ game'[x].opened = a.opened
        BY <3>1, <1>4, <1>6 DEF Disputes
      <3>3. (({d.lo, i} \ {0, Last}) \X Sides) \subseteq a.opened
        BY <1>3, <1>6, <2>2
      <3> QED BY <3>2, <3>3, <1>3, <1>4, <1>5, <2>4 DEF GameOK
    <2> QED BY <2>3, <2>4
  <1> QED BY <1>8, <1>9

LEMMA DisputeInit == Init => DisputeInv
  <1> SUFFICES ASSUME Init PROVE DisputeInv
    OBVIOUS
  <1>1. 0 \in Indices /\ Last \in Indices /\ 0 < Last /\ 0 \in 0 .. Window + 1
    BY LengthAssumption, WindowAssumption DEF Indices
  <1>2. NewDispute \in Disputes /\ NoOutcome \in Outcomes
    BY <1>1 DEF NewDispute, Disputes, NoOutcome, Outcomes
  <1>3. TypeOK
    BY <1>1, <1>2, EndowmentAssumption, ScenariosAssumption DEF Init, TypeOK
  <1>4. ASSUME NEW x \in Challenges PROVE GameOK(x)
    <2>1. game[x].lo = 0 /\ game[x].hi = Last
      BY DEF Init, NewDispute
    <2> QED BY <1>1, <2>1 DEF GameOK, wellFounded
  <1>5. BondsAreCovered
    BY RecordShape DEF Init, BondsAreCovered
  <1>6. FaithfulTraceWinsTheStep /\ OnlyTheSilentForfeit
    BY DEF Init, NoOutcome, FaithfulTraceWinsTheStep, OnlyTheSilentForfeit
  <1>7. DecidedWerePosted
    BY DEF Init, DecidedWerePosted
  <1> QED BY <1>3, <1>4, <1>5, <1>6, <1>7 DEF DisputeInv

\* Decide is the only step that writes an outcome; what it leaves alone.
LEMMA DecideEffect ==
    ASSUME TypeOK, NEW x \in Challenges, NEW winner \in Sides,
           NEW how \in {"void", "forfeited", "adjudicated"},
           Decide(x, winner, how)
    PROVE  /\ UNCHANGED <<traces, diligent, age, posted, game, quiet>>
           /\ outcome'[x].winner = winner /\ outcome'[x].how = how
           /\ \A y \in Challenges \ {x} : outcome'[y] = outcome[y]
           /\ outcome' \in [Challenges -> Outcomes]
           /\ gross' \in [Parties -> Nat]
           /\ locked' \in [Parties -> Int]
           /\ debits' \in [Parties -> Nat]
  <1>1. atStake(x, winner) \in Nat
    BY StakeShape
  <1>2. other(winner) \in Sides
    BY DEF other, Sides
  <1>3. /\ partyOf(x, winner) \in Parties /\ partyOf(x, other(winner)) \in Parties
        /\ Challenge[x].challenger \in Parties /\ Challenge[x].bond \in Nat
    BY <1>2, RecordShape
  <1>4. [winner |-> winner, how |-> how, units |-> atStake(x, winner)] \in Outcomes
    BY <1>1 DEF Outcomes
  <1> QED BY <1>1, <1>3, <1>4 DEF Decide, TypeOK

\* Every way to settle a challenge is a Decide.
LEMMA SettleIsDecide ==
    ASSUME NEW x \in Challenges, SettleChallenge(x)
    PROVE  \E winner \in Sides, how \in {"void", "forfeited", "adjudicated"} :
                Decide(x, winner, how)
  <1>1. CASE SettleVoid(x)
    BY <1>1 DEF SettleVoid, Sides
  <1>2. CASE SettleForfeit(x)
    BY <1>2 DEF SettleForfeit, Sides, other
  <1>3. CASE SettleByStepping(x)
    BY <1>3 DEF SettleByStepping, Sides, decide
  <1> QED BY <1>1, <1>2, <1>3 DEF SettleChallenge

LEMMA TypeStep == DisputeInv /\ [Next]_vars => TypeOK'
  <1> SUFFICES ASSUME DisputeInv, [Next]_vars PROVE TypeOK'
    OBVIOUS
  <1>1. TypeOK /\ \A x \in Challenges : GameOK(x)
    BY DEF DisputeInv
  <1>2. 0 \in 0 .. Window + 1
    BY WindowAssumption
  <1>3. ASSUME NEW x \in Challenges, PostChallenge(x) PROVE TypeOK'
    BY <1>1, <1>2, <1>3, RecordShape DEF PostChallenge, TypeOK
  <1>4. ASSUME NEW x \in Challenges, NEW side \in Sides, NEW index \in {0, Last},
               OpenEndpoint(x, side, index)
        PROVE  TypeOK'
    <2>1. index \in Indices
      BY LengthAssumption DEF Indices
    <2>2. [game[x] EXCEPT !.opened = @ \cup {<<index, side>>}] \in Disputes
      BY <1>1, <2>1 DEF TypeOK, Disputes
    <2>3. game' \in [Challenges -> Disputes]
      BY <1>1, <1>4, <2>2 DEF OpenEndpoint, TypeOK
    <2> QED BY <1>1, <1>2, <1>4, <2>3 DEF OpenEndpoint, TypeOK, money
  <1>5. ASSUME NEW x \in Challenges, NEW side \in Sides, Answer(x, side)
        PROVE  TypeOK'
    <2>1. game'[x] \in Disputes
      BY <1>1, <1>5, PlayKeepsGame DEF Answer
    <2>2. game' \in [Challenges -> Disputes]
      BY <1>1, <1>5, <2>1 DEF Answer, TypeOK
    <2> QED BY <1>1, <1>2, <1>5, <2>2 DEF Answer, TypeOK, money
  <1>6. ASSUME NEW x \in Challenges, SettleChallenge(x) PROVE TypeOK'
    BY <1>1, <1>6, SettleIsDecide, DecideEffect DEF TypeOK
  <1>7. ASSUME NEW p \in Spenders, Charge(p, 1) PROVE TypeOK'
    BY <1>1, <1>7, EndowmentAssumption DEF Charge, TypeOK
  <1>8. CASE AdvanceEpoch
    BY <1>1, <1>8, OlderShape DEF AdvanceEpoch, TypeOK, money
  <1>9. CASE UNCHANGED vars
    BY <1>1, <1>9 DEF vars, money, TypeOK
  <1> QED BY <1>3, <1>4, <1>5, <1>6, <1>7, <1>8, <1>9 DEF Next, SettleChallenge

LEMMA GameStep ==
    DisputeInv /\ [Next]_vars => \A x \in Challenges : GameOK(x)'
  <1> SUFFICES ASSUME DisputeInv, [Next]_vars, NEW y \in Challenges
               PROVE  GameOK(y)'
    OBVIOUS
  <1>1. TypeOK /\ GameOK(y)
    BY DEF DisputeInv
  <1>2. ASSUME NEW x \in Challenges, NEW side \in Sides, NEW index \in {0, Last},
               OpenEndpoint(x, side, index)
        PROVE  GameOK(y)'
    <2>1. tracesOf(y)' = tracesOf(y)
      BY <1>2 DEF OpenEndpoint, tracesOf
    <2>2. /\ game'[y].lo = game[y].lo /\ game'[y].hi = game[y].hi
          /\ game[y].opened \subseteq game'[y].opened
      BY <1>1, <1>2 DEF OpenEndpoint, TypeOK, Disputes
    <2> QED BY <1>1, <2>1, <2>2 DEF GameOK
  <1>3. ASSUME NEW x \in Challenges, NEW side \in Sides, Answer(x, side)
        PROVE  GameOK(y)'
    <2>1. CASE x = y
      BY <1>1, <1>3, <2>1, PlayKeepsGame DEF Answer
    <2>2. CASE x # y
      <3>1. game'[y] = game[y] /\ tracesOf(y)' = tracesOf(y)
        BY <1>1, <1>3, <2>2 DEF Answer, TypeOK, tracesOf
      <3> QED BY <1>1, <3>1 DEF GameOK
    <2> QED BY <2>1, <2>2
  <1>4. ASSUME NEW x \in Challenges, SettleChallenge(x) PROVE GameOK(y)'
    BY <1>1, <1>4, SettleIsDecide, DecideEffect, SameGame
  <1>5. CASE UNCHANGED <<traces, game>>
    BY <1>1, <1>5, SameGame
  <1> QED
    BY <1>2, <1>3, <1>4, <1>5
    DEF Next, SettleChallenge, PostChallenge, Charge, AdvanceEpoch, vars

LEMMA BondsStep == DisputeInv /\ [Next]_vars => BondsAreCovered'
  <1> SUFFICES ASSUME DisputeInv, [Next]_vars, NEW q \in Parties
               PROVE  locked'[q] + debits'[q] <= gross'[q]
    BY DEF BondsAreCovered
  <1>1. /\ TypeOK /\ BondsAreCovered
        /\ locked[q] + debits[q] <= gross[q]
        /\ locked[q] \in Int /\ debits[q] \in Nat /\ gross[q] \in Nat
    BY DEF DisputeInv, BondsAreCovered, TypeOK
  <1>2. ASSUME NEW x \in Challenges, PostChallenge(x)
        PROVE  locked'[q] + debits'[q] <= gross'[q]
    <2>1. /\ Challenge[x].bond <= held(Challenge[x].challenger)
          /\ debits' = debits /\ gross' = gross
          /\ locked'[q] = IF q = Challenge[x].challenger
                          THEN locked[q] + Challenge[x].bond ELSE locked[q]
      BY <1>1, <1>2 DEF PostChallenge, TypeOK
    <2>2. held(q) = gross[q] - (locked[q] + debits[q])
      BY <1>1 DEF held
    <2> QED BY <1>1, <2>1, <2>2, RecordShape
  <1>3. ASSUME NEW x \in Challenges, SettleChallenge(x)
        PROVE  locked'[q] + debits'[q] <= gross'[q]
    <2>1. PICK winner \in Sides, how \in {"void", "forfeited", "adjudicated"} :
                Decide(x, winner, how)
      BY <1>3, SettleIsDecide
    <2> DEFINE u == atStake(x, winner)
               won == partyOf(x, winner)
               lost == partyOf(x, other(winner))
               c == Challenge[x].challenger
               b == Challenge[x].bond
    <2>2. /\ u \in Nat
          /\ winner = "defender" => u = b
          /\ winner = "challenger" =>
                u <= gross[claimOf(x).submitter]
                        - (locked[claimOf(x).submitter]
                            + debits[claimOf(x).submitter])
      BY <1>1, StakeShape
    <2>3. /\ gross'[q] = IF q = won THEN gross[q] + u ELSE gross[q]
          /\ debits'[q] = IF q = lost THEN debits[q] + u ELSE debits[q]
          /\ locked'[q] = IF q = c THEN locked[q] - b ELSE locked[q]
      BY <1>1, <2>1 DEF Decide, TypeOK
    <2>4. b \in Nat
      BY RecordShape
    <2>5. winner = "defender" => lost = c
      BY DEF partyOf, other
    <2>6. winner = "challenger" => won = c /\ lost = claimOf(x).submitter
      BY DEF partyOf, other
    <2>7. winner = "defender" \/ winner = "challenger"
      BY DEF Sides
    <2> HIDE DEF u, won, lost, c, b
    <2>8. CASE winner = "defender"
      BY <1>1, <2>2, <2>3, <2>4, <2>5, <2>8
    <2>9. CASE winner = "challenger"
      BY <1>1, <2>2, <2>3, <2>4, <2>6, <2>9
    <2> QED BY <2>7, <2>8, <2>9
  <1>4. ASSUME NEW p \in Spenders, Charge(p, 1)
        PROVE  locked'[q] + debits'[q] <= gross'[q]
    <2>1. /\ 1 <= held(p) /\ locked' = locked /\ gross' = gross
          /\ debits'[q] = IF q = p THEN debits[q] + 1 ELSE debits[q]
      BY <1>1, <1>4, EndowmentAssumption DEF Charge, TypeOK
    <2>2. held(q) = gross[q] - (locked[q] + debits[q])
      BY <1>1 DEF held
    <2> QED BY <1>1, <2>1, <2>2
  <1>5. CASE UNCHANGED money
    BY <1>1, <1>5 DEF money
  <1> QED
    BY <1>2, <1>3, <1>4, <1>5
    DEF Next, SettleChallenge, OpenEndpoint, Answer, AdvanceEpoch, vars

\* The disputed step decides for a side that executed it.
LEMMA StepIsJust ==
    ASSUME TypeOK, NEW x \in Challenges, GameOK(x), phase(x) = "adjudicate",
           NEW side \in Sides, faithful(tracesOf(x)[side])
    PROVE  decide(game[x], tracesOf(x)) = side
  <1> DEFINE d == game[x]
             t == tracesOf(x)
  <1>1. narrowed(d) /\ wellFounded(t)
    BY DEF phase
  <1>2. /\ d.lo < d.hi
        /\ t["defender"][d.lo] = t["challenger"][d.lo]
        /\ t["defender"][d.hi] # t["challenger"][d.hi]
    BY <1>1 DEF GameOK
  <1>3. d.lo \in Indices /\ d.hi \in Indices
    BY DEF TypeOK, Disputes
  <1>4. d.hi = d.lo + 1 /\ d.lo \in 0 .. Last - 1
    BY <1>1, <1>2, <1>3, LengthAssumption DEF narrowed, Indices
  <1>5. t[side][d.lo + 1] = Step[t[side][d.lo]]
    BY <1>4 DEF faithful
  <1>6. side = "defender" \/ side = "challenger"
    BY DEF Sides
  <1> HIDE DEF d, t
  <1>7. decide(d, t) = side
    BY <1>2, <1>4, <1>5, <1>6 DEF decide
  <1> QED BY <1>7 DEF d, t

LEMMA FaithfulStep == DisputeInv /\ [Next]_vars => FaithfulTraceWinsTheStep'
  <1> SUFFICES ASSUME DisputeInv, [Next]_vars, NEW y \in Challenges,
                      NEW side \in Sides, outcome'[y].how = "adjudicated",
                      faithful(tracesOf(y)[side])'
               PROVE  outcome'[y].winner = side
    BY DEF FaithfulTraceWinsTheStep
  <1>1. TypeOK /\ GameOK(y) /\ FaithfulTraceWinsTheStep
    BY DEF DisputeInv
  <1>2. UNCHANGED traces
    BY DEF Next, PostChallenge, OpenEndpoint, Answer, SettleVoid, SettleForfeit,
           SettleByStepping, Decide, Charge, AdvanceEpoch, vars
  <1>3. faithful(tracesOf(y)[side])
    BY <1>2 DEF faithful, tracesOf
  <1>4. CASE outcome'[y] = outcome[y]
    BY <1>1, <1>3, <1>4 DEF FaithfulTraceWinsTheStep
  <1>5. ASSUME NEW x \in Challenges, SettleChallenge(x)
        PROVE  outcome'[y].winner = side
    <2>1. CASE x # y
      BY <1>1, <1>4, <1>5, <2>1, SettleIsDecide, DecideEffect
    <2>2. CASE x = y
      <3>1. CASE SettleVoid(y)
        BY <1>1, <3>1, DecideEffect DEF SettleVoid, Sides
      <3>2. CASE SettleForfeit(y)
        <4>1. PICK winner \in Sides : Decide(y, winner, "forfeited")
          BY <3>2 DEF SettleForfeit, other, Sides
        <4> QED BY <1>1, <4>1, DecideEffect
      <3>3. CASE SettleByStepping(y)
        <4>1. decide(game[y], tracesOf(y)) = side /\ phase(y) = "adjudicate"
          BY <1>1, <1>3, <3>3, StepIsJust DEF SettleByStepping
        <4>2. Decide(y, side, "adjudicated")
          BY <3>3, <4>1 DEF SettleByStepping
        <4> QED BY <1>1, <4>2, DecideEffect
      <3> QED BY <1>5, <2>2, <3>1, <3>2, <3>3 DEF SettleChallenge
    <2> QED BY <2>1, <2>2
  <1>6. CASE UNCHANGED outcome
    BY <1>4, <1>6
  <1> QED
    BY <1>5, <1>6
    DEF Next, SettleChallenge, PostChallenge, OpenEndpoint, Answer, Charge,
        AdvanceEpoch, vars

\* The side a forfeit is called on, at the time it is called.
LEMMA OverdueOwes ==
    ASSUME TypeOK, NEW x \in Challenges, NEW side \in overdue(x)
    PROVE  /\ side \in Sides /\ side \in owes(x) /\ quiet[x] > Window
           /\ \/ other(side) \notin owes(x)
              \/ side = "challenger" /\ game[x].opened = {}
  <1>1. quiet[x] \in 0 .. Window + 1
    BY DEF TypeOK
  <1>2. quiet[x] > Window
    BY <1>1, WindowAssumption DEF overdue
  <1>3. owes(x) \subseteq Sides
    BY DEF owes, missing, Ends, waitingOn
  <1>4. CASE Cardinality(owes(x)) = 1
    <2>1. side \in owes(x)
      BY <1>4 DEF overdue
    <2>2. IsFiniteSet(Sides)
      <3>1. IsFiniteSet({"challenger"})
        BY FS_Singleton
      <3>2. Sides = {"challenger"} \cup {"defender"}
        BY DEF Sides
      <3> QED BY <3>1, <3>2, FS_AddElement
    <2>3. IsFiniteSet(owes(x))
      BY <1>3, <2>2, FS_Subset
    <2>4. PICK s : owes(x) = {s}
      BY <1>4, <2>3, FS_Singleton
    <2>5. other(side) # side
      BY DEF other
    <2> QED BY <1>2, <1>3, <2>1, <2>4, <2>5
  <1>5. CASE Cardinality(owes(x)) # 1
    BY <1>2, <1>3, <1>5 DEF overdue, Sides
  <1> QED BY <1>4, <1>5

LEMMA SilentStep == DisputeInv /\ [Next]_vars => OnlyTheSilentForfeit'
  <1> SUFFICES ASSUME DisputeInv, [Next]_vars, NEW y \in Challenges,
                      outcome'[y].how = "forfeited"
               PROVE  /\ other(outcome'[y].winner) \in owes(y)'
                      /\ quiet'[y] > Window
                      /\ \/ outcome'[y].winner \notin owes(y)'
                         \/ outcome'[y].winner = "defender"
                            /\ game'[y].opened = {}
    BY DEF OnlyTheSilentForfeit
  <1> DEFINE Silent ==
        /\ other(outcome[y].winner) \in owes(y)
        /\ quiet[y] > Window
        /\ \/ outcome[y].winner \notin owes(y)
           \/ outcome[y].winner = "defender" /\ game[y].opened = {}
  <1>1. TypeOK /\ OnlyTheSilentForfeit /\ quiet[y] \in 0 .. Window + 1
    BY DEF DisputeInv, TypeOK
  <1>2. outcome[y].how = "forfeited" => Silent /\ outcome[y] # NoOutcome
    BY <1>1 DEF OnlyTheSilentForfeit, NoOutcome
  <1> HIDE DEF Silent
  \* A decided dispute stays as it was decided, but for the time that passes.
  <1>3. CASE /\ outcome'[y] = outcome[y] /\ owes(y)' = owes(y)
             /\ game'[y] = game[y] /\ quiet[y] <= quiet'[y]
             /\ quiet'[y] \in Int
    <2>1. Silent
      BY <1>2, <1>3
    <2>2. quiet'[y] > Window
      BY <1>1, <1>3, <2>1, WindowAssumption DEF Silent
    <2> QED BY <1>3, <2>1, <2>2 DEF Silent
  <1>4. UNCHANGED traces
    BY DEF Next, PostChallenge, OpenEndpoint, Answer, SettleVoid, SettleForfeit,
           SettleByStepping, Decide, Charge, AdvanceEpoch, vars
  <1>5. game'[y] = game[y] => owes(y)' = owes(y)
    BY <1>4 DEF owes, phase, tracesOf
  <1>6. ASSUME NEW x \in Challenges, PostChallenge(x)
        PROVE  x # y \/ outcome[y].how # "forfeited"
    BY <1>2, <1>6 DEF PostChallenge, DisputeInv, DecidedWerePosted
  <1>7. CASE outcome[y].how = "forfeited" /\ ~\E x \in Challenges : SettleChallenge(x)
    <2>1. outcome[y] # NoOutcome
      BY <1>2, <1>7
    <2>2. outcome' = outcome
      BY <1>7 DEF Next, SettleChallenge, PostChallenge, OpenEndpoint, Answer,
                  Charge, AdvanceEpoch, vars
    <2>3. game'[y] = game[y]
      BY <1>1, <1>7, <2>1 DEF Next, SettleChallenge, PostChallenge, OpenEndpoint,
                  Answer, Charge, AdvanceEpoch, vars, TypeOK
    <2>4. CASE AdvanceEpoch
      <3>1. quiet'[y] = quiet[y] \/ quiet'[y] = older(quiet[y])
        BY <2>4 DEF AdvanceEpoch
      <3>2. quiet[y] <= quiet'[y] /\ quiet'[y] \in Int
        BY <1>1, <3>1, OlderShape, WindowAssumption
      <3> QED BY <1>3, <1>5, <2>2, <2>3, <3>2
    <2>5. CASE ~AdvanceEpoch
      <3>1. quiet'[y] = quiet[y]
        BY <1>1, <1>6, <1>7, <2>1, <2>5
        DEF Next, SettleChallenge, PostChallenge, OpenEndpoint, Answer, Charge,
            vars, TypeOK
      <3>2. quiet[y] <= quiet'[y] /\ quiet'[y] \in Int
        BY <1>1, <3>1, WindowAssumption
      <3> QED BY <1>3, <1>5, <2>2, <2>3, <3>2
    <2> QED BY <2>4, <2>5
  <1>8. ASSUME NEW x \in Challenges, SettleChallenge(x)
        PROVE  /\ other(outcome'[y].winner) \in owes(y)'
               /\ quiet'[y] > Window
               /\ \/ outcome'[y].winner \notin owes(y)'
                  \/ outcome'[y].winner = "defender" /\ game'[y].opened = {}
    <2>1. UNCHANGED <<game, quiet>>
      BY <1>1, <1>8, SettleIsDecide, DecideEffect
    <2>2. CASE x # y
      <3>1. outcome'[y] = outcome[y]
        BY <1>1, <1>8, <2>2, SettleIsDecide, DecideEffect
      <3> QED BY <1>1, <1>3, <1>5, <2>1, <3>1, WindowAssumption
    <2>3. CASE x = y
      <3>1. SettleForfeit(y)
        BY <1>1, <1>8, <2>3, DecideEffect
        DEF SettleChallenge, SettleVoid, SettleByStepping, Sides, decide
      <3>2. PICK side \in overdue(y) : Decide(y, other(side), "forfeited")
        BY <3>1 DEF SettleForfeit
      <3>3. /\ side \in Sides /\ side \in owes(y) /\ quiet[y] > Window
            /\ \/ other(side) \notin owes(y)
               \/ side = "challenger" /\ game[y].opened = {}
        BY <1>1, OverdueOwes
      <3>4. other(side) \in Sides /\ other(other(side)) = side
        BY <3>3 DEF other, Sides
      <3>5. outcome'[y].winner = other(side)
        BY <1>1, <3>2, <3>4, DecideEffect
      <3> QED BY <1>5, <2>1, <3>3, <3>4, <3>5 DEF other
    <2> QED BY <2>2, <2>3
  <1>9. ~(\E x \in Challenges : SettleChallenge(x)) => outcome' = outcome
    BY DEF Next, SettleChallenge, PostChallenge, OpenEndpoint, Answer, Charge,
           AdvanceEpoch, vars
  <1> QED BY <1>7, <1>8, <1>9

LEMMA PostedStep == DisputeInv /\ [Next]_vars => DecidedWerePosted'
  <1> SUFFICES ASSUME DisputeInv, [Next]_vars, NEW y \in Challenges
               PROVE  outcome'[y] # NoOutcome => y \in posted'
    BY DEF DecidedWerePosted
  <1>1. TypeOK /\ DecidedWerePosted
    BY DEF DisputeInv
  <1>2. CASE outcome'[y] = outcome[y] /\ posted \subseteq posted'
    BY <1>1, <1>2 DEF DecidedWerePosted
  <1>3. ASSUME NEW x \in Challenges, SettleChallenge(x)
        PROVE  outcome'[y] # NoOutcome => y \in posted'
    <2>1. UNCHANGED posted /\ (x # y => outcome'[y] = outcome[y])
      BY <1>1, <1>3, SettleIsDecide, DecideEffect
    <2>2. x \in posted
      BY <1>3 DEF SettleChallenge, SettleVoid, SettleForfeit, SettleByStepping,
                  Decide
    <2> QED BY <1>2, <2>1, <2>2
  <1> QED
    BY <1>2, <1>3
    DEF Next, SettleChallenge, PostChallenge, OpenEndpoint, Answer, Charge,
        AdvanceEpoch, vars
-----------------------------------------------------------------------------
\* DisputeInv is inductive (node.rs post_challenge, post_bisection,
\* settle_challenge): whatever the parties do, the search, the decided step,
\* the forfeits and the bonds keep their invariants together.
THEOREM DisputeInvariant == Spec => []DisputeInv
  <1>1. Init => DisputeInv
    BY DisputeInit
  <1>2. DisputeInv /\ [Next]_vars => DisputeInv'
    BY TypeStep, GameStep, BondsStep, FaithfulStep, SilentStep, PostedStep
    DEF DisputeInv
  <1> QED BY <1>1, <1>2, PTL DEF Spec

\* A dispute that is played is agreed at lo and disagreed at hi, by states that
\* both sides have opened (challenge.rs Dispute::open, play).
THEOREM SearchSound == Spec => []SearchInvariant
  <1>1. DisputeInv => SearchInvariant
    <2> SUFFICES ASSUME DisputeInv, NEW x \in Challenges,
                        phase(x) \in {"open", "adjudicate"}
                 PROVE  /\ game[x].lo < game[x].hi
                        /\ ({game[x].lo, game[x].hi} \X Sides) \subseteq game[x].opened
                        /\ tracesOf(x)["defender"][game[x].lo]
                                = tracesOf(x)["challenger"][game[x].lo]
                        /\ tracesOf(x)["defender"][game[x].hi]
                                # tracesOf(x)["challenger"][game[x].hi]
      BY DEF SearchInvariant
    <2>1. GameOK(x)
      BY DEF DisputeInv
    <2>2. wellFounded(tracesOf(x)) /\ missing(game[x]) = {}
      BY DEF phase
    <2>3. ({0, Last} \X Sides) \subseteq game[x].opened
      BY <2>2 DEF missing, Ends
    <2> QED BY <2>1, <2>2, <2>3 DEF GameOK
  <1> QED BY <1>1, DisputeInvariant, PTL

\* Whoever committed to a true execution wins the step that is run
\* (challenge.rs decide).
THEOREM FaithfulWins == Spec => []FaithfulTraceWinsTheStep
  <1>1. DisputeInv => FaithfulTraceWinsTheStep
    BY DEF DisputeInv
  <1> QED BY <1>1, DisputeInvariant, PTL

\* A forfeit is only ever held against the side that was silent (node.rs
\* overdue).
THEOREM SilenceForfeits == Spec => []OnlyTheSilentForfeit
  <1>1. DisputeInv => OnlyTheSilentForfeit
    BY DEF DisputeInv
  <1> QED BY <1>1, DisputeInvariant, PTL

\* Bonds and losses never exceed what an identity has, so balances_within's
\* saturating subtraction never saturates (node.rs).
THEOREM BondsCovered == Spec => []BondsAreCovered
  <1>1. DisputeInv => BondsAreCovered
    BY DEF DisputeInv
  <1> QED BY <1>1, DisputeInvariant, PTL
=============================================================================
