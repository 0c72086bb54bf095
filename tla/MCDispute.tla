------------------------------ MODULE MCDispute ------------------------------
(***************************************************************************)
(* Small instances of Dispute for TLC.  The computation counts modulo      *)
(* three.                                                                  *)
(***************************************************************************)
EXTENDS Dispute, TLC

Counting == [s \in States |-> (s + 1) % 3]

\* The execution from a state, and traces that leave it: `t' lies from index k
\* on, by an offset that the rest of the trace carries along.
Run(start)   == [i \in Indices |-> (start + i) % 3]
Lie(t, k, o) == [i \in Indices |-> IF i < k THEN t[i] ELSE (t[i] + o) % 3]
\* One wrong state; the trace rejoins the execution after it.
Slip(t, k)   == [t EXCEPT ![k] = (@ + 1) % 3]

Execution == Run(0)

\* The first dispute: a right defence, a defence and an objection
\* that are both wrong, two starts, and a defence that rejoins the execution.
\* The second: an honest objection against a late lie.
CrossScenarios ==
    {[claim |-> 1 :> pair[1] @@ 2 :> Lie(Execution, Last, 1),
      challenge |-> 1 :> pair[2] @@ 2 :> Execution] :
        pair \in {<<Execution, Lie(Execution, 1, 1)>>,
                  <<Lie(Execution, 2, 1), Lie(Execution, 2, 2)>>,
                  <<Lie(Execution, 0, 1), Execution>>,
                  <<Slip(Execution, 2), Execution>>}}

\* `a' and `b' challenge each other's claim.
CrossClaims ==
    1 :> [submitter |-> "a", reward |-> 2, paid |-> 2] @@
    2 :> [submitter |-> "b", reward |-> 1, paid |-> 1]
CrossChallenges ==
    1 :> [claim |-> 1, challenger |-> "b", bond |-> 1] @@
    2 :> [claim |-> 2, challenger |-> "a", bond |-> 1]
CrossEndowment == "a" :> 1 @@ "b" :> 1
-----------------------------------------------------------------------------
(* Two challengers of one claim: the defence is wrong, one objection is right  *)
(* and the other wrong in another way.                                       *)
PairScenarios ==
    {[claim |-> 1 :> Lie(Execution, 1, 1),
      challenge |-> 1 :> Execution @@ 2 :> Lie(Execution, 1, 2)]}
PairClaims == 1 :> [submitter |-> "a", reward |-> 2, paid |-> 2]
PairChallenges ==
    1 :> [claim |-> 1, challenger |-> "b", bond |-> 1] @@
    2 :> [claim |-> 1, challenger |-> "c", bond |-> 1]
PairEndowment == "a" :> 5 @@ "b" :> 1 @@ "c" :> 1
=============================================================================
