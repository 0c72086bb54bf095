-------------------------------- MODULE Pool ---------------------------------
(***************************************************************************)
(* What settlement promises of an objective's money, with no log, epoch,   *)
(* rank or verifier in it: a posted objective is a pool, each claim draws  *)
(* from its objective's pool at most once, and a draw never exceeds what   *)
(* is left.  Settlement implements this module.                            *)
(***************************************************************************)
EXTENDS Integers

CONSTANTS
    Objectives,
    Claims,
    reward,      \* what each objective's pool holds when it is posted
    objective    \* the objective a claim is made against

VARIABLES
    open,   \* objectives whose pools exist
    paid,   \* claims that have drawn
    spent   \* what has been drawn from each pool

vars == <<open, paid, spent>>

Init == open = {} /\ paid = {} /\ spent = [o \in Objectives |-> 0]

Post(o) == o \notin open /\ open' = open \cup {o} /\ UNCHANGED <<paid, spent>>

Draw(c) ==
    LET o == objective[c] IN
    /\ o \in open /\ c \notin paid
    /\ \E amount \in 0 .. (reward[o] - spent[o]) :
            spent' = [spent EXCEPT ![o] = @ + amount]
    /\ paid' = paid \cup {c}
    /\ open' = open

Next == (\E o \in Objectives : Post(o)) \/ (\E c \in Claims : Draw(c))

Spec == Init /\ [][Next]_vars
=============================================================================
