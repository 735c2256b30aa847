------------------------------ MODULE CoverTable ------------------------------
(* What the table of syz-execprog -semantic promises, whatever order the pool   *)
(* executes programs in and locks rows in: first the programs give coverage,    *)
(* then the reversed programs, and the table saved in the end is made in one     *)
(* piece of all that was given.                                                *)

CONSTANT Names          \* the files of the directory

VARIABLES
    given,              \* the phases and names that gave coverage
    stage,              \* "origin", "reverse", "saved" or "fatal"
    table               \* the coverages each name is saved with

CovTypes == {"origin", "reverse"}

(* A name is in the table if its program gave coverage; what its reversed program *)
(* gave is then beside it, and nowhere otherwise.                              *)
TableOf(results) ==
    [name \in Names |-> IF <<"origin", name>> \in results
                        THEN {covType \in CovTypes : <<covType, name>> \in results}
                        ELSE {}]

TableInit == given = {} /\ stage = "origin" /\ table = [name \in Names |-> {}]

Gives(name) ==
    /\ stage \in CovTypes
    /\ given' = given \cup {<<stage, name>>}
    /\ UNCHANGED <<stage, table>>

Turns == stage = "origin" /\ stage' = "reverse" /\ UNCHANGED <<given, table>>
Saves == stage = "reverse" /\ stage' = "saved" /\ table' = TableOf(given) /\ UNCHANGED given
Exits == stage \in CovTypes /\ stage' = "fatal" /\ UNCHANGED <<given, table>>

TableNext == (\E name \in Names : Gives(name)) \/ Turns \/ Saves \/ Exits

TableSpec == TableInit /\ [][TableNext]_<<given, stage, table>>
=============================================================================
