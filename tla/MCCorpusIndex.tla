--------------------------- MODULE MCCorpusIndex ---------------------------
(***************************************************************************)
(* CorpusIndex on a small instance: one program that uses a call twice, one *)
(* that uses both calls, one that is too long for the index.                *)
(***************************************************************************)
EXTENDS CorpusIndex

CONSTANTS c1, c2, p1, p2, p3

MCCalls == {c1, c2}
MCProgs == {p1, p2, p3}
MCUses  == [p \in MCProgs |->
              [c \in MCCalls |-> IF p = p1 THEN (IF c = c1 THEN 2 ELSE 0) ELSE 1]]
=============================================================================
