-------------------------- MODULE MCGeneratorLoop --------------------------
(***************************************************************************)
(* GeneratorLoop with the parameters of a campaign.  Between the fastest    *)
(* and the slowest call or parse a few values stand for the rest: the       *)
(* clock only adds them up.                                                 *)
(***************************************************************************)
EXTENDS GeneratorLoop

\* fewer targets than -m, as many, more
MCSizes == {0, 19, 20, 21, MaxGen, MaxGen + 1}
=============================================================================
