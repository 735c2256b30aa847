-------------------------- MODULE MCSeedGeneration --------------------------
(***************************************************************************)
(* SeedGeneration on a small instance.  The main loop shuffles a set of     *)
(* syscalls (any order, possibly none); one-time generation passes on what  *)
(* the user lists, so a syscall may come twice and two batches can reach    *)
(* the attempt limit.                                                       *)
(***************************************************************************)
EXTENDS SeedGeneration

CONSTANTS c1, c2

MCCalls   == {c1, c2}
MCTargets == {<<>>, <<c1, c1>>, <<c1, c2>>, <<c2, c1>>}
=============================================================================
