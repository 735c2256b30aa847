--------------------------- MODULE MCSeedExchange ---------------------------
(***************************************************************************)
(* SeedExchange on a small instance.  No action tells one name from another,*)
(* so the safety run takes them as symmetric; the liveness run does not.    *)
(***************************************************************************)
EXTENDS SeedExchange, TLC

NameSymmetry == Permutations(Names)
=============================================================================
