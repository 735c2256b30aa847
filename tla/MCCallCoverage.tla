--------------------------- MODULE MCCallCoverage ---------------------------
(***************************************************************************)
(* CallCoverage on a small instance; the rounds of the generator are not    *)
(* bounded, and need not be.                                                *)
(***************************************************************************)
EXTENDS CallCoverage
=============================================================================
