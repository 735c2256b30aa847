--------------------------- MODULE MCQueryRetry ---------------------------
(***************************************************************************)
(* QueryRetry with prompts in the proportions of the generator's: rules,    *)
(* an example and a query; a prompt whose query is too large a part of it;  *)
(* one with an empty message, one with the query alone.                     *)
(***************************************************************************)
EXTENDS QueryRetry

MCPrompts == {<<4, 20, 6>>, <<3, 0, 30, 9>>, <<2, 8>>, <<0, 5>>, <<3>>}
=============================================================================
