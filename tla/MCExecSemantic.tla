---------------------------- MODULE MCExecSemantic ----------------------------
(* Two files, either of which may be parsed to no, one or two programs.        *)
EXTENDS ExecSemantic

TwoFiles == <<"a", "b">>
=============================================================================
