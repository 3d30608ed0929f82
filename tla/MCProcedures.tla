---------------------------- MODULE MCProcedures ----------------------------
(***************************************************************************)
(* An instance of Procedures for TLC.                                      *)
(***************************************************************************)
EXTENDS Procedures

\* Strings of up to three characters out of three.
MCStrings == UNION {[1 .. k -> {1, 2, 3}] : k \in 1 .. 3}

\* Factorials of up to three fit in a word, those of four and five do not.
MCNumbers == -2 .. 5
=============================================================================
