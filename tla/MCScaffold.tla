---------------------------- MODULE MCScaffold ----------------------------
(* Small sets of exports for Scaffold.                                     *)
EXTENDS Scaffold

\* The id of export 1 is a prefix of that of 2, as AUTH.GET is of AUTH.GET_ALL.
MCCutsOf == [a \in Exports |-> IF a = 2 THEN {1, 2} ELSE {a}]
=============================================================================
