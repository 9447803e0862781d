--------------------------- MODULE MCConfigWrite ---------------------------
(* Write attempts of ConfigWrite for model checking: w1 and w2 run under   *)
(* the same process id (two containers over one checkout), any other under *)
(* an id of its own.                                                       *)
EXTENDS ConfigWrite

CONSTANTS w1, w2, pidA, pidB

MCPidOf == [w \in Writers |-> IF w \in {w1, w2} THEN pidA ELSE pidB]
=============================================================================
