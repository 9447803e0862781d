------------------------- MODULE MCScaffoldAnchors -------------------------
(* Small code bases for ScaffoldAnchors: up to three exports, of two kinds,  *)
(* of the module M and of a module whose name looks like a suffix of M.      *)
EXTENDS ScaffoldAnchors, SequencesExt

M == <<"M", 0>>
MCKinds == {"function", "type"}
MCIds   == {<<M>>, <<M, <<"type", 1>>>>}

MCCodes == {{[base |-> s[i][1], kind |-> s[i][2], place |-> i] : i \in DOMAIN s} :
              s \in SeqOf(MCIds \X MCKinds, 3)}
MCSpecs == SUBSET (MCIds \union {<<M, <<"type", 2>>>>, <<M, <<"function", 1>>>>})
=============================================================================
