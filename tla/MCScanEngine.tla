--------------------------- MODULE MCScanEngine ---------------------------
(* Inputs of ScanEngine for model checking.                                *)
EXTENDS ScanEngine

CONSTANTS f1, f2, f3, a1

\* One anchor and every graph over the product files: all shapes of cycles, and
\* targets that are no product file.
Graphs ==
  {in \in [mappings      : {m \in [Anchors -> ((SUBSET Files) \ {{}}) \union {None}] :
                             \A a \in Anchors \ {a1} : m[a] = None},
           status        : {[a \in Anchors |-> IF a = a1 THEN "active" ELSE "missing"]},
           product       : {Files, Files \ {f3}},
           edges         : [Files -> SUBSET Files],
           graphFindings : {{}}] :
     \A f \in Files \ in.product : in.edges[f] = {}}

\* Two anchors in every state, every seeding, few files.
Mappings2 ==
  {in \in [mappings      : [Anchors -> ((SUBSET Files) \ {{}}) \union {None}],
           status        : [Anchors -> {"active", "draft", "missing"}],
           product       : {Files \ {f3}, {f1}, Files},
           edges         : [Files -> {{}, {f1}, {f1, f2}}],
           graphFindings : {{}, {<<"static_edge", f1>>}}] :
     \A f \in Files \ in.product : in.edges[f] = {}}

MCInputs == Graphs \union Mappings2
=============================================================================
