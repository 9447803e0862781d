------------------------- MODULE MCConfigCommands -------------------------
(* Small command lines, checkouts and configurations for ConfigCommands.   *)
EXTENDS ConfigCommands

CONSTANTS a1, a2, f1, f2

Map(a, s, r) == [kind |-> "map", anchor |-> a, seeds |-> s, replace |-> r]

\* Every command line over the anchors and up to two seeds in either order.
MCRequests ==
  {[kind |-> "init"]} \union
  {Map(a, s, r) : a \in Anchors, r \in BOOLEAN,
                  s \in {t \in SeqOf(Files, 2) : t # <<>> /\ IsInjective(t)}}

\* Every checkout that the assumption on checkouts allows.
MCCheckouts ==
  {c \in [roots : BOOLEAN,
          index : BOOLEAN,
          specs : [Anchors -> {"active", "draft", "missing"}],
          files : [Files -> {"file", "missing", "inaccessible"}],
          tree  : {"ok", "undiscoverable", "unparsable"}] :
     c.tree # "undiscoverable" => \A f \in Files : c.files[f] # "inaccessible"}

\* Two checkouts to race over: all is well, or the spec of a2 is still a draft.
Fine == [roots |-> TRUE, index |-> TRUE, specs |-> [a \in Anchors |-> "active"],
         files |-> [f \in Files |-> "file"], tree |-> "ok"]
MCRacedCheckouts == {Fine, [Fine EXCEPT !.specs = [a \in Anchors |->
                                   IF a = a2 THEN "draft" ELSE "active"]]}

\* Every configuration, for the exclusive runs; a few to race over.
MCConfigs == Mappings \union {Absent, Invalid}
MCRacedConfigs ==
  {Absent, Invalid, [a \in Anchors |-> None],
   [a \in Anchors |-> IF a = a1 THEN {f1} ELSE None]}
MCRacedRequests ==
  {[kind |-> "init"]} \union {Map(a, <<f>>, r) : a \in Anchors, f \in Files, r \in BOOLEAN}
=============================================================================
