--------------------------- MODULE RunLiveScan ---------------------------
(***************************************************************************)
(* All of runLiveScan of src/cli/commands.ts: what LiveScan reads from the *)
(* tree is handed to runScanEngine, which is ScanEngine.  The mappings are *)
(* those of the configuration, which is read once, at the start.           *)
(***************************************************************************)
EXTENDS LiveScan

CONSTANT Mappings   \* the mappings considered, as anchormap.yaml stores them

Stores == [Anchors -> ((SUBSET Paths) \ {{}}) \union {None}]

ASSUME RunAssumption == IsFiniteSet(Anchors) /\ Mappings \subseteq Stores

VARIABLES
  mappings,            \* config.mappings
  part,                \* the part of runScanEngine, idle before it is called
  todo, state, current, queued, reached, reachedBy,
  observed, covering, metrics, summary, findings

engine == <<part, todo, state, current, queued, reached, reachedBy,
            observed, covering, metrics, summary, findings>>

\* What runScanEngine may be called with.
EngineInputs ==
  [mappings      : Stores,
   status        : [Anchors -> {"active", "draft", "missing"}],
   product       : SUBSET Paths,
   edges         : [Paths -> SUBSET Paths],
   graphFindings : SUBSET ({"static_edge"} \X Paths)]

\* Mutation: the anchors of drafts are handed over as active ones.
EngineInputWithDrafts ==
  [mappings      |-> mappings,
   status        |-> [a \in Anchors |-> IF index[a] = "draft" THEN "active" ELSE index[a]],
   product       |-> product,
   edges         |-> edges,
   graphFindings |-> {<<"static_edge", x[1]>> : x \in graphFindings}]

\* What it is called with.
EngineInput ==
  [mappings      |-> mappings,
   status        |-> index,
   product       |-> product,
   edges         |-> edges,
   graphFindings |-> {<<"static_edge", x[1]>> : x \in graphFindings}]

Engine == INSTANCE ScanEngine
            WITH Files <- Paths, Inputs <- EngineInputs, input <- EngineInput, pc <- part

RunInit ==
  /\ Init
  /\ mappings \in Mappings
  /\ part = "idle" /\ todo = {} /\ state = [a \in Anchors |-> "none"]
  /\ current = None /\ queued = {} /\ reached = {}
  /\ reachedBy = [a \in Anchors |-> {}]
  /\ observed = [a \in Anchors |-> "none"]
  /\ covering = [f \in Paths |-> {}]
  /\ metrics = [a \in Anchors |-> Engine!NoMetrics]
  /\ summary = Engine!NoSummary
  /\ findings = {}

ReadTree == Next /\ UNCHANGED <<mappings, engine>>

\* The graph is built: runScanEngine is called.
CallEngine ==
  /\ exit = "ok" /\ part = "idle"
  /\ part' = "mappings"
  /\ todo' = {a \in Anchors : mappings[a] # None}
  /\ findings' = EngineInput.graphFindings
  /\ UNCHANGED <<vars, mappings, state, current, queued, reached, reachedBy,
                 observed, covering, metrics, summary>>

Compute ==
  /\ part # "idle"
  /\ UNCHANGED <<vars, mappings>>
  /\ Engine!Next

RunNext == ReadTree \/ CallEngine \/ Compute
RunSpec == RunInit /\ [][RunNext]_<<vars, mappings, engine>>

\* A run is one synchronous call, the engine included; only the tree is not its own.
OneCall == UNCHANGED tree /\ RunNext
FairRunSpec == RunSpec /\ WF_<<vars, mappings, engine>>(OneCall)

-----------------------------------------------------------------------------
(* correctness *)

\* The product files that seeds lead to in a tree: by imports of product files, around
\* cycles too (contract 9.3.5).
LedTo(t, seeds) ==
  {f \in ProductFilesOf(t) :
     \A set \in SUBSET ProductFilesOf(t) :
       /\ seeds \subseteq set
       /\ \A g \in set : EdgesOf(t)[g] \intersect ProductFilesOf(t) \subseteq set
       => f \in set}

ActiveIn(t) == {a \in Anchors : IndexOf(OccurrencesOf(t))[a] = "active"}

\* The mappings that count: of an active anchor, with product files as seeds (6.11).
CountingIn(t, m) ==
  {a \in ActiveIn(t) : m[a] # None /\ m[a] \subseteq ProductFilesOf(t)}

\* The findings of contract 11.4 for a tree and the stored mappings; untraced files are
\* reported when nothing degrades the scan and every active anchor has a mapping that
\* counts, one at least (9.3.6).
FindingsOf(t, m) ==
  LET stored   == {a \in Anchors : m[a] # None}
      counting == CountingIn(t, m)
      traced   == UNION {LedTo(t, m[a]) : a \in counting}
      sound    == /\ GraphFindingsOf(t) = {}
                  /\ stored = counting /\ ActiveIn(t) = counting /\ counting # {}
  IN  {<<"stale_mapping_anchor", a>> : a \in stored \ ActiveIn(t)}
      \union {<<"unmapped_anchor", a>> : a \in ActiveIn(t) \ stored}
      \union (UNION {{<<"broken_seed_path", a, f>> : f \in m[a] \ ProductFilesOf(t)} :
                       a \in stored \intersect ActiveIn(t)})
      \union {<<"static_edge", x[1]>> : x \in GraphFindingsOf(t)}
      \union {<<"untraced_product_file", f>> :
                f \in IF sound THEN ProductFilesOf(t) \ traced ELSE {}}

\* From the tree to the report: on a tree nobody changes, the files each mapping reaches,
\* the anchors that cover each product file and the findings are those the contract gives for
\* that tree and the stored mappings, in whatever order files are walked and read, imports
\* resolved and mappings and files visited (runLiveScan of commands.ts).
ReportExact ==
  part = "done" /\ Undisturbed =>
    LET by == [a \in Anchors |->
                 IF a \in CountingIn(tree, mappings) THEN LedTo(tree, mappings[a]) ELSE {}]
    IN  /\ reachedBy = by
        /\ \A f \in ProductFilesOf(tree) : covering[f] = {a \in Anchors : f \in by[a]}
        /\ findings = FindingsOf(tree, mappings)

\* A run ends, whatever the tree becomes meanwhile, on a cycle of extends and on import cycles
\* too: with an error, or with the report the engine makes of what was read (runLiveScan of
\* commands.ts, readTsconfigChain of tsconfig-io.ts).
RunEnds == <>(exit \in {"config", "unsupported"} \/ part = "done")
=============================================================================
