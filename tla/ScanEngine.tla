---------------------------- MODULE ScanEngine ----------------------------
(***************************************************************************)
(* runScanEngine of src/domain/scan-engine.ts: from the configuration, the *)
(* spec index and the product graph to the state of every mapping, the     *)
(* files each mapping reaches, the coverage of the product files, the      *)
(* metrics and the findings.                                               *)
(*                                                                         *)
(* The engine walks sorted lists; what it computes does not depend on the  *)
(* order, and the model takes mappings and queued files in any order.  The *)
(* queue is the set of the files ever queued: the loop has still to visit  *)
(* those it has not reached.                                               *)
(***************************************************************************)
EXTENDS Naturals, FiniteSets, FiniteSetsExt

CONSTANTS
  Anchors,    \* anchor ids
  Files,      \* paths that may be product files or seeds
  Inputs,     \* the inputs considered, see InputType
  None        \* no mapping, no anchor

\* mappings: the seeds anchormap.yaml stores.  status: what the spec index says.
\* product: the product files.  edges: the supported local targets of a file; one
\* may be no product file, a directory called x.ts for instance.
\* graphFindings: what buildProductGraph could not follow.
InputType ==
  [mappings      : [Anchors -> ((SUBSET Files) \ {{}}) \union {None}],
   status        : [Anchors -> {"active", "draft", "missing"}],
   product       : SUBSET Files,
   edges         : [Files -> SUBSET Files],
   graphFindings : SUBSET ({"static_edge"} \X Files)]

ASSUME InputsAssumption ==
  /\ IsFiniteSet(Anchors) /\ IsFiniteSet(Files)
  /\ Inputs \subseteq InputType

VARIABLES
  input,      \* the input of this scan
  pc,         \* the part of runScanEngine it is in
  todo,       \* the stored mappings not yet looked at
  state,      \* the state given to each stored mapping
  current,    \* the mapping whose files are being reached
  queued,     \* queuedFiles of calculateReachedFiles
  reached,    \* reachedFiles of calculateReachedFiles
  reachedBy,  \* reachedFilesByMapping, empty for a mapping without entry
  observed,   \* the mapping_state of each observed anchor
  covering,   \* covering_anchor_ids of each product file
  metrics,    \* the counters of each anchor
  summary,    \* the counters of the scan
  findings    \* all findings so far

walk    == <<current, queued, reached>>
results == <<observed, covering, metrics, summary>>
vars    == <<input, pc, todo, state, walk, reachedBy, results, findings>>

Stored   == {a \in Anchors : input.mappings[a] # None}
Active   == {a \in Anchors : input.status[a] = "active"}
Observed == {a \in Anchors : input.status[a] # "missing"}
Usable   == {a \in Stored : state[a] = "usable"}

\* Where a reached file leads to: the targets that are product files.
Targets(f) == input.edges[f] \intersect input.product

\* Mutation: what the graph could not follow does not degrade the scan.
DegradingMappings == {"stale_mapping_anchor", "broken_seed_path"}

\* DEGRADING_FINDING_KINDS; the four kinds of the graph are one here.
Degrading == {"stale_mapping_anchor", "broken_seed_path", "static_edge"}

analysisHealth(found) ==
  IF \E x \in found : x[1] \in Degrading THEN "degraded" ELSE "clean"

FindingType ==
  ({"stale_mapping_anchor", "unmapped_anchor"} \X Anchors) \union
  ({"static_edge", "untraced_product_file"} \X Files) \union
  ({"broken_seed_path"} \X Anchors \X Files)

TypeOK ==
  /\ input \in Inputs
  /\ pc \in {"mappings", "reach", "observe", "cover", "conclude", "done"}
  /\ todo \subseteq Stored
  /\ state \in [Anchors -> {"none", "stale", "invalid", "usable"}]
  /\ current \in Anchors \union {None}
  /\ queued \subseteq Files /\ reached \subseteq queued
  /\ reachedBy \in [Anchors -> SUBSET Files]
  /\ observed \in [Anchors -> {"none", "draft", "usable", "invalid", "absent"}]
  /\ covering \in [Files -> SUBSET Anchors]
  /\ findings \subseteq FindingType

NoMetrics == [seed |-> 0, direct |-> 0, reached |-> 0, transitive |-> 0,
              unique |-> 0, shared |-> 0]
NoSummary == [product |-> 0, covered |-> 0, uncovered |-> 0, seeded |-> 0,
              single |-> 0, multi |-> 0]

Init ==
  /\ input \in Inputs
  /\ pc = "mappings"
  /\ todo = Stored
  /\ state = [a \in Anchors |-> "none"]
  /\ current = None /\ queued = {} /\ reached = {}
  /\ reachedBy = [a \in Anchors |-> {}]
  /\ observed = [a \in Anchors |-> "none"]
  /\ covering = [f \in Files |-> {}]
  /\ metrics = [a \in Anchors |-> NoMetrics]
  /\ summary = NoSummary
  /\ findings = input.graphFindings

-----------------------------------------------------------------------------
(* the stored mappings *)

\* The anchor is not active: the mapping is stale, whatever its seeds are.
Stale(a) ==
  /\ pc = "mappings" /\ a \in todo
  /\ a \notin Active
  /\ todo' = todo \ {a}
  /\ state' = [state EXCEPT ![a] = "stale"]
  /\ findings' = findings \union {<<"stale_mapping_anchor", a>>}
  /\ UNCHANGED <<input, pc, walk, reachedBy, results>>

\* Mutation: the seeds are looked at before the anchor.
InvalidFirst(a) ==
  /\ pc = "mappings" /\ a \in todo
  /\ LET broken == input.mappings[a] \ input.product
     IN  /\ broken # {}
         /\ findings' = findings \union {<<"broken_seed_path", a, f>> : f \in broken}
  /\ todo' = todo \ {a}
  /\ state' = [state EXCEPT ![a] = "invalid"]
  /\ UNCHANGED <<input, pc, walk, reachedBy, results>>

\* Some seed is not a product file: one finding for each.
Invalid(a) ==
  /\ pc = "mappings" /\ a \in todo
  /\ a \in Active
  /\ LET broken == input.mappings[a] \ input.product
     IN  /\ broken # {}
         /\ findings' = findings \union {<<"broken_seed_path", a, f>> : f \in broken}
  /\ todo' = todo \ {a}
  /\ state' = [state EXCEPT ![a] = "invalid"]
  /\ UNCHANGED <<input, pc, walk, reachedBy, results>>

\* Otherwise the mapping is usable, and calculateReachedFiles queues its seeds.
Reach(a) ==
  /\ pc = "mappings" /\ a \in todo
  /\ a \in Active
  /\ input.mappings[a] \subseteq input.product
  /\ todo' = todo \ {a}
  /\ state' = [state EXCEPT ![a] = "usable"]
  /\ pc' = "reach"
  /\ current' = a
  /\ queued' = input.mappings[a] \intersect input.product
  /\ reached' = {}
  /\ UNCHANGED <<input, reachedBy, results, findings>>

\* Mutations: the targets of the seeds only are followed, or a target is queued even
\* when it has been reached.
VisitOneHop(f) ==
  /\ pc = "reach"
  /\ f \in queued \ reached
  /\ reached' = reached \union {f}
  /\ queued' = queued \union
       (IF f \in input.mappings[current] THEN Targets(f) ELSE {})
  /\ UNCHANGED <<input, pc, todo, state, current, reachedBy, results, findings>>

VisitRequeuing(f) ==
  /\ pc = "reach"
  /\ f \in queued \ reached
  /\ reached' = (reached \union {f}) \ Targets(f)
  /\ queued' = queued \union Targets(f)
  /\ UNCHANGED <<input, pc, todo, state, current, reachedBy, results, findings>>

\* One turn of its loop.
Visit(f) ==
  /\ pc = "reach"
  /\ f \in queued \ reached
  /\ reached' = reached \union {f}
  /\ queued' = queued \union Targets(f)
  /\ UNCHANGED <<input, pc, todo, state, current, reachedBy, results, findings>>

\* The cursor has come to the end of the queue.
Reached ==
  /\ pc = "reach"
  /\ queued = reached
  /\ reachedBy' = [reachedBy EXCEPT ![current] = reached]
  /\ pc' = "mappings"
  /\ UNCHANGED <<input, todo, state, walk, results, findings>>

-----------------------------------------------------------------------------
(* the observed anchors, the files and the counters *)

MappingState(a) ==
  IF a \notin Observed THEN "none"
  ELSE IF a \notin Active THEN "draft"
  ELSE IF state[a] \in {"usable", "invalid"} THEN state[a]
  ELSE "absent"

Observe ==
  /\ pc = "mappings" /\ todo = {}
  /\ observed' = [a \in Anchors |-> MappingState(a)]
  /\ findings' = findings \union
       {<<"unmapped_anchor", a>> : a \in {b \in Anchors : MappingState(b) = "absent"}}
  /\ pc' = "cover"
  /\ UNCHANGED <<input, todo, state, walk, reachedBy, covering, metrics, summary>>

Covering(f) == {a \in Anchors : f \in reachedBy[a]}

\* Mutation: a reached file is shared from three covers on.
AnchorMetricsStrict(a) ==
  LET seeds == IF a \in Stored THEN input.mappings[a] ELSE {}
      files == reachedBy[a]
  IN  IF a \notin Usable
      THEN [NoMetrics EXCEPT !.seed = Cardinality(seeds)]
      ELSE [seed       |-> Cardinality(seeds),
            direct     |-> Cardinality(seeds),
            reached    |-> Cardinality(files),
            transitive |-> Cardinality(files) - Cardinality(seeds),
            unique     |-> Cardinality({f \in files : Cardinality(Covering(f)) = 1}),
            shared     |-> Cardinality({f \in files : Cardinality(Covering(f)) > 2})]

\* The counters buildTraceabilityMetrics gives an anchor.
AnchorMetrics(a) ==
  LET seeds == IF a \in Stored THEN input.mappings[a] ELSE {}
      files == reachedBy[a]
  IN  IF a \notin Usable
      THEN [NoMetrics EXCEPT !.seed = Cardinality(seeds)]
      ELSE [seed       |-> Cardinality(seeds),
            direct     |-> Cardinality(seeds),
            reached    |-> Cardinality(files),
            transitive |-> Cardinality(files) - Cardinality(seeds),
            unique     |-> Cardinality({f \in files : Cardinality(Covering(f)) = 1}),
            shared     |-> Cardinality({f \in files : Cardinality(Covering(f)) >= 2})]

Summary ==
  LET covered == {f \in input.product : Covering(f) # {}}
  IN  [product   |-> Cardinality(input.product),
       covered   |-> Cardinality(covered),
       uncovered |-> Cardinality(input.product) - Cardinality(covered),
       seeded    |-> Cardinality(UNION {input.mappings[a] : a \in Usable}),
       single    |-> Cardinality({f \in input.product : Cardinality(Covering(f)) = 1}),
       multi     |-> Cardinality({f \in input.product : Cardinality(Covering(f)) >= 2})]

Cover ==
  /\ pc = "cover"
  /\ covering' = [f \in Files |-> IF f \in input.product THEN Covering(f) ELSE {}]
  /\ metrics' = [a \in Anchors |-> IF a \in Stored \union Observed
                                   THEN AnchorMetrics(a) ELSE NoMetrics]
  /\ summary' = Summary
  /\ pc' = "conclude"
  /\ UNCHANGED <<input, todo, state, walk, reachedBy, observed, findings>>

\* untracedProductFileFindings: only a clean scan in which every active anchor
\* has a usable mapping, and at least one has, says which files are untraced.
Untraced(base) ==
  IF analysisHealth(base) = "degraded" \/ Usable = {} \/ ~(Active \subseteq Usable)
  THEN {}
  ELSE {<<"untraced_product_file", f>> : f \in {g \in input.product : covering[g] = {}}}

Conclude ==
  /\ pc = "conclude"
  /\ findings' = findings \union Untraced(findings)
  /\ pc' = "done"
  /\ UNCHANGED <<input, todo, state, walk, reachedBy, results>>

Next ==
  \/ \E a \in Anchors : Stale(a) \/ Invalid(a) \/ Reach(a)
  \/ \E f \in Files : Visit(f)
  \/ Reached
  \/ Observe
  \/ Cover
  \/ Conclude

Spec == Init /\ [][Next]_vars

\* The engine is one synchronous call.
FairSpec == Spec /\ WF_vars(Next)

-----------------------------------------------------------------------------
(* correctness *)

\* The product files that a dependency path leads to from the seeds: the
\* smallest set that holds the seeds and, of the targets of its members, those that
\* are product files.
Closed(set) == \A f \in set : input.edges[f] \intersect input.product \subseteq set
ReachableFrom(seeds) ==
  {f \in Files : \A set \in SUBSET Files : seeds \subseteq set /\ Closed(set) => f \in set}

\* reached_files of a usable mapping are exactly the files reachable from its
\* seeds, around cycles too; of any other mapping there are none.
ReachedExact ==
  pc \in {"cover", "conclude", "done"} =>
    \A a \in Anchors :
      reachedBy[a] = IF a \in Usable THEN ReachableFrom(input.mappings[a]) ELSE {}

\* The anchors or files that findings of a kind are about.
Found(kind) == {x[2] : x \in {y \in findings : y[1] = kind}}

\* Every active anchor is accounted for once: it has a usable mapping, or broken
\* seeds, or an unmapped_anchor; and a stored mapping is stale exactly when the
\* specs do not have its anchor as active.
AnchorsAccounted ==
  pc = "done" =>
    /\ Found("stale_mapping_anchor") = Stored \ Active
    /\ Found("unmapped_anchor") = Active \ Stored
    /\ Found("broken_seed_path") = (Active \intersect Stored) \ Usable
    /\ \A a \in Anchors :
         /\ observed[a] = "usable" <=> a \in Usable
         /\ observed[a] = "invalid" <=> a \in Found("broken_seed_path")
         /\ observed[a] = "absent" <=> a \in Found("unmapped_anchor")

\* A file is called untraced exactly when the contract lets it: no mapping is
\* stale or broken, the graph is whole, every active anchor is mapped, one at
\* least, and no seed leads to the file; the reported health is then clean.
UntracedRule ==
  pc = "done" =>
    LET untraced == Found("untraced_product_file")
        sound == /\ input.graphFindings = {}
                 /\ Stored = Active /\ Stored # {}
                 /\ \A a \in Stored : input.mappings[a] \subseteq input.product
        traced == UNION {ReachableFrom(input.mappings[a]) : a \in Stored}
    IN  /\ untraced = IF sound THEN input.product \ traced ELSE {}
        /\ untraced # {} => analysisHealth(findings) = "clean"

\* The sum of a counter of the anchors.
Total(count) == MapThenSumSet(LAMBDA a : count[a], Anchors)

\* The counters of the anchors and of the scan agree: a reached file is a seed or
\* transitive, unique or shared; the uniquely reached files of all the anchors
\* together are the files with a single cover.
MetricsAgree ==
  pc \in {"conclude", "done"} =>
    /\ \A a \in Anchors :
         /\ metrics[a].unique + metrics[a].shared = metrics[a].reached
         /\ a \in Usable =>
              metrics[a].transitive = Cardinality(reachedBy[a] \ input.mappings[a])
    /\ summary.covered = summary.single + summary.multi
    /\ summary.covered = Cardinality(UNION {reachedBy[a] : a \in Anchors})
    /\ summary.covered + summary.uncovered = summary.product
    /\ summary.seeded <= summary.covered
    /\ summary.single = Total([a \in Anchors |-> metrics[a].unique])
    /\ Total([a \in Anchors |-> metrics[a].shared]) >= 2 * summary.multi

\* The scan ends, on cyclic graphs too.
ScanEnds == <>(pc = "done")
=============================================================================
