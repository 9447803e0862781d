-------------------------- MODULE ArtifactEngines --------------------------
(***************************************************************************)
(* What the artifact commands compute: the view of a scan                  *)
(* (src/domain/scan-engine.ts and scan-result.ts), the policy result       *)
(* (policy-engine.ts), the diff of two scans (diff-engine.ts), the         *)
(* explanation of an anchor or a file (explain-engine.ts), the suggested   *)
(* actions of a report (report-model.ts) and the bundle (bundle-model.ts). *)
(*                                                                         *)
(* How the engine walks the graph is the subject of ScanEngine; here a     *)
(* scan is a function of the project.                                      *)
(***************************************************************************)
EXTENDS ScanArtifacts

-----------------------------------------------------------------------------
(* canonical order *)

\* The elements of a set in order: the k-th has k - 1 before it.
SortedBy(set, Before(_, _)) ==
  [k \in 1..Cardinality(set) |-> CHOOSE x \in set : Cardinality({y \in set : Before(y, x)}) = k - 1]

Sorted(set) == SortedBy(set, <)

\* What stands at some places of a list: those that pass a test, or all of them in
\* order, where of two that are equal the first stays first (Array.prototype.sort).
At(seq, places) == [k \in DOMAIN places |-> seq[places[k]]]

Select(seq, Test(_)) == At(seq, Sorted({k \in DOMAIN seq : Test(seq[k])}))

OrderedBy(seq, Before(_, _)) ==
  LET Precedes(i, j) == Before(seq[i], seq[j]) \/ (~Before(seq[j], seq[i]) /\ i < j)
  IN  At(seq, SortedBy(DOMAIN seq, Precedes))

InOrder(seq) == OrderedBy(seq, <)

Rank(kind) == CHOOSE k \in DOMAIN FindingKinds : FindingKinds[k] = kind

FindingTuple(f) ==
  <<Rank(f.kind)>> \o
  CASE f.kind \in {"unmapped_anchor", "stale_mapping_anchor"} -> <<f.anchor_id>>
    [] f.kind = "broken_seed_path"        -> <<f.anchor_id, f.seed_path>>
    [] f.kind = "unresolved_static_edge"  -> <<f.importer, f.specifier>>
    [] f.kind = "unsupported_static_edge" ->
         <<f.importer, IF f.syntax_kind = "dynamic_import" THEN 1 ELSE 2, f.specifier>>
    [] f.kind \in {"out_of_scope_static_edge", "unsupported_local_target"} ->
         <<f.importer, f.target_path>>
    [] f.kind = "untraced_product_file"   -> <<f.path>>

compareFindings(f, g) ==
  LET s == FindingTuple(f)
      t == FindingTuple(g)
  IN  \E k \in DOMAIN t :
        /\ \A i \in 1..(k - 1) : i \in DOMAIN s /\ s[i] = t[i]
        /\ k \notin DOMAIN s \/ s[k] < t[k]

\* Prefixes are only compared here: their numbers stand for the order the code has for
\* them, the longest first.
AliasBefore(a, b) == a.prefix < b.prefix \/ (a.prefix = b.prefix /\ a.target < b.target)

-----------------------------------------------------------------------------
(* the scan of a project *)

Degrading == ToSet(FindingKinds) \ {"unmapped_anchor", "untraced_product_file"}
analysisHealth(found) == IF \E f \in found : f.kind \in Degrading THEN "degraded" ELSE "clean"

Active(p) == {a \in DOMAIN p.anchors : p.anchors[a].status = "active"}
StateOf(p, a) ==
  IF a \notin Active(p) THEN "stale"
  ELSE IF p.mappings[a] \subseteq p.files THEN "usable" ELSE "invalid"
Usable(p) == {a \in DOMAIN p.mappings : StateOf(p, a) = "usable"}

MappingStateOf(p, a) ==
  IF a \notin Active(p) THEN "draft"
  ELSE IF a \in DOMAIN p.mappings THEN StateOf(p, a) ELSE "absent"

\* calculateReachedFiles: as many turns as there are product files are enough.
ReachedFrom(p, seeds) ==
  LET turn[n \in 0..Cardinality(p.files)] ==
        IF n = 0 THEN seeds \intersect p.files
        ELSE turn[n - 1] \union (p.files \intersect UNION {p.edges[f] : f \in turn[n - 1]})
  IN  turn[Cardinality(p.files)]

Covering(reached, f) == {a \in DOMAIN reached : f \in reached[a]}

\* createStoredMappingView and createFileView sort what they are given.
StoredMapping(p, reached, a) ==
  [state         |-> StateOf(p, a),
   seed_files    |-> Sorted(p.mappings[a]),
   reached_files |-> IF a \in Usable(p) THEN Sorted(reached[a]) ELSE <<>>]

FileView(p, reached, f) ==
  [covering_anchor_ids |-> Sorted(Covering(reached, f)), supported_local_targets |-> Sorted(p.edges[f])]

ConfigView(c) ==
  [version       |-> 1,
   product_root  |-> c.product_root,
   spec_roots    |-> Sorted(c.spec_roots),
   ignore_roots  |-> Sorted(c.ignore_roots),
   tsconfig_path |-> c.tsconfig_path,
   local_aliases |-> SortedBy(c.local_aliases, AliasBefore)]

\* The counters of an anchor; all but the first are 0 unless it has a usable mapping.
AnchorMetrics(p, reached, a) ==
  LET seeds == IF a \in DOMAIN p.mappings THEN Cardinality(p.mappings[a]) ELSE 0
      direct == IF a \in Usable(p) THEN seeds ELSE 0
      files == IF a \in Usable(p) THEN reached[a] ELSE {}
      alone == {f \in files : Cardinality(Covering(reached, f)) = 1}
  IN  [seed_file_count               |-> seeds,
       direct_seed_file_count        |-> direct,
       reached_file_count            |-> Cardinality(files),
       transitive_reached_file_count |-> Cardinality(files) - direct,
       unique_reached_file_count     |-> Cardinality(alone),
       shared_reached_file_count     |-> Cardinality(files \ alone)]

Summary(p, reached) ==
  LET CoveredBy(counts) == Cardinality({f \in p.files : Cardinality(Covering(reached, f)) \in counts})
  IN  [product_file_count                 |-> Cardinality(p.files),
       stored_mapping_count               |-> Cardinality(DOMAIN p.mappings),
       usable_mapping_count               |-> Cardinality(Usable(p)),
       observed_anchor_count              |-> Cardinality(DOMAIN p.anchors),
       active_anchor_count                |-> Cardinality(Active(p)),
       draft_anchor_count                 |-> Cardinality(DOMAIN p.anchors \ Active(p)),
       covered_product_file_count         |-> CoveredBy(Nat \ {0}),
       uncovered_product_file_count       |-> CoveredBy({0}),
       directly_seeded_product_file_count |-> Cardinality(UNION {p.mappings[a] : a \in Usable(p)}),
       single_cover_product_file_count    |-> CoveredBy({1}),
       multi_cover_product_file_count     |-> CoveredBy(Nat \ {0, 1})]

BaseFindings(p) ==
  p.graph
  \union {[kind |-> "stale_mapping_anchor", anchor_id |-> a] : a \in DOMAIN p.mappings \ Active(p)}
  \union {[kind |-> "unmapped_anchor", anchor_id |-> a] : a \in Active(p) \ DOMAIN p.mappings}
  \union UNION {{[kind |-> "broken_seed_path", anchor_id |-> a, seed_path |-> s] :
                   s \in p.mappings[a] \ p.files} : a \in DOMAIN p.mappings \intersect Active(p)}

UntracedFindings(p, reached) ==
  IF analysisHealth(BaseFindings(p)) = "degraded" \/ Usable(p) = {} \/ Active(p) # Usable(p) THEN {}
  ELSE {[kind |-> "untraced_product_file", path |-> f] :
          f \in {g \in p.files : Covering(reached, g) = {}}}

\* runScanEngine, with createScanResultView.
ScanOf(p) ==
  LET reached  == [a \in Usable(p) |-> ReachedFrom(p, p.mappings[a])]
      findings == BaseFindings(p) \union UntracedFindings(p, reached)
  IN  [schema_version   |-> 5,
       config           |-> ConfigView(p.config),
       analysis_health  |-> analysisHealth(findings),
       observed_anchors |-> [a \in DOMAIN p.anchors |->
                               [spec_path     |-> p.anchors[a].spec_path,
                                mapping_state |-> MappingStateOf(p, a),
                                source        |-> p.anchors[a].source]],
       stored_mappings  |-> [a \in DOMAIN p.mappings |-> StoredMapping(p, reached, a)],
       files            |-> [f \in p.files |-> FileView(p, reached, f)],
       traceability_metrics |->
         [summary |-> Summary(p, reached),
          anchors |-> [a \in DOMAIN p.anchors \union DOMAIN p.mappings |->
                         AnchorMetrics(p, reached, a)]],
       findings         |-> SortedBy(findings, compareFindings)]

-----------------------------------------------------------------------------
(* policy-engine.ts *)

OfKind(found, kind) == Select(found, LAMBDA f : f.kind = kind)

\* Mutation: the percentage is rounded to the nearest.
PercentRounded(covered, files) == IF files = 0 THEN 100 ELSE (covered * 200 + files) \div (files * 2)

\* Rounded down; a product without files is covered.
Percent(covered, files) == IF files = 0 THEN 100 ELSE (covered * 100) \div files

buildPolicySummary(scan) ==
  LET s == scan.traceability_metrics.summary
  IN  [observed_anchor_count        |-> s.observed_anchor_count,
       usable_mapping_count         |-> s.usable_mapping_count,
       product_file_count           |-> s.product_file_count,
       covered_product_file_count   |-> s.covered_product_file_count,
       uncovered_product_file_count |-> s.uncovered_product_file_count,
       covered_product_file_percent |-> Percent(s.covered_product_file_count, s.product_file_count),
       untraced_product_file_count  |-> Len(OfKind(scan.findings, "untraced_product_file"))]

Threshold(policy, field) ==
  IF Has(policy, "thresholds") /\ Has(policy.thresholds, field) THEN policy.thresholds[field] ELSE Null
FailsOn(policy, field) ==
  IF Has(policy, "fail_on") /\ Has(policy.fail_on, field) THEN policy.fail_on[field] ELSE Null

\* The four kinds of violation, in the order comparePolicyViolations gives them.
Violations(scan, policy, summary) ==
  LET least    == Threshold(policy, "min_covered_product_file_percent")
      most     == Threshold(policy, "max_untraced_product_files")
      kinds    == FailsOn(policy, "finding_kinds")
      percent  == summary.covered_product_file_percent
      untraced == summary.untraced_product_file_count
      Present(kind) == [kind |-> "finding_kind_present", finding_kind |-> kind,
                        count |-> Len(OfKind(scan.findings, kind))]
      Exceeded(kind, actual, threshold) ==
        << [kind |-> kind, actual |-> actual, threshold |-> threshold] >>
  IN  (IF FailsOn(policy, "analysis_health") = "degraded" /\ scan.analysis_health = "degraded"
       THEN <<[kind |-> "analysis_health_degraded"]>> ELSE <<>>)
      \o (IF least # Null /\ percent < least
          THEN Exceeded("covered_product_file_percent_below_threshold", percent, least) ELSE <<>>)
      \o (IF kinds = Null THEN <<>>
          ELSE Each(Select(FindingKinds, LAMBDA kind :
                      kind \in ToSet(kinds) /\ OfKind(scan.findings, kind) # <<>>), Present))
      \o (IF most # Null /\ untraced > most
          THEN Exceeded("untraced_product_files_above_threshold", untraced, most) ELSE <<>>)

evaluatePolicy(scan, policy) ==
  LET summary    == buildPolicySummary(scan)
      violations == Violations(scan, policy, summary)
  IN  [schema_version             |-> 1,
       decision                   |-> IF violations = <<>> THEN "pass" ELSE "fail",
       source_scan_schema_version |-> scan.schema_version,
       analysis_health            |-> scan.analysis_health,
       violations                 |-> violations,
       summary                    |-> summary]

-----------------------------------------------------------------------------
(* diff-engine.ts *)

sameScope(b, h) ==
  LET Key(c) == [c EXCEPT !.spec_roots = InOrder(@), !.ignore_roots = InOrder(@),
                          !.local_aliases = OrderedBy(@, AliasBefore)]
  IN  Key(b) = Key(h)

Added(b, h)   == Sorted(DOMAIN h \ DOMAIN b)
Removed(b, h) == Sorted(DOMAIN b \ DOMAIN h)

\* A field of every object, and a list of every file in order.
FieldOf(objects, field) == [k \in DOMAIN objects |-> objects[k][field]]
Lists(files, field)      == [f \in DOMAIN files |-> InOrder(files[f][field])]

\* The keys of both, in order, whose value has changed, as records of the change.
Changes(from, to, key) ==
  LET changed == {k \in DOMAIN from \intersect DOMAIN to : from[k] # to[k]}
      Record(k) == [field \in {key, "from", "to"} |->
                      CASE field = "from" -> from[k] [] field = "to" -> to[k] [] OTHER -> k]
  IN  Each(Sorted(changed), Record)

isCovered(file) == file.covering_anchor_ids # <<>>
Covered(files)   == {f \in DOMAIN files : isCovered(files[f])}
Uncovered(files) == DOMAIN files \ Covered(files)

changedCoverage(from, to) == Sorted(from \intersect to)

\* A finding is known by all of its fields; one that is there twice stays twice.
diffFindings(b, h) ==
  LET Without(s, other) == OrderedBy(Select(s, LAMBDA f : f \notin ToSet(other)), compareFindings)
  IN  [added |-> Without(h, b), removed |-> Without(b, h)]

diffTraceabilitySummary(b, h) == [field \in SummaryFields |-> h[field] - b[field]]

\* Mutation: a file is lost when any of its anchors is.
diffFilesByAnchor(b, h) ==
  [added          |-> Added(b, h),
   removed        |-> Removed(b, h),
   became_covered |-> changedCoverage(Uncovered(b), Covered(h)),
   lost_coverage  |-> Sorted({f \in DOMAIN b \intersect DOMAIN h :
                        ToSet(b[f].covering_anchor_ids) \ ToSet(h[f].covering_anchor_ids) # {}}),
   covering_anchor_ids_changed |->
     Changes(Lists(b, "covering_anchor_ids"), Lists(h, "covering_anchor_ids"), "path"),
   supported_local_targets_changed |->
     Changes(Lists(b, "supported_local_targets"), Lists(h, "supported_local_targets"), "path")]

diffFiles(b, h) ==
  [added          |-> Added(b, h),
   removed        |-> Removed(b, h),
   became_covered |-> changedCoverage(Uncovered(b), Covered(h)),
   lost_coverage  |-> changedCoverage(Covered(b), Uncovered(h)),
   covering_anchor_ids_changed |->
     Changes(Lists(b, "covering_anchor_ids"), Lists(h, "covering_anchor_ids"), "path"),
   supported_local_targets_changed |->
     Changes(Lists(b, "supported_local_targets"), Lists(h, "supported_local_targets"), "path")]

diffScanResults(b, h) ==
  [schema_version           |-> 1,
   base_scan_schema_version |-> b.schema_version,
   head_scan_schema_version |-> h.schema_version,
   comparability            |-> IF sameScope(b.config, h.config) THEN "same_scope" ELSE "scope_changed",
   analysis_health_change   |-> [from |-> b.analysis_health, to |-> h.analysis_health],
   anchors  |-> [added   |-> Added(b.observed_anchors, h.observed_anchors),
                 removed |-> Removed(b.observed_anchors, h.observed_anchors),
                 mapping_state_changed |->
                   Changes(FieldOf(b.observed_anchors, "mapping_state"),
                           FieldOf(h.observed_anchors, "mapping_state"), "anchor_id")],
   mappings |-> [added   |-> Added(b.stored_mappings, h.stored_mappings),
                 removed |-> Removed(b.stored_mappings, h.stored_mappings),
                 state_changed |->
                   Changes(FieldOf(b.stored_mappings, "state"),
                           FieldOf(h.stored_mappings, "state"), "anchor_id")],
   files         |-> diffFiles(b.files, h.files),
   findings      |-> diffFindings(b.findings, h.findings),
   metrics_delta |-> diffTraceabilitySummary(b.traceability_metrics.summary,
                                             h.traceability_metrics.summary)]

-----------------------------------------------------------------------------
(* explain-engine.ts *)

TargetsIn(scan, f) == IF f \in DOMAIN scan.files THEN ToSet(scan.files[f].supported_local_targets) ELSE {}

\* The files that a walk may meet: no more turns than there are of them.
Known(scan, start) == start \union UNION {TargetsIn(scan, f) : f \in DOMAIN scan.files}

\* Mutation: the paths are found depth first, the last file queued is taken first.
anchorPathsByFileDeep(scan, seeds) ==
  LET start == ToSet(seeds)
      walk[n \in 0..Cardinality(Known(scan, start))] ==
        IF n = 0 THEN [path |-> [s \in start |-> <<s>>], queue |-> Sorted(start)]
        ELSE LET w == walk[n - 1]
             IN  IF w.queue = <<>> THEN w
                 ELSE LET current == Last(w.queue)
                          new == TargetsIn(scan, current) \ DOMAIN w.path
                      IN  [path  |-> w.path @@ [t \in new |-> Append(w.path[current], t)],
                           queue |-> Front(w.queue) \o Sorted(new)]
  IN  walk[Cardinality(Known(scan, start))].path

\* Breadth first from the seeds: each turn takes the file at the head of the queue
\* and gives a path to those of its targets that have none yet.
anchorPathsByFile(scan, seeds) ==
  LET start == ToSet(seeds)
      walk[n \in 0..Cardinality(Known(scan, start))] ==
        IF n = 0 THEN [path |-> [s \in start |-> <<s>>], queue |-> Sorted(start)]
        ELSE LET w == walk[n - 1]
             IN  IF n > Len(w.queue) THEN w
                 ELSE LET current == w.queue[n]
                          new == TargetsIn(scan, current) \ DOMAIN w.path
                      IN  [path  |-> [f \in DOMAIN w.path \union new |->
                                       IF f \in new THEN Append(w.path[current], f)
                                       ELSE w.path[f]],
                           queue |-> w.queue \o Sorted(new)]
  IN  walk[Cardinality(Known(scan, start))].path

findingsForAnchor(found, a) ==
  OrderedBy(Select(found, LAMBDA f : Has(f, "anchor_id") /\ f.anchor_id = a), compareFindings)

explainAnchor(scan, a) ==
  LET present == a \in DOMAIN scan.observed_anchors
      mapped  == a \in DOMAIN scan.stored_mappings
      seeds   == IF mapped THEN scan.stored_mappings[a].seed_files ELSE <<>>
      reached == IF mapped THEN scan.stored_mappings[a].reached_files ELSE <<>>
      path    == anchorPathsByFile(scan, seeds)
      Reached(f) == [path |-> f, path_from_seed |-> IF f \in DOMAIN path THEN path[f] ELSE <<>>]
  IN  [schema_version |-> 1,
       subject  |-> [kind |-> "anchor", anchor_id |-> a],
       observed |-> [present       |-> present,
                     spec_path     |-> IF present THEN scan.observed_anchors[a].spec_path ELSE Null,
                     mapping_state |-> IF present THEN scan.observed_anchors[a].mapping_state
                                       ELSE "absent"],
       mapping  |-> [present            |-> mapped,
                     state              |-> IF mapped THEN scan.stored_mappings[a].state ELSE "absent",
                     seed_files         |-> InOrder(seeds),
                     reached_file_count |-> Len(reached)],
       file     |-> Null,
       coverage |-> [reached_files |-> Each(InOrder(reached), Reached)],
       findings |-> findingsForAnchor(scan.findings, a)]

\* A stale mapping or an unmapped anchor is about no file.
ConcernsFile(f, path) ==
  CASE f.kind = "broken_seed_path" -> f.seed_path = path
    [] f.kind \in {"unresolved_static_edge", "unsupported_static_edge"} -> f.importer = path
    [] f.kind \in {"out_of_scope_static_edge", "unsupported_local_target"} ->
         path \in {f.importer, f.target_path}
    [] f.kind = "untraced_product_file" -> f.path = path
    [] OTHER -> FALSE

findingsForFile(found, path) ==
  OrderedBy(Select(found, LAMBDA f : ConcernsFile(f, path)), compareFindings)

explainFile(scan, path) ==
  LET present == path \in DOMAIN scan.files
      covering == IF present THEN InOrder(scan.files[path].covering_anchor_ids) ELSE <<>>
      targets == IF present THEN InOrder(scan.files[path].supported_local_targets) ELSE <<>>
  IN  [schema_version |-> 1,
       subject  |-> [kind |-> "file", path |-> path],
       observed |-> Null,
       mapping  |-> Null,
       file     |-> [present |-> present, covering_anchor_ids |-> covering,
                     supported_local_targets |-> targets],
       coverage |-> [covered      |-> Len(covering) > 0,
                     single_cover |-> Len(covering) = 1,
                     multi_cover  |-> Len(covering) > 1],
       findings |-> findingsForFile(scan.findings, path)]

-----------------------------------------------------------------------------
(* report-model.ts and bundle-model.ts *)

ActionOrder ==
  <<"unmapped_anchor", "broken_seed_path", "unresolved_static_edge", "unsupported_static_edge",
    "out_of_scope_static_edge", "unsupported_local_target">>

\* The text of an action says all of the finding but the syntax of the edge.
renderFindingAction(f) == [field \in DOMAIN f \ {"syntax_kind"} |-> f[field]]

LostAction(path) == [kind |-> "lost_coverage", path |-> path]

\* dedupeStrings: the first of each.
FirstOfEach(seq) == FoldLeft(LAMBDA s, x : IF Contains(s, x) THEN s ELSE Append(s, x), <<>>, seq)

buildSuggestedActions(found, diff) ==
  FirstOfEach(
    FlattenSeq(Each(ActionOrder, LAMBDA kind : Each(OfKind(found, kind), renderFindingAction)))
    \o (IF diff = Null THEN <<>> ELSE Each(diff.files.lost_coverage, LostAction)))

\* The bytes of an artifact in canonical form, and the digest that stands for them.
Bytes(form, json) == [form |-> form, json |-> json]
sha256Hex(json) == Bytes("canonical", json)

buildArtifactBundle(scan, check, diff, metadata, version) ==
  [schema_version |-> 1,
   tool      |-> [name |-> "anchormap", version |-> version],
   metadata  |-> metadata,
   artifacts |-> [scan |-> scan, check |-> check, diff |-> diff],
   hashes    |-> [scan_sha256  |-> sha256Hex(RenderScan(scan)),
                  check_sha256 |-> sha256Hex(RenderPolicyResult(check)),
                  diff_sha256  |-> sha256Hex(RenderDiff(diff))]]
=============================================================================
