--------------------------- MODULE ScanArtifacts ---------------------------
(***************************************************************************)
(* The JSON artifacts of the command line: how src/render/render-json.ts   *)
(* writes the view of a scan, of a policy result and of a diff, and what   *)
(* the readers of src/infra accept (artifact-io.ts,                        *)
(* artifact-policy-validation.ts, artifact-json-validation.ts,             *)
(* policy-io.ts, metadata-io.ts).                                          *)
(*                                                                         *)
(* A JSON object is a record or a function, an array a sequence.  Anchors, *)
(* paths and texts are numbers, numbered in the canonical order of the     *)
(* strings they stand for.  Wrong is any value that may not stand where it *)
(* stands: of another type, no path, no anchor, none of an enumeration.    *)
(* Readers and writers name their fields separately, as in the code.       *)
(***************************************************************************)
EXTENDS Integers, SequencesExt

CONSTANTS
  Anchors,  \* anchor ids
  Paths,    \* repository paths
  Texts,    \* strings that may be anything: specifiers, prefixes, names, paths
  Wrong,    \* a value that may not stand where it does
  Null      \* the null of JSON; also no value at all

ASSUME ArtifactsAssumption ==
  /\ Anchors \subseteq Nat /\ Paths \subseteq Texts /\ Texts \subseteq Nat
  /\ Wrong # Null /\ Null # "degraded"

-----------------------------------------------------------------------------
(* what the readers know of a field *)

FindingKinds ==
  <<"broken_seed_path", "out_of_scope_static_edge", "stale_mapping_anchor", "unmapped_anchor",
    "unresolved_static_edge", "unsupported_local_target", "unsupported_static_edge",
    "untraced_product_file">>

IsList(v)  == Len(v) \in Nat /\ DOMAIN v = 1..Len(v) /\ v = [k \in DOMAIN v |-> v[k]]
IsArray(v) == v # Wrong /\ IsList(v)

Leaf(type, v) ==
  CASE type = "anchor"        -> v \in Anchors
    [] type = "path"          -> v \in Paths
    [] type = "text"          -> v \in Texts
    [] type = "name"          -> v \in Texts \union {Null}
    [] type = "count"         -> v \in Nat
    [] type = "position"      -> v \in Nat \ {0}
    [] type = "number"        -> v = Null \/ v \in Nat \ {0}
    [] type = "level"         -> v \in 1..6
    [] type = "one"           -> v = 1
    [] type = "scan_schema"   -> v \in {4, 5}
    [] type = "tsconfig"      -> v \in {Null, "tsconfig.json"}
    [] type = "health"        -> v \in {"clean", "degraded"}
    [] type = "observed"      -> v \in {"absent", "usable", "invalid", "draft"}
    [] type = "stored"        -> v \in {"usable", "invalid", "stale"}
    [] type = "syntax"        -> v \in {"require_call", "dynamic_import"}
    [] type = "finding_kind"  -> v \in ToSet(FindingKinds)
    [] type = "decision"      -> v \in {"pass", "fail"}
    [] type = "comparability" -> v \in {"same_scope", "scope_changed"}
    [] type = "provider"      -> v \in {"github", "gitlab", "generic", "other"}
    [] type = "anchors"       -> IsArray(v) /\ ToSet(v) \subseteq Anchors
    [] type = "paths"         -> IsArray(v) /\ ToSet(v) \subseteq Paths
    [] type = "integer"       -> v \in Int
    [] type \in {"nested", "kind"} -> TRUE

\* expectOpenObject: a function of finitely many keys.
IsObject(j) == j # Wrong /\ IsFiniteSet(DOMAIN j) /\ j = [key \in DOMAIN j |-> j[key]]

\* expectObject: exactly the fields of the shape.
Exact(j, shape) ==
  /\ IsObject(j)
  /\ DOMAIN j = DOMAIN shape
  /\ \A field \in DOMAIN shape : Leaf(shape[field], j[field])

\* validateArrayItems, validateRecord, and an object whose kind says its fields.
ListOf(j, shape) == IsArray(j) /\ \A k \in DOMAIN j : Exact(j[k], shape)
MapOf(j, keys, shape) == IsObject(j) /\ DOMAIN j \subseteq keys /\ \A k \in DOMAIN j : Exact(j[k], shape)
OneOf(j, shapes) ==
  IsObject(j) /\ "kind" \in DOMAIN j /\ j.kind \in DOMAIN shapes /\ Exact(j, shapes[j.kind])

Counted(fields, type) == [field \in fields |-> type]

-----------------------------------------------------------------------------
(* the reader of scan artifacts *)

ScanFields ==
  [schema_version |-> "scan_schema", config |-> "nested", analysis_health |-> "health",
   observed_anchors |-> "nested", stored_mappings |-> "nested", files |-> "nested",
   traceability_metrics |-> "nested", findings |-> "nested"]

ConfigFields ==
  [version |-> "one", product_root |-> "path", spec_roots |-> "paths", ignore_roots |-> "paths",
   tsconfig_path |-> "tsconfig", local_aliases |-> "nested"]

SummaryFields ==
  {"product_file_count", "stored_mapping_count", "usable_mapping_count", "observed_anchor_count",
   "active_anchor_count", "draft_anchor_count", "covered_product_file_count",
   "uncovered_product_file_count", "directly_seeded_product_file_count",
   "single_cover_product_file_count", "multi_cover_product_file_count"}

AnchorMetricsFields ==
  {"seed_file_count", "direct_seed_file_count", "reached_file_count",
   "transitive_reached_file_count", "unique_reached_file_count", "shared_reached_file_count"}

FindingFields ==
  [unmapped_anchor          |-> [kind |-> "kind", anchor_id |-> "anchor"],
   stale_mapping_anchor     |-> [kind |-> "kind", anchor_id |-> "anchor"],
   broken_seed_path         |-> [kind |-> "kind", anchor_id |-> "anchor", seed_path |-> "path"],
   unresolved_static_edge   |-> [kind |-> "kind", importer |-> "path", specifier |-> "text"],
   unsupported_static_edge  |-> [kind |-> "kind", importer |-> "path", syntax_kind |-> "syntax",
                                 specifier |-> "text"],
   out_of_scope_static_edge |-> [kind |-> "kind", importer |-> "path", target_path |-> "path"],
   unsupported_local_target |-> [kind |-> "kind", importer |-> "path", target_path |-> "path"],
   untraced_product_file    |-> [kind |-> "kind", path |-> "path"]]

SourceFields ==
  [markdown_atx_heading |-> [kind |-> "kind", line |-> "position", column |-> "position",
                             heading_level |-> "level"],
   yaml_root_id         |-> [kind |-> "kind", line |-> "position", column |-> "position"]]

AreFindings(j) == IsArray(j) /\ \A k \in DOMAIN j : OneOf(j[k], FindingFields)

\* An anchor has a source in schema 5, and in no other.
AreObservedAnchors(j, schema) ==
  IF schema = 4 THEN MapOf(j, Anchors, [spec_path |-> "path", mapping_state |-> "observed"])
  ELSE /\ MapOf(j, Anchors, [spec_path |-> "path", mapping_state |-> "observed", source |-> "nested"])
       /\ \A a \in DOMAIN j : OneOf(j[a].source, SourceFields)

IsConfig(j) ==
  /\ Exact(j, ConfigFields)
  /\ ListOf(j.local_aliases, [prefix |-> "text", target |-> "text"])

AreStoredMappings(j) ==
  MapOf(j, Anchors, [state |-> "stored", seed_files |-> "paths", reached_files |-> "paths"])

AreFiles(j) ==
  MapOf(j, Paths, [covering_anchor_ids |-> "anchors", supported_local_targets |-> "paths"])

AreMetrics(j) ==
  /\ Exact(j, [summary |-> "nested", anchors |-> "nested"])
  /\ Exact(j.summary, Counted(SummaryFields, "count"))
  /\ MapOf(j.anchors, Anchors, Counted(AnchorMetricsFields, "count"))

\* No rule ties one part of a scan to another.
IsScan(j) ==
  /\ Exact(j, ScanFields)
  /\ IsConfig(j.config)
  /\ AreObservedAnchors(j.observed_anchors, j.schema_version)
  /\ AreStoredMappings(j.stored_mappings)
  /\ AreFiles(j.files)
  /\ AreMetrics(j.traceability_metrics)
  /\ AreFindings(j.findings)

-----------------------------------------------------------------------------
(* the readers of policy results, diffs, metadata and policies *)

PolicySummaryFields ==
  {"observed_anchor_count", "usable_mapping_count", "product_file_count",
   "covered_product_file_count", "uncovered_product_file_count", "covered_product_file_percent",
   "untraced_product_file_count"}

ViolationFields ==
  [analysis_health_degraded |-> [kind |-> "kind"],
   finding_kind_present |-> [kind |-> "kind", finding_kind |-> "finding_kind", count |-> "count"],
   covered_product_file_percent_below_threshold |->
     [kind |-> "kind", actual |-> "count", threshold |-> "count"],
   untraced_product_files_above_threshold |->
     [kind |-> "kind", actual |-> "count", threshold |-> "count"]]

AreViolations(j) == IsArray(j) /\ \A k \in DOMAIN j : OneOf(j[k], ViolationFields)

IsPolicyResult(j) ==
  /\ Exact(j, [schema_version |-> "one", decision |-> "decision", analysis_health |-> "health",
               source_scan_schema_version |-> "count", violations |-> "nested",
               summary |-> "nested"])
  /\ AreViolations(j.violations)
  /\ Exact(j.summary, Counted(PolicySummaryFields, "count"))

\* Mutation: the deltas are read as the counters they come from.
AreDeltasCounted(j) == Exact(j, Counted(SummaryFields, "count"))

\* validateTraceabilitySummaryDelta: a counter may have gone down.
AreDeltas(j) == Exact(j, Counted(SummaryFields, "integer"))

Change(key, keyType, type) ==
  [field \in {key, "from", "to"} |-> IF field = key THEN keyType ELSE type]

AreAnchorChanges(j) ==
  /\ Exact(j, [added |-> "anchors", removed |-> "anchors", mapping_state_changed |-> "nested"])
  /\ ListOf(j.mapping_state_changed, Change("anchor_id", "anchor", "observed"))

AreMappingChanges(j) ==
  /\ Exact(j, [added |-> "anchors", removed |-> "anchors", state_changed |-> "nested"])
  /\ ListOf(j.state_changed, Change("anchor_id", "anchor", "stored"))

AreFileChanges(j) ==
  /\ Exact(j, [added |-> "paths", removed |-> "paths", became_covered |-> "paths",
               lost_coverage |-> "paths", covering_anchor_ids_changed |-> "nested",
               supported_local_targets_changed |-> "nested"])
  /\ ListOf(j.covering_anchor_ids_changed, Change("path", "path", "anchors"))
  /\ ListOf(j.supported_local_targets_changed, Change("path", "path", "paths"))

AreFindingChanges(j) ==
  /\ Exact(j, [added |-> "nested", removed |-> "nested"])
  /\ AreFindings(j.added) /\ AreFindings(j.removed)

IsDiff(j) ==
  /\ Exact(j, [schema_version |-> "one", base_scan_schema_version |-> "count",
               head_scan_schema_version |-> "count", comparability |-> "comparability",
               analysis_health_change |-> "nested", anchors |-> "nested", mappings |-> "nested",
               files |-> "nested", findings |-> "nested", metrics_delta |-> "nested"])
  /\ Exact(j.analysis_health_change, [from |-> "health", to |-> "health"])
  /\ AreAnchorChanges(j.anchors)
  /\ AreMappingChanges(j.mappings)
  /\ AreFileChanges(j.files)
  /\ AreFindingChanges(j.findings)
  /\ AreDeltas(j.metrics_delta)

IsMetadata(j) ==
  Exact(j, [provider |-> "provider", repository |-> "name", commit |-> "name", branch |-> "name",
            pull_request |-> "number", run_url |-> "name"])

\* A policy may leave out everything but its version; a field it does not know
\* is refused, and so is a kind that is listed twice.
Has(j, field) == field \in DOMAIN j
Optional(j, field, Reads(_)) == Has(j, field) => Reads(j[field])
Closed(j, fields) == IsObject(j) /\ DOMAIN j \subseteq fields

ReadsFailOn(f) ==
  /\ Closed(f, {"analysis_health", "finding_kinds"})
  /\ Optional(f, "analysis_health", LAMBDA v : v = "degraded")
  /\ Optional(f, "finding_kinds", LAMBDA v :
       v \notin {Wrong, Null} /\ ToSet(v) \subseteq ToSet(FindingKinds) /\ IsInjective(v))

ReadsThresholds(t) ==
  /\ Closed(t, {"min_covered_product_file_percent", "max_untraced_product_files"})
  /\ Optional(t, "min_covered_product_file_percent", LAMBDA v : v \notin {Wrong, Null} /\ v \in 0..100)
  /\ Optional(t, "max_untraced_product_files", LAMBDA v : v \notin {Wrong, Null} /\ v \in Nat)

IsPolicy(j) ==
  /\ Closed(j, {"version", "fail_on", "thresholds"})
  /\ Has(j, "version") /\ j.version = 1
  /\ Optional(j, "fail_on", ReadsFailOn)
  /\ Optional(j, "thresholds", ReadsThresholds)

-----------------------------------------------------------------------------
(* the writers *)

\* renderObject: the fields it names, each of which the view must have.
Object(view, fields) == [field \in fields |-> view[field]]
Each(list, Render(_)) == [k \in DOMAIN list |-> Render(list[k])]

RenderFinding(f) ==
  Object(f, CASE f.kind \in {"unmapped_anchor", "stale_mapping_anchor"} -> {"kind", "anchor_id"}
              [] f.kind = "broken_seed_path"        -> {"kind", "anchor_id", "seed_path"}
              [] f.kind = "unresolved_static_edge"  -> {"kind", "importer", "specifier"}
              [] f.kind = "unsupported_static_edge" -> {"kind", "importer", "syntax_kind", "specifier"}
              [] f.kind \in {"out_of_scope_static_edge", "unsupported_local_target"} ->
                   {"kind", "importer", "target_path"}
              [] f.kind = "untraced_product_file"   -> {"kind", "path"})

RenderConfig(c) ==
  [Object(c, {"version", "product_root", "spec_roots", "ignore_roots", "tsconfig_path",
              "local_aliases"})
     EXCEPT !.local_aliases = Each(c.local_aliases, LAMBDA a : Object(a, {"prefix", "target"}))]

RenderSource(s) ==
  Object(s, IF s.kind = "markdown_atx_heading" THEN {"kind", "line", "column", "heading_level"}
            ELSE {"kind", "line", "column"})

\* An anchor of schema 4 is written without its source.
RenderObservedAnchor(o, schema) ==
  IF schema = 4 THEN Object(o, {"spec_path", "mapping_state"})
  ELSE [Object(o, {"spec_path", "mapping_state", "source"}) EXCEPT !.source = RenderSource(o.source)]

RenderSummary(s) ==
  Object(s, {"product_file_count", "stored_mapping_count", "usable_mapping_count",
             "observed_anchor_count", "active_anchor_count", "draft_anchor_count",
             "covered_product_file_count", "uncovered_product_file_count",
             "directly_seeded_product_file_count", "single_cover_product_file_count",
             "multi_cover_product_file_count"})

RenderMetrics(m) ==
  [summary |-> RenderSummary(m.summary),
   anchors |-> Each(m.anchors, LAMBDA x :
                 Object(x, {"seed_file_count", "direct_seed_file_count", "reached_file_count",
                            "transitive_reached_file_count", "unique_reached_file_count",
                            "shared_reached_file_count"}))]

RenderScan(v) ==
  [schema_version       |-> v.schema_version,
   config               |-> RenderConfig(v.config),
   analysis_health      |-> v.analysis_health,
   observed_anchors     |-> Each(v.observed_anchors,
                                 LAMBDA o : RenderObservedAnchor(o, v.schema_version)),
   stored_mappings      |-> Each(v.stored_mappings,
                                 LAMBDA m : Object(m, {"state", "seed_files", "reached_files"})),
   files                |-> Each(v.files, LAMBDA f :
                                 Object(f, {"covering_anchor_ids", "supported_local_targets"})),
   traceability_metrics |-> RenderMetrics(v.traceability_metrics),
   findings             |-> Each(v.findings, RenderFinding)]

RenderViolation(x) ==
  Object(x, CASE x.kind = "analysis_health_degraded" -> {"kind"}
              [] x.kind = "finding_kind_present" -> {"kind", "finding_kind", "count"}
              [] OTHER -> {"kind", "actual", "threshold"})

RenderPolicySummary(s) ==
  Object(s, {"observed_anchor_count", "usable_mapping_count", "product_file_count",
             "covered_product_file_count", "uncovered_product_file_count",
             "covered_product_file_percent", "untraced_product_file_count"})

RenderPolicyResult(v) ==
  [Object(v, {"schema_version", "decision", "source_scan_schema_version", "analysis_health",
              "violations", "summary"})
     EXCEPT !.violations = Each(v.violations, RenderViolation),
            !.summary = RenderPolicySummary(@)]

RenderChanges(list, key) == Each(list, LAMBDA c : Object(c, {key, "from", "to"}))

RenderFileDiff(d) ==
  [Object(d, {"added", "removed", "became_covered", "lost_coverage",
              "covering_anchor_ids_changed", "supported_local_targets_changed"})
     EXCEPT !.covering_anchor_ids_changed = RenderChanges(@, "path"),
            !.supported_local_targets_changed = RenderChanges(@, "path")]

RenderDiff(v) ==
  [schema_version           |-> v.schema_version,
   base_scan_schema_version |-> v.base_scan_schema_version,
   head_scan_schema_version |-> v.head_scan_schema_version,
   comparability            |-> v.comparability,
   analysis_health_change   |-> Object(v.analysis_health_change, {"from", "to"}),
   anchors  |-> [Object(v.anchors, {"added", "removed", "mapping_state_changed"})
                   EXCEPT !.mapping_state_changed = RenderChanges(@, "anchor_id")],
   mappings |-> [Object(v.mappings, {"added", "removed", "state_changed"})
                   EXCEPT !.state_changed = RenderChanges(@, "anchor_id")],
   files    |-> RenderFileDiff(v.files),
   findings |-> [added |-> Each(v.findings.added, RenderFinding),
                 removed |-> Each(v.findings.removed, RenderFinding)],
   metrics_delta |-> RenderSummary(v.metrics_delta)]

RenderMetadata(m) ==
  Object(m, {"provider", "repository", "commit", "branch", "pull_request", "run_url"})

RenderBundle(v) ==
  [schema_version |-> v.schema_version,
   tool      |-> Object(v.tool, {"name", "version"}),
   metadata  |-> RenderMetadata(v.metadata),
   artifacts |-> [scan  |-> RenderScan(v.artifacts.scan),
                  check |-> RenderPolicyResult(v.artifacts.check),
                  diff  |-> RenderDiff(v.artifacts.diff)],
   hashes    |-> Object(v.hashes, {"scan_sha256", "check_sha256", "diff_sha256"})]

RenderCoverage(c) ==
  IF Has(c, "reached_files")
  THEN [reached_files |-> Each(c.reached_files, LAMBDA r : Object(r, {"path", "path_from_seed"}))]
  ELSE Object(c, {"covered", "single_cover", "multi_cover"})

RenderUnlessNull(part, fields) == IF part = Null THEN Null ELSE Object(part, fields)

RenderExplain(v) ==
  [schema_version |-> v.schema_version,
   subject  |-> Object(v.subject, IF v.subject.kind = "anchor" THEN {"kind", "anchor_id"}
                                  ELSE {"kind", "path"}),
   observed |-> RenderUnlessNull(v.observed, {"present", "spec_path", "mapping_state"}),
   mapping  |-> RenderUnlessNull(v.mapping, {"present", "state", "seed_files",
                                             "reached_file_count"}),
   file     |-> RenderUnlessNull(v.file, {"present", "covering_anchor_ids",
                                          "supported_local_targets"}),
   coverage |-> RenderCoverage(v.coverage),
   findings |-> Each(v.findings, RenderFinding)]
=============================================================================
