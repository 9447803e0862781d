-------------------------- MODULE ArtifactCommands --------------------------
(***************************************************************************)
(* The commands that make and read artifacts (src/cli/commands.ts and      *)
(* artifact-commands.ts): scan, check, diff, explain, report and bundle.   *)
(*                                                                         *)
(* A user runs one command after the other, sends the output of some into  *)
(* files that later ones read, works on the project in between, and may    *)
(* edit a file.  A command is one step: it is one synchronous call.  The   *)
(* shell empties the file it sends an output to before the command starts. *)
(***************************************************************************)
EXTENDS ArtifactEngines, CommandLine

CONSTANTS
  Projects,      \* the states of the project
  Inputs,        \* the policies (YAML mappings) and metadata, by the file they are in
  ArgLists(_),   \* the arguments each command is given
  AnchorOf,      \* the anchors that tokens name
  PathOf,        \* the paths that tokens name
  ToolVersion,   \* the version in package.json
  MaxActions,    \* bound on the steps that change a file or the project
  MaxEdits       \* bound on the edits of artifacts

ASSUME CommandsAssumption ==
  /\ MaxActions \in Nat /\ MaxEdits \in Nat
  /\ DOMAIN AnchorOf = AnchorTokens /\ DOMAIN PathOf \subseteq PathTokens
  /\ \A command \in Commands : ArgLists(command) \subseteq Seq(STRING)

\* What the loaded configuration, the spec index and the product graph are.
ASSUME ProjectsAssumption ==
  \A p \in Projects :
    /\ p.fault \in 0..3
    /\ p.config.product_root \in Paths /\ p.config.tsconfig_path \in {Null, "tsconfig.json"}
    /\ p.config.spec_roots \subseteq Paths /\ IsFiniteSet(p.config.spec_roots)
    /\ p.config.ignore_roots \subseteq Paths /\ IsFiniteSet(p.config.ignore_roots)
    /\ p.config.local_aliases \subseteq [prefix : Texts, target : Texts]
    /\ IsFiniteSet(p.config.local_aliases)
    /\ DOMAIN p.anchors \subseteq Anchors /\ IsFiniteSet(DOMAIN p.anchors)
    /\ \A a \in DOMAIN p.anchors : /\ p.anchors[a].spec_path \in Paths
                                  /\ OneOf(p.anchors[a].source, SourceFields)
    /\ DOMAIN p.mappings \subseteq Anchors /\ IsFiniteSet(DOMAIN p.mappings)
    /\ \A a \in DOMAIN p.mappings : p.mappings[a] \subseteq Paths /\ IsFiniteSet(p.mappings[a])
    /\ p.files \subseteq Paths /\ IsFiniteSet(p.files)
    /\ \A f \in p.files : p.edges[f] \subseteq Paths /\ IsFiniteSet(p.edges[f])
    /\ IsFiniteSet(p.graph) /\ \A f \in p.graph : OneOf(f, FindingFields)

ScanSlots == {"base.json", "head.json"}
Slots == ScanSlots \union {"check.json", "diff.json"}

VARIABLES
  project,   \* the state of the project
  file,      \* the files outputs are sent to
  written,   \* for each file, the view whose rendering it holds, unless edited
  outcome,   \* what the command that has just ended did, Null at the prompt
  actions,   \* how many steps changed a file or the project
  edits      \* how many edits

vars == <<project, file, written, outcome, actions, edits>>

\* A file without JSON in it is missing, unreadable, not UTF-8 or no JSON text.
Absent  == [form |-> "absent", json |-> Null]
Garbled == [form |-> "garbled", json |-> Null]
JsonFile(form, json) == [form |-> form, json |-> json]

\* A scan as the releases before schema 5 wrote it.
Schema4(scan) == [scan EXCEPT !.schema_version = 4,
                              !.observed_anchors = Each(@, LAMBDA o : Object(o, {"spec_path", "mapping_state"}))]

\* A base was scanned before the tool was upgraded, unless the project cannot be.
Init ==
  /\ project \in Projects
  /\ outcome = Null
  /\ actions = 0 /\ edits = 0
  /\ written = [s \in Slots |-> Null]
  /\ file = [s \in Slots |-> IF s = "base.json" /\ project.fault = 0
                             THEN JsonFile("canonical", Schema4(ScanOf(project))) ELSE Absent]

-----------------------------------------------------------------------------
(* reading *)

\* What the JSON of an option must be.
Acceptable(option, j) ==
  CASE option \in {"--scan", "--base", "--head"} -> IsScan(j)
    [] option = "--policy"   -> IsPolicy(j)
    [] option = "--check"    -> IsPolicyResult(j)
    [] option = "--diff"     -> IsDiff(j)
    [] option = "--metadata" -> IsMetadata(j)

\* The file a token names.
FileAt(files, token) ==
  IF token \in Slots THEN files[token]
  ELSE IF token \in DOMAIN Inputs THEN JsonFile("other", Inputs[token])
  ELSE Absent

\* loadJsonArtifactText and the reader of the option: the value, or Refused.
Loaded(files, option, token) ==
  LET f == FileAt(files, token)
  IN  IF f.form \in {"canonical", "other"} /\ Acceptable(option, f.json) THEN f.json ELSE Refused

\* The artifact an option names; Null when it is not given.
Option(files, options, option) ==
  IF Given(options, option) THEN Loaded(files, option, options[option][1]) ELSE Null

-----------------------------------------------------------------------------
(* running a command *)

Truncated(target) == IF target = Null THEN file ELSE [file EXCEPT ![target] = Garbled]

\* dispatchCommand: what is written is the whole output or nothing; why says what
\* stopped the command.  view is what the output renders.
Ends(command, args, target, exit, why, json, view) ==
  /\ outcome' = [command |-> command, args |-> args, options |-> CommandArgs(command, args),
                 exit |-> exit, why |-> why, json |-> json]
  /\ file' = IF target = Null THEN file
             ELSE [file EXCEPT ![target] = IF view = Null THEN Garbled
                                           ELSE JsonFile("canonical", json)]
  /\ written' = IF target = Null THEN written ELSE [written EXCEPT ![target] = view]
  /\ actions' = IF target = Null THEN actions ELSE actions + 1
  /\ UNCHANGED <<project, edits>>

Fails(command, args, target, exit, why) == Ends(command, args, target, exit, why, Null, Null)

\* The JSON of the view, or an output for people, which is no JSON.
Prints(command, args, target, exit, json, view) ==
  IF Given(CommandArgs(command, args), "--json")
  THEN Ends(command, args, target, exit, "none", json, view)
  ELSE Ends(command, args, target, exit, "none", Null, Null)

AtPrompt == outcome = Null
Ready == actions < MaxActions

\* Where an output is sent: the terminal, or the file of its kind if it is JSON.
Targets(command, args) ==
  {Null} \union
  IF ~Contains(args, "--json") THEN {}
  ELSE CASE command = "scan"  -> ScanSlots
         [] command = "check" -> {"check.json"}
         [] command = "diff"  -> {"diff.json"}
         [] OTHER             -> {}

\* The arguments of any command are refused before its handler is called.
RefuseArguments(command, args, target) ==
  /\ CommandArgs(command, args) = Refused
  /\ Fails(command, args, target, 4, "arguments")

\* The handlers of init, map and scaffold are the subject of ConfigCommands and
\* Scaffold: what they do here is to change the project, at another step.
HandOver(command, args) ==
  /\ CommandArgs(command, args) # Refused
  /\ Ends(command, args, Null, Null, "handler", Null, Null)

Scan(args, target) ==
  /\ CommandArgs("scan", args) # Refused
  /\ IF project.fault # 0 THEN Fails("scan", args, target, project.fault, "project")
     ELSE Prints("scan", args, target, 0, RenderScan(ScanOf(project)), ScanOf(project))

\* The policy first, then the scan, of a file or of the project.
Check(args, target) ==
  LET options == CommandArgs("check", args)
      files   == Truncated(target)
      live    == ~Given(options, "--scan")
      policy  == Option(files, options, "--policy")
      scan    == IF live THEN ScanOf(project) ELSE Option(files, options, "--scan")
      result  == evaluatePolicy(scan, policy)
  IN  /\ options # Refused
      /\ IF policy = Refused THEN Fails("check", args, target, 4, "input")
         ELSE IF live /\ project.fault # 0 THEN Fails("check", args, target, project.fault, "project")
         ELSE IF ~live /\ scan = Refused THEN Fails("check", args, target, 4, "input")
         ELSE Prints("check", args, target, IF result.decision = "fail" THEN 5 ELSE 0,
                     RenderPolicyResult(result), result)

Diff(args, target) ==
  LET options == CommandArgs("diff", args)
      files   == Truncated(target)
      base    == Option(files, options, "--base")
      head    == Option(files, options, "--head")
      diff    == diffScanResults(base, head)
  IN  /\ options # Refused
      /\ IF Refused \in {base, head} THEN Fails("diff", args, target, 4, "input")
         ELSE Prints("diff", args, target, 0, RenderDiff(diff), diff)

Explain(args, target) ==
  LET options == CommandArgs("explain", args)
      scan    == Option(file, options, "--scan")
      view    == IF Given(options, "--anchor") THEN explainAnchor(scan, AnchorOf[options["--anchor"][1]])
                 ELSE explainFile(scan, PathOf[options["--file"][1]])
  IN  /\ options # Refused
      /\ IF scan = Refused THEN Fails("explain", args, target, 4, "input")
         ELSE Prints("explain", args, target, 0, RenderExplain(view), view)

\* What a report shows: a junit report the check, the others the scan, with the
\* check and the diff if there are any; a markdown report suggests actions.
Report(args, target) ==
  LET options == CommandArgs("report", args)
      scan    == Option(file, options, "--scan")
      check   == Option(file, options, "--check")
      diff    == Option(file, options, "--diff")
      model   == [scan |-> scan, check |-> check, diff |-> diff,
                  actions |-> IF options["--format"] = <<"markdown">>
                              THEN buildSuggestedActions(scan.findings, diff) ELSE <<>>]
  IN  /\ options # Refused
      /\ IF Refused \in {scan, check, diff} THEN Fails("report", args, target, 4, "input")
         ELSE Ends("report", args, target, 0, "none", model, model)

Bundle(args, target) ==
  LET options  == CommandArgs("bundle", args)
      scan     == Option(file, options, "--scan")
      check    == Option(file, options, "--check")
      diff     == Option(file, options, "--diff")
      metadata == Option(file, options, "--metadata")
      bundle   == buildArtifactBundle(scan, check, diff, metadata, ToolVersion)
  IN  /\ options # Refused
      /\ IF Refused \in {scan, check, diff, metadata} THEN Fails("bundle", args, target, 4, "input")
         ELSE Prints("bundle", args, target, 0, RenderBundle(bundle), bundle)

-----------------------------------------------------------------------------
(* the user *)

\* Whatever happens to the project, by init, map and scaffold too.
ChangeProject ==
  /\ Ready /\ AtPrompt
  /\ \E p \in Projects \ {project} : project' = p
  /\ actions' = actions + 1
  /\ UNCHANGED <<file, written, outcome, edits>>

SomeKey(f) == CHOOSE k \in DOMAIN f : TRUE

\* A field is lost, gets a value that may not stand there, or is added.
Damaged(r) ==
  LET field == SomeKey(r)
  IN  {[k \in DOMAIN r \ {field} |-> r[k]], [r EXCEPT ![field] = Wrong], ("extra" :> Wrong) @@ r}

\* Damage to the value of a key of some object, if there is one.
DamagedAt(f) == IF DOMAIN f = {} THEN {} ELSE {[f EXCEPT ![SomeKey(f)] = x] : x \in Damaged(f[SomeKey(f)])}

\* Scans that only a person writes: their fields are right, what they say need not be.
Rewritten(j) ==
  {[j EXCEPT !.findings = @ \o @], [j EXCEPT !.findings = Reverse(@)],
   [j EXCEPT !.files = Each(@, LAMBDA f : [f EXCEPT !.covering_anchor_ids = Reverse(@) \o @])],
   [j EXCEPT !.traceability_metrics.summary.covered_product_file_count = 0],
   [j EXCEPT !.traceability_metrics.summary.product_file_count = -1],
   [j EXCEPT !.schema_version = 9 - @]}

EditsOf(s, j) ==
  Damaged(j) \union
  CASE s \in ScanSlots ->
         {[j EXCEPT !.config = x] : x \in Damaged(j.config)}
         \union {[j EXCEPT !.observed_anchors = x] : x \in DamagedAt(j.observed_anchors)}
         \union {[j EXCEPT !.stored_mappings = x] : x \in DamagedAt(j.stored_mappings)}
         \union {[j EXCEPT !.files = x] : x \in DamagedAt(j.files)}
         \union {[j EXCEPT !.findings = x] : x \in DamagedAt(j.findings)}
         \union Rewritten(j)
    [] s = "check.json" ->
         {[j EXCEPT !.violations = x] : x \in DamagedAt(j.violations)}
         \union {[j EXCEPT !.summary.product_file_count = -1]}
    [] s = "diff.json" ->
         {[j EXCEPT !.findings.added = x] : x \in DamagedAt(j.findings.added)}
         \union {[j EXCEPT !.metrics_delta = x] : x \in Damaged(j.metrics_delta)}

\* An artifact is edited, written in another layout, or made unreadable.
Edit(s) ==
  /\ Ready /\ AtPrompt /\ edits < MaxEdits
  /\ file[s].form = "canonical"
  /\ \/ \E j \in EditsOf(s, file[s].json) : file' = [file EXCEPT ![s] = JsonFile("canonical", j)]
     \/ file' = [file EXCEPT ![s].form = "other"]
     \/ file' = [file EXCEPT ![s] = Garbled]
  /\ written' = [written EXCEPT ![s] = Null]
  /\ actions' = actions + 1 /\ edits' = edits + 1
  /\ UNCHANGED <<project, outcome>>

\* The outcome is seen, and the prompt is back.
Prompt ==
  /\ outcome # Null
  /\ outcome' = Null
  /\ UNCHANGED <<project, file, written, actions, edits>>

\* The command lines there are, with where the output is sent.
Calls(command) ==
  {call \in ArgLists(command) \X ({Null} \union Slots) :
     /\ call[2] \in Targets(command, call[1])
     /\ call[2] # Null => Ready}

Run(command, args, target) ==
  \/ command = "scan"    /\ Scan(args, target)
  \/ command = "check"   /\ Check(args, target)
  \/ command = "diff"    /\ Diff(args, target)
  \/ command = "explain" /\ Explain(args, target)
  \/ command = "report"  /\ Report(args, target)
  \/ command = "bundle"  /\ Bundle(args, target)
  \/ command \in {"init", "map", "scaffold"} /\ HandOver(command, args)
  \/ RefuseArguments(command, args, target)

Next ==
  \/ AtPrompt /\ \E command \in Commands : \E call \in Calls(command) : Run(command, call[1], call[2])
  \/ Prompt
  \/ ChangeProject
  \/ \E s \in Slots : Edit(s)

Spec == Init /\ [][Next]_vars

-----------------------------------------------------------------------------
(* properties *)

Ran(command) == outcome # Null /\ outcome.command = command

Value(option) == outcome.options[option][1]
FileOf(option) == FileAt(file, Value(option))

\* A scan that the tool itself has written.
Vouched(option) == Value(option) \in ScanSlots /\ written[Value(option)] # Null

\* The option that reads the artifacts of a file.
ReaderOf(s) == CASE s \in ScanSlots -> "--scan" [] s = "check.json" -> "--check" [] s = "diff.json" -> "--diff"

\* Every artifact a command has written, a refused reader of which would stop a
\* pipeline that did nothing wrong, is read back as the view it renders; and a
\* bundle carries the digests of the very bytes of the files it was made of, unless
\* these have another layout (artifact-io.ts, artifact-json-validation.ts,
\* artifact-policy-validation.ts against render-json.ts, bundle-model.ts).
WhatIsWrittenIsRead ==
  /\ \A s \in Slots :
       written[s] # Null => Loaded(file, ReaderOf(s), s) = written[s]
  /\ Ran("bundle") /\ outcome.json # Null =>
       \A pair \in {<<"--scan", "scan_sha256">>, <<"--check", "check_sha256">>,
                    <<"--diff", "diff_sha256">>} :
         FileOf(pair[1]).form = "canonical" =>
           outcome.json.hashes[pair[2]] = Bytes("canonical", FileOf(pair[1]).json)

\* The scan a check is about, and its coverage counted from its files where the
\* tool vouches for them.
CheckedScan == IF Given(outcome.options, "--scan") THEN FileOf("--scan").json ELSE ScanOf(project)
CheckedCoverage ==
  LET scan == CheckedScan
      s    == scan.traceability_metrics.summary
  IN  IF Given(outcome.options, "--scan") /\ ~Vouched("--scan")
      THEN [covered |-> s.covered_product_file_count, files |-> s.product_file_count]
      ELSE [covered |-> Cardinality(Covered(scan.files)),
            files   |-> Cardinality(DOMAIN scan.files)]

PolicyViolated(policy) ==
  LET found   == ToSet(CheckedScan.findings)
      count   == CheckedCoverage
      failOn  == IF Has(policy, "fail_on") THEN policy.fail_on ELSE <<>>
      limits  == IF Has(policy, "thresholds") THEN policy.thresholds ELSE <<>>
  IN  \/ Has(failOn, "analysis_health") /\ CheckedScan.analysis_health = "degraded"
      \/ Has(failOn, "finding_kinds") /\ \E f \in found : f.kind \in ToSet(failOn.finding_kinds)
      \/ /\ Has(limits, "min_covered_product_file_percent")
         /\ count.covered * 100 < limits.min_covered_product_file_percent * count.files
      \/ /\ Has(limits, "max_untraced_product_files")
         /\ Len(OfKind(CheckedScan.findings, "untraced_product_file"))
              > limits.max_untraced_product_files

\* A check fails, with exit code 5 and no other, exactly when the coverage as it is,
\* before it is rounded to a percentage, or a finding violates the policy; and before
\* that a policy that cannot be read comes first, then a project that cannot be
\* scanned (runCheckCommand of commands.ts, policy-engine.ts).
GateExact ==
  Ran("check") /\ outcome.options # Refused =>
    LET policy == Loaded(file, "--policy", Value("--policy"))
        live   == ~Given(outcome.options, "--scan")
        unread == ~live /\ Loaded(file, "--scan", Value("--scan")) = Refused
    IN  /\ outcome.exit = 4 <=> policy = Refused \/ unread
        /\ outcome.exit \in {1, 2, 3} <=> policy # Refused /\ live /\ project.fault # 0
        /\ outcome.exit \in {0, 5} => (outcome.exit = 5 <=> PolicyViolated(policy))

\* A list of changes turns the values of base into those of head.
Turns(changes, key, base, head, ValueIn(_)) ==
  LET Of(k) == {i \in DOMAIN changes : changes[i][key] = k}
  IN  \A k \in DOMAIN base \intersect DOMAIN head :
        \/ Of(k) = {} /\ ValueIn(base[k]) = ValueIn(head[k])
        \/ \E i \in DOMAIN changes :
             /\ Of(k) = {i}
             /\ changes[i].from = ValueIn(base[k]) /\ changes[i].to = ValueIn(head[k])
             /\ changes[i].from # changes[i].to

Becomes(base, removed, added, head) ==
  /\ ToSet(removed) \subseteq base /\ ToSet(added) \intersect base = {}
  /\ head = (base \ ToSet(removed)) \union ToSet(added)

\* The diff d of the scans b and h, added to its base, gives its head: the same anchors,
\* mappings and files in the same states with the same imports, the same covered files, the
\* same findings and the same counters; and if both scans are counted right the difference of the number
\* of covered files is that of the files the diff lists.
DiffRight(b, h, d, counted) ==
  LET kept == DOMAIN b.files \intersect DOMAIN h.files
      before == b.traceability_metrics.summary
      after  == h.traceability_metrics.summary
  IN  /\ Becomes(DOMAIN b.observed_anchors, d.anchors.removed, d.anchors.added,
                 DOMAIN h.observed_anchors)
      /\ Becomes(DOMAIN b.stored_mappings, d.mappings.removed, d.mappings.added,
                 DOMAIN h.stored_mappings)
      /\ Becomes(DOMAIN b.files, d.files.removed, d.files.added, DOMAIN h.files)
      /\ Becomes(ToSet(b.findings), d.findings.removed, d.findings.added, ToSet(h.findings))
      /\ Becomes(Covered(b.files) \intersect kept, d.files.lost_coverage,
                 d.files.became_covered, Covered(h.files) \intersect kept)
      /\ Turns(d.anchors.mapping_state_changed, "anchor_id", b.observed_anchors,
               h.observed_anchors, LAMBDA o : o.mapping_state)
      /\ Turns(d.mappings.state_changed, "anchor_id", b.stored_mappings, h.stored_mappings,
               LAMBDA m : m.state)
      /\ Turns(d.files.covering_anchor_ids_changed, "path", b.files, h.files,
               LAMBDA f : InOrder(f.covering_anchor_ids))
      /\ Turns(d.files.supported_local_targets_changed, "path", b.files, h.files,
               LAMBDA f : InOrder(f.supported_local_targets))
      /\ \A field \in SummaryFields : before[field] + d.metrics_delta[field] = after[field]
      /\ counted =>
           d.metrics_delta.covered_product_file_count =
             Cardinality(Covered(h.files) \intersect ToSet(d.files.added))
             - Cardinality(Covered(b.files) \intersect ToSet(d.files.removed))
             + Len(d.files.became_covered) - Len(d.files.lost_coverage)

\* A diff accounts for all that differs between its scans, and counts right where the
\* tool vouches for both (diff-engine.ts).
DiffReconstructs ==
  Ran("diff") /\ outcome.json # Null =>
    DiffRight(FileOf("--base").json, FileOf("--head").json, outcome.json,
              Vouched("--base") /\ Vouched("--head"))

\* The paths of length n of a scan that start in a set of files.
PathsOf(scan, seeds, n) ==
  LET paths[k \in 0..n] ==
        IF k <= 1 THEN {<<s>> : s \in seeds}
        ELSE UNION {{Append(path, t) : t \in TargetsIn(scan, Last(path))} : path \in paths[k - 1]}
  IN  paths[n]

\* The explanation of an anchor gives every file the anchor reaches a path that leads
\* from one of its seeds along imports of the scan to that file, and no path that does
\* is shorter (anchorPathsByFile of explain-engine.ts).
ExplainShortest ==
  Ran("explain") /\ outcome.json # Null /\ Given(outcome.options, "--anchor") /\ Vouched("--scan") =>
    LET scan  == FileOf("--scan").json
        seeds == ToSet(outcome.json.mapping.seed_files)
        reached == outcome.json.coverage.reached_files
    IN  \A k \in DOMAIN reached :
          LET path == reached[k].path_from_seed
          IN  /\ path \in PathsOf(scan, seeds, Len(path))
              /\ Last(path) = reached[k].path
              /\ \A n \in 1..(Len(path) - 1) :
                   \A q \in PathsOf(scan, seeds, n) : Last(q) # Last(path)

\* The options of each command, and which of them must be there.
ValuedOptions(command) ==
  CASE command = "init"     -> {"--root", "--spec-root", "--ignore-root"}
    [] command = "map"      -> {"--anchor", "--seed"}
    [] command = "scaffold" -> {"--output"}
    [] command = "scan"     -> {}
    [] command = "check"    -> {"--policy", "--scan"}
    [] command = "diff"     -> {"--base", "--head"}
    [] command = "explain"  -> {"--scan", "--anchor", "--file"}
    [] command = "report"   -> {"--scan", "--check", "--diff", "--format"}
    [] command = "bundle"   -> {"--scan", "--check", "--diff", "--metadata"}

FlagOptions(command) ==
  CASE command = "map" -> {"--replace"}
    [] command \in {"init", "scaffold", "report"} -> {}
    [] OTHER -> {"--json"}

Complete(command, given, format) ==
  CASE command = "init"     -> {"--root", "--spec-root"} \subseteq given
    [] command = "map"      -> {"--anchor", "--seed"} \subseteq given
    [] command = "scaffold" -> "--output" \in given
    [] command = "scan"     -> TRUE
    [] command = "check"    -> "--policy" \in given
    [] command = "diff"     -> {"--base", "--head"} \subseteq given
    [] command = "explain"  -> "--scan" \in given /\ ("--anchor" \in given) # ("--file" \in given)
    [] command = "report"   -> \/ format \in {"markdown", "sarif"} /\ "--scan" \in given
                               \/ format = "junit" /\ given = {"--format", "--check"}
    [] command = "bundle"   -> ValuedOptions("bundle") \union {"--json"} \subseteq given

\* A value may stand after its option.
MayFollow(command, option, value) ==
  CASE option \in {"--root", "--spec-root", "--ignore-root", "--format"} -> TRUE
    [] option = "--anchor" -> value \in AnchorTokens
    [] OTHER -> value \in PathTokens

KnownOptions(command) == ValuedOptions(command) \union FlagOptions(command)

\* The options there are, where they stand, and what follows them.
OptionPlaces(command, args) == {k \in DOMAIN args : args[k] \in KnownOptions(command)}
PlacesOf(command, args, option) == {k \in OptionPlaces(command, args) : args[k] = option}
GivenOptions(command, args) == {args[k] : k \in OptionPlaces(command, args)}
ValuesOf(command, args, option) ==
  {args[k + 1] : k \in PlacesOf(command, args, option) \ {Len(args)}}

IsOptionValue(command, args, k) ==
  /\ k - 1 \in OptionPlaces(command, args)
  /\ args[k - 1] \in ValuedOptions(command) /\ ~StartsWithDash(args[k])

\* Every argument is an option or its value, and none is there twice that may not be;
\* every value may follow its option, no two seeds are the same, and no option is missing.
Accepted(command, args) ==
  LET options == OptionPlaces(command, args)
      given   == GivenOptions(command, args)
      Places(option) == PlacesOf(command, args, option)
      values(option) == ValuesOf(command, args, option)
  IN  /\ \A k \in DOMAIN args : k \in options \/ IsOptionValue(command, args, k)
      /\ \A k \in options : args[k] \in ValuedOptions(command) =>
           k + 1 \in DOMAIN args /\ IsOptionValue(command, args, k + 1)
      /\ \A option \in given : option \in {"--spec-root", "--ignore-root", "--seed"}
                              \/ Cardinality(Places(option)) = 1
      /\ \A option \in given \intersect ValuedOptions(command) :
           \A value \in values(option) : MayFollow(command, option, value)
      /\ \A i, j \in Places("--seed") : i # j => args[i + 1] # args[j + 1]
      /\ Complete(command, given, IF "--format" \in given
                                  THEN CHOOSE v \in values("--format") : TRUE ELSE "")

\* The order of the options has no effect (docs/contract.md:717): arguments are
\* accepted exactly when each is an option of the command or the value of the option
\* right before it, no option but a root and a seed is there twice, and the options
\* there are complete, wherever they stand; and the handler gets each option with
\* the values that follow it, in the order they do (command-args.ts,
\* artifact-commands.ts).
OptionsInAnyOrder ==
  outcome # Null =>
    LET command == outcome.command
        args    == outcome.args
        given   == GivenOptions(command, args)
        Places(option) == PlacesOf(command, args, option)
    IN  /\ outcome.options # Refused <=> Accepted(command, args)
        /\ outcome.options # Refused =>
             /\ DOMAIN outcome.options = given
             /\ \A option \in given \intersect ValuedOptions(command) :
                  outcome.options[option] =
                    [n \in 1..Cardinality(Places(option)) |->
                       args[Sorted(Places(option))[n] + 1]]
=============================================================================
