------------------------- MODULE MCArtifactCommands -------------------------
(***************************************************************************)
(* Three states of a project: one that scans clean, with chains of imports *)
(* that end in the same file and files two anchors cover or none does; one *)
(* with another scope and every kind of trouble; and one without a config. *)
(***************************************************************************)
EXTENDS ArtifactCommands

MCAnchors == 1..4
MCPaths == 1..9
MCTexts == 1..9

MCConfig(ignored) ==
  [product_root |-> 8, spec_roots |-> {9}, ignore_roots |-> ignored, tsconfig_path |-> Null,
   local_aliases |-> {[prefix |-> 2, target |-> 8], [prefix |-> 1, target |-> 8]}]

Heading == [kind |-> "markdown_atx_heading", line |-> 1, column |-> 1, heading_level |-> 2]
RootId  == [kind |-> "yaml_root_id", line |-> 1, column |-> 5]
Anchor(status, source) == [status |-> status, spec_path |-> 9, source |-> source]

\* 1 and 2 lead to 3, one directly and one over 4; nothing leads to 5 and 6.
Chains ==
  [fault |-> 0, config |-> MCConfig({}),
   anchors |-> (1 :> Anchor("active", Heading)) @@ (2 :> Anchor("active", RootId)),
   mappings |-> (1 :> {1, 2}) @@ (2 :> {3}),
   files |-> 1..6,
   edges |-> [f \in 1..6 |-> CASE f = 1 -> {3} [] f = 2 -> {4} [] f = 4 -> {3} [] OTHER -> {}],
   graph |-> {}]

\* A broken seed, a draft with a mapping, an anchor without one, and two edges that
\* differ in their syntax alone.  3 is covered by another anchor than before, and 1
\* by none.
Troubled ==
  LET Edge(syntax) == [kind |-> "unsupported_static_edge", importer |-> 1, syntax_kind |-> syntax,
                       specifier |-> 1]
  IN  [fault |-> 0, config |-> MCConfig({6}),
       anchors |-> (1 :> Anchor("active", Heading)) @@ (2 :> Anchor("draft", RootId))
                   @@ (3 :> Anchor("active", Heading)) @@ (4 :> Anchor("active", RootId)),
       mappings |-> (1 :> {1, 7}) @@ (2 :> {3}) @@ (3 :> {3}),
       files |-> 1..3,
       edges |-> [f \in 1..3 |-> IF f = 1 THEN {3} ELSE {}],
       graph |-> {Edge("require_call"), Edge("dynamic_import"),
                  [kind |-> "out_of_scope_static_edge", importer |-> 2, target_path |-> 6],
                  [kind |-> "unresolved_static_edge", importer |-> 2, specifier |-> 2],
                  [kind |-> "unsupported_local_target", importer |-> 3, target_path |-> 5]}]

MCProjects == {Chains, Troubled, [Chains EXCEPT !.fault = 2]}

Github == [provider |-> "github", repository |-> 1, commit |-> 2, branch |-> Null,
           pull_request |-> 7, run_url |-> Null]

\* 66% is what is left of two files in three.
MCInputs ==
  [name \in {"percent", "lenient", "strict", "twice", "github", "nobody"} |->
     CASE name = "percent" -> [version |-> 1, thresholds |-> [min_covered_product_file_percent |-> 67]]
       [] name = "lenient" -> [version |-> 1, fail_on |-> [finding_kinds |-> <<"broken_seed_path">>],
                               thresholds |-> [max_untraced_product_files |-> 1]]
       [] name = "strict"  -> [version |-> 1, fail_on |-> [analysis_health |-> "degraded",
                                 finding_kinds |-> <<"untraced_product_file", "unmapped_anchor">>]]
       [] name = "twice"   -> [version |-> 1, fail_on |->
                                 [finding_kinds |-> <<"unmapped_anchor", "unmapped_anchor">>]]
       [] name = "github"  -> Github
       [] name = "nobody"  -> [Github EXCEPT !.provider = Wrong]]

MCAnchorOf == ("A1" :> 1) @@ ("A2" :> 2)
MCPathOf == ("F3" :> 3) @@ ("F7" :> 7)
MCAnchorTokens == DOMAIN MCAnchorOf
MCPathTokens == DOMAIN MCPathOf \union Slots \union DOMAIN MCInputs

J == "--json"
MCArgLists(command) ==
  CASE command = "scan" -> {<<>>, <<J>>, <<J, J>>}
    [] command = "check" ->
         {<<"--policy", p, J>> : p \in {"percent", "lenient", "twice"}}
         \union {<<"--scan", "base.json", "--policy", p>> : p \in {"percent", "strict"}}
         \union {<<"--policy", "percent", "--scan", "check.json">>,
                 <<J, "--policy", "strict", "--scan", "head.json">>,
                 <<"--scan", "base.json">>, <<"--policy", "strict", J, "F3">>,
                 <<"--policy", "strict", "--scan">>}
    [] command = "diff" ->
         {<<"--base", "base.json", "--head", "head.json", J>>,
          <<J, "--head", "head.json", "--base", "base.json">>,
          <<"--base", "base.json", "--head", "diff.json">>,
          <<"--base", J, "--head", "head.json">>}
    [] command = "explain" ->
         {<<"--scan", "base.json", "--anchor", a, J>> : a \in {"A1", "A2"}}
         \union {<<"--file", "F3", J, "--scan", "head.json">>,
                 <<"--anchor", "F3", "--scan", "base.json">>,
                 <<"--anchor", "A1", "--file", "F3", "--scan", "base.json">>}
    [] command = "report" ->
         {<<"--format", "markdown", "--scan", "head.json", "--diff", "diff.json">>,
          <<"--check", "check.json", "--format", "junit">>,
          <<"--scan", "base.json", "--format", "sarif", "--check", "check.json">>,
          <<"--scan", "base.json", "--check", "check.json", "--format", "junit">>}
    [] command = "bundle" ->
         {<<J, "--metadata", m, "--scan", "head.json", "--diff", "diff.json", "--check", "check.json">> :
            m \in {"github", "nobody"}}
         \union {<<"--scan", "head.json", "--check", "check.json", "--diff", "diff.json", J>>}
    [] command = "init" ->
         {<<"--spec-root", "F3", "--root", "F7", "--spec-root", "A1">>,
          <<"--root", "F7", "--root", "F7", "--spec-root", "F3">>}
    [] command = "map" ->
         {<<"--seed", "F7", "--replace", "--anchor", "A1", "--seed", "F3">>,
          <<"--seed", "F3", "--anchor", "A1", "--seed", "F3">>,
          <<"--replace", "F3", "--seed", "F7", "--anchor", "A2">>}
    [] command = "scaffold" -> {<<"--output", "F7">>, <<"--output", "-x">>}
=============================================================================
