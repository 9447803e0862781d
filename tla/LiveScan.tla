----------------------------- MODULE LiveScan -----------------------------
(***************************************************************************)
(* runLiveScan of src/cli/commands.ts up to the scan engine: the           *)
(* configuration, buildSpecIndex, discoverProductFiles, loadLocalAliases   *)
(* and buildProductGraph, one step per file system call, on a tree that    *)
(* the user may change between any two of them.                            *)
(*                                                                         *)
(* The code walks in sorted order; the model inspects the paths of a walk, *)
(* reads files and resolves imports in any order.  The first failure ends  *)
(* the scan with exit code 3, 2 for the configuration.                     *)
(***************************************************************************)
EXTENDS RepoTree

CONSTANTS
  InitialCheckouts,   \* the trees a scan starts on
  MaxCheckouts        \* bound: the changes of the tree during the scan

ASSUME ScanAssumption == InitialCheckouts \subseteq Checkouts /\ MaxCheckouts \in Nat

VARIABLES
  tree, checkouts,   \* the tree, how often it has changed
  pc, exit,          \* the part of the scan; its result
  roots,             \* spec roots still to walk
  pending, here,     \* paths found and not inspected; the directory to enumerate
  seen,              \* inspectedPathCaseIndex, as the set of its paths
  found,             \* files found and not read
  occurrences,       \* of anchors
  index,             \* the status of the anchors
  product,           \* the product files
  chain, next,       \* the tsconfig files read, the one to read
  aliases,           \* resolutionAliases
  imports,           \* what the product files read so far import
  left,              \* the local imports to resolve, as <<importer, import>>
  resolving, tried,  \* the import being resolved, the candidates it has tried
  firstOut, firstUnsupported,
  cache,             \* candidateExistenceCache
  edges, graphFindings

walk    == <<roots, pending, here, seen, found>>
specs   == <<occurrences, index>>
tsc     == <<chain, next, aliases>>
resolve == <<left, resolving, tried, firstOut, firstUnsupported, cache>>
graph   == <<imports, resolve, edges, graphFindings>>
scan    == <<pc, exit, walk, specs, product, tsc, graph>>
vars    == <<tree, checkouts, scan>>

Outcomes == {"running", "ok", "config", "unsupported"}
Parts == {"config", "spec_walk", "spec_read", "product_walk", "tsconfig", "chain",
          "product_read", "resolve", "done"}

TypeOK ==
  /\ tree \in Checkouts /\ checkouts \in 0..MaxCheckouts
  /\ pc \in Parts /\ exit \in Outcomes /\ (pc = "done" <=> exit # "running")
  /\ roots \subseteq SpecRoots
  /\ pending \subseteq Paths /\ here \in Paths \union {None}
  /\ seen \subseteq Paths /\ found \subseteq Paths /\ product \subseteq Paths
  /\ index \in [Anchors -> {"missing", "draft", "active"}]
  /\ next \in Tsconfigs \union {None}
  /\ \A p \in DOMAIN cache : cache[p] \in BOOLEAN
  /\ edges \in [Paths -> SUBSET Paths]

Init ==
  /\ tree \in InitialCheckouts /\ checkouts = 0
  /\ pc = "config" /\ exit = "running"
  /\ roots = SpecRoots /\ pending = {} /\ here = None
  /\ seen = {} /\ found = {} /\ product = {}
  /\ occurrences = {} /\ index = [a \in Anchors |-> "missing"]
  /\ chain = <<>> /\ next = None /\ aliases = {}
  /\ imports = [p \in Paths |-> {}] /\ left = {}
  /\ resolving = None /\ tried = 0 /\ firstOut = None /\ firstUnsupported = None
  /\ cache = [p \in {} |-> TRUE]
  /\ edges = [p \in Paths |-> {}] /\ graphFindings = {}

Entry(p) == tree.entry[p]

Fail(code) ==
  /\ pc' = "done" /\ exit' = code
  /\ UNCHANGED <<tree, checkouts, walk, specs, product, tsc, graph>>

\* Somebody changes the tree: a branch is checked out, a file is saved.
Checkout ==
  /\ pc # "done" /\ checkouts < MaxCheckouts
  /\ tree' \in Checkouts \ {tree}
  /\ checkouts' = checkouts + 1
  /\ UNCHANGED scan

\* loadConfig: the text, and the roots it names.
LoadConfig ==
  /\ pc = "config"
  /\ IF ConfigSupported(tree)
     THEN pc' = "spec_walk" /\ UNCHANGED <<tree, checkouts, exit, walk, specs, product, tsc, graph>>
     ELSE Fail("config")

-----------------------------------------------------------------------------
(* the walks *)

StartSpecRoot(root) ==
  /\ pc = "spec_walk" /\ pending = {} /\ here = None /\ found = {}
  /\ root \in roots
  /\ roots' = roots \ {root} /\ pending' = {root}
  /\ UNCHANGED <<tree, checkouts, pc, exit, here, seen, found, specs, product, tsc, graph>>

Walking == pc \in {"spec_walk", "product_walk"} /\ here = None
Skipped == IF pc = "product_walk" THEN Ignored ELSE {}
Wanted  == IF pc = "product_walk" THEN TsNames ELSE SpecNames

\* Mutation: each walk has a case index of its own.
CollidesInWalk(p) ==
  \E q \in seen : /\ LowerCase[q] = LowerCase[p] /\ q # p
                  /\ pc = "product_walk" => InProductScope(q)

Collides(p) == \E q \in seen : LowerCase[q] = LowerCase[p] /\ q # p

\* lstat of the next path.
Refuse(p) ==
  /\ Walking /\ p \in pending
  /\ Entry(p) \in {"missing", "denied", "link", "dirlink"} \/ Collides(p)
  /\ Fail("unsupported")

Inspect(p) ==
  /\ Walking /\ p \in pending
  /\ Entry(p) \in {"dir", "file"} /\ ~Collides(p)
  /\ pending' = pending \ {p}
  /\ seen' = seen \union {p}
  /\ here' = IF Entry(p) = "dir" THEN p ELSE None
  /\ found' = IF Entry(p) = "file" /\ p \in Wanted THEN found \union {p} ELSE found
  /\ UNCHANGED <<tree, checkouts, pc, exit, roots, specs, product, tsc, graph>>

\* readdir of the directory that lstat has found.
Children == {p \in ChildPaths(here) : Entry(p) # "missing"}

\* Mutation: the children of a directory replace what is pending.
EnumerateDepthFirst ==
  /\ pc \in {"spec_walk", "product_walk"} /\ here # None
  /\ IF Entry(here) \notin {"dir", "dirlink"} \/ Children \intersect OddNames # {}
     THEN Fail("unsupported")
     ELSE /\ pending' = IF Children \ Skipped = {} THEN pending ELSE Children \ Skipped
          /\ here' = None
          /\ UNCHANGED <<tree, checkouts, pc, exit, roots, seen, found, specs, product, tsc, graph>>

Enumerate ==
  /\ pc \in {"spec_walk", "product_walk"} /\ here # None
  /\ IF Entry(here) \notin {"dir", "dirlink"} \/ Children \intersect OddNames # {}
     THEN Fail("unsupported")
     ELSE /\ pending' = pending \union (Children \ Skipped)
          /\ here' = None
          /\ UNCHANGED <<tree, checkouts, pc, exit, roots, seen, found, specs, product, tsc, graph>>

Walked == Walking /\ pending = {}

-----------------------------------------------------------------------------
(* the spec index *)

\* The walk of one root is over: its files are read.
ReadSpecs ==
  /\ pc = "spec_walk" /\ Walked /\ found # {}
  /\ pc' = "spec_read"
  /\ UNCHANGED <<tree, checkouts, exit, walk, specs, product, tsc, graph>>

Readable(p) == Entry(p) \in {"file", "link"} /\ tree.text[p] # Broken

ReadSpec(p) ==
  /\ pc = "spec_read" /\ p \in found
  /\ IF Readable(p)
     THEN /\ occurrences' = occurrences \union OccurrencesIn(p, tree.text[p])
          /\ found' = found \ {p}
          /\ pc' = IF found = {p} THEN "spec_walk" ELSE "spec_read"
          /\ UNCHANGED <<tree, checkouts, exit, roots, pending, here, seen, index, product,
                         tsc, graph>>
     ELSE Fail("unsupported")

\* Mutation: a draft hides an active anchor.
StatusDraftFirst(a) ==
  IF \E x \in occurrences : x[1] = a /\ x[2] = "draft" THEN "draft"
  ELSE IF \E x \in occurrences : x[1] = a /\ x[2] = "active" THEN "active" ELSE "missing"

\* observedAnchors: the active ones, then the drafts that are not active.
Status(a) ==
  IF \E x \in occurrences : x[1] = a /\ x[2] = "active" THEN "active"
  ELSE IF \E x \in occurrences : x[1] = a /\ x[2] = "draft" THEN "draft" ELSE "missing"

\* indexAnchorOccurrences; then discoverProductFiles starts.
IndexSpecs ==
  /\ pc = "spec_walk" /\ Walked /\ roots = {} /\ found = {}
  /\ LET active == {x \in occurrences : x[2] = "active"}
     IN  IF \E x, y \in active : x # y /\ x[1] = y[1]
         THEN Fail("unsupported")
         ELSE /\ index' = [a \in Anchors |-> Status(a)]
              /\ pc' = "product_walk"
              /\ pending' = {ProductRoot}
              /\ UNCHANGED <<tree, checkouts, exit, roots, here, seen, found, occurrences,
                             product, tsc, graph>>

EndDiscovery ==
  /\ pc = "product_walk" /\ Walked
  /\ product' = found
  /\ pc' = "tsconfig"
  /\ UNCHANGED <<tree, checkouts, exit, walk, specs, tsc, graph>>

-----------------------------------------------------------------------------
(* tsconfig.json *)

LookForTsconfig ==
  /\ pc = "tsconfig"
  /\ CASE Entry(RootTsconfig) = "missing" ->
            /\ pc' = "product_read"
            /\ UNCHANGED <<tree, checkouts, exit, walk, specs, product, tsc, graph>>
       [] Entry(RootTsconfig) = "denied" -> Fail("unsupported")
       [] OTHER ->
            /\ pc' = "chain" /\ next' = RootTsconfig
            /\ UNCHANGED <<tree, checkouts, exit, walk, specs, product, chain, aliases, graph>>

ChainPaths == {chain[k].path : k \in DOMAIN chain}

\* Mutation: only the file read last is remembered.
ReadTsconfigForgetting ==
  /\ pc = "chain" /\ next # None
  /\ IF /\ next \notin ChainPaths
        /\ Entry(next) = "file" /\ tree.text[next] # Broken
        /\ tree.text[next].extends # Broken
     THEN /\ chain' = <<[path |-> next, text |-> tree.text[next]]>>
          /\ next' = tree.text[next].extends
          /\ UNCHANGED <<tree, checkouts, pc, exit, walk, specs, product, aliases, graph>>
     ELSE Fail("unsupported")

\* readTsconfigChain, one file.
ReadTsconfig ==
  /\ pc = "chain" /\ next # None
  /\ IF /\ next \notin ChainPaths
        /\ Entry(next) = "file" /\ tree.text[next] # Broken
        /\ tree.text[next].extends # Broken
     THEN /\ chain' = Append(chain, [path |-> next, text |-> tree.text[next]])
          /\ next' = tree.text[next].extends
          /\ UNCHANGED <<tree, checkouts, pc, exit, walk, specs, product, aliases, graph>>
     ELSE Fail("unsupported")

Declares(k) == chain[k].text.baseUrl # None
OwnBase(k)  == Below[<<DirOf[chain[k].path], chain[k].text.baseUrl>>]

\* computeEffectiveBaseUrls goes from the last file of the chain to the first,
\* handing on what is declared.
Declared ==
  LET f[k \in 1..Len(chain)] ==
        IF Declares(k) THEN OwnBase(k) ELSE IF k = Len(chain) THEN None ELSE f[k + 1]
  IN  f

EffectiveBase(k) == IF Declared[k] = None THEN DirOf[chain[k].path] ELSE Declared[k]

\* normalizePathMappings, normalizeTargetPrefix.
AliasesFrom(k) ==
  {[prefix |-> x[1], target |-> Below[<<EffectiveBase(k), x[2]>>],
    public |-> Below[<<EffectiveBase(k), x[2]>>] \in PublicDirs] : x \in chain[k].text.paths}

\* normalizeAliases: every file of the chain is checked, the first one with paths
\* provides the aliases.
NormalizeAliases ==
  /\ pc = "chain" /\ next = None
  /\ LET providers == {k \in DOMAIN chain : chain[k].text.paths # None}
     IN  IF \/ \E k \in DOMAIN chain : Declares(k) /\ OwnBase(k) = None
            \/ \E k \in providers : \E a \in AliasesFrom(k) : a.target \in {None, RootDir}
         THEN Fail("unsupported")
         ELSE /\ aliases' = IF providers = {} THEN {} ELSE AliasesFrom(Min(providers))
              /\ pc' = "product_read"
              /\ UNCHANGED <<tree, checkouts, exit, walk, specs, product, chain, next, graph>>

-----------------------------------------------------------------------------
(* the product graph *)

\* A product file is read and parsed; a call with a relative specifier is a finding.
ReadProduct(f) ==
  /\ pc = "product_read" /\ f \in found
  /\ IF Readable(f)
     THEN LET local == {i \in tree.text[f] : IsLocal(i, aliases)}
              calls == {i \in local : i.syntax = "call"}
          IN  /\ imports' = [imports EXCEPT ![f] = local]
              /\ left' = left \union {<<f, i>> : i \in local \ calls}
              /\ graphFindings' = graphFindings \union
                                    {<<f, <<"unsupported_static_edge", i>>>> : i \in calls}
              /\ found' = found \ {f}
              /\ UNCHANGED <<tree, checkouts, pc, exit, roots, pending, here, seen, specs,
                             product, tsc, resolving, tried, firstOut, firstUnsupported,
                             cache, edges>>
     ELSE Fail("unsupported")

\* resolveSupportedStaticEdges starts with the product files in its cache.
StartResolving ==
  /\ pc = "product_read" /\ found = {}
  /\ pc' = "resolve"
  /\ cache' = [p \in product |-> TRUE]
  /\ UNCHANGED <<tree, checkouts, exit, walk, specs, product, tsc, imports, left, resolving,
                 tried, firstOut, firstUnsupported, edges, graphFindings>>

Resolve(x) ==
  /\ pc = "resolve" /\ resolving = None /\ x \in left
  /\ left' = left \ {x}
  /\ resolving' = x /\ tried' = 0
  /\ firstOut' = None /\ firstUnsupported' = None
  /\ UNCHANGED <<tree, checkouts, pc, exit, walk, specs, product, tsc, imports, cache, edges,
                 graphFindings>>

Current == Candidates(resolving[2], aliases)
Candidate == Current[tried + 1]

\* Mutations: the cache is never asked, or a directory does not exist.
ExistsNow(p) == p # None /\ Entry(p) # "missing"
ExistsAsFile(p) ==
  IF p \in DOMAIN cache THEN cache[p] ELSE p # None /\ Entry(p) \in {"file", "link"}

\* candidateExists: accessSync unless the cache knows.
Exists(p) == IF p \in DOMAIN cache THEN cache[p] ELSE p # None /\ Entry(p) # "missing"

\* One turn of the loop over the candidates.
Try ==
  /\ pc = "resolve" /\ resolving # None /\ tried < Len(Current)
  /\ LET c == Candidate
         exists == Exists(c.path)
         inScope == c.path # None /\ InProductScope(c.path)
     IN  IF c.path \notin DOMAIN cache /\ c.path # None /\ Entry(c.path) = "denied"
         THEN Fail("unsupported")
         ELSE /\ cache' = IF c.path = None THEN cache
                          ELSE [p \in DOMAIN cache \union {c.path} |->
                                  IF p = c.path THEN exists ELSE cache[p]]
              /\ IF exists /\ c.public /\ c.supported /\ inScope
                 THEN /\ edges' = [edges EXCEPT ![resolving[1]] = @ \union {c.path}]
                      /\ resolving' = None
                      /\ UNCHANGED <<tried, firstOut, firstUnsupported>>
                 ELSE /\ tried' = tried + 1
                      /\ firstOut' = IF exists /\ firstOut = None /\ ~inScope
                                     THEN c.path ELSE firstOut
                      /\ firstUnsupported' =
                           IF exists /\ c.public /\ firstUnsupported = None
                              /\ ~c.supported /\ inScope
                           THEN c.path ELSE firstUnsupported
                      /\ UNCHANGED <<edges, resolving>>
              /\ UNCHANGED <<tree, checkouts, pc, exit, walk, specs, product, tsc, imports,
                             left, graphFindings>>

\* No candidate was a supported target.
GiveUp ==
  /\ pc = "resolve" /\ resolving # None /\ tried = Len(Current)
  /\ LET what == IF firstOut # None THEN <<"out_of_scope_static_edge", firstOut>>
                 ELSE IF firstUnsupported # None
                      THEN <<"unsupported_local_target", firstUnsupported>>
                 ELSE <<"unresolved_static_edge", resolving[2]>>
     IN  graphFindings' = graphFindings \union {<<resolving[1], what>>}
  /\ resolving' = None
  /\ UNCHANGED <<tree, checkouts, pc, exit, walk, specs, product, tsc, imports, left, tried,
                 firstOut, firstUnsupported, cache, edges>>

\* Everything is resolved: runScanEngine takes over.
Finish ==
  /\ pc = "resolve" /\ resolving = None /\ left = {}
  /\ pc' = "done" /\ exit' = "ok"
  /\ UNCHANGED <<tree, checkouts, walk, specs, product, tsc, graph>>

Step ==
  \/ LoadConfig
  \/ \E root \in SpecRoots : StartSpecRoot(root)
  \/ \E p \in Paths : Refuse(p) \/ Inspect(p) \/ ReadSpec(p) \/ ReadProduct(p)
  \/ Enumerate
  \/ ReadSpecs
  \/ IndexSpecs
  \/ EndDiscovery
  \/ LookForTsconfig
  \/ ReadTsconfig
  \/ NormalizeAliases
  \/ StartResolving
  \/ \E x \in left : Resolve(x)
  \/ Try
  \/ GiveUp
  \/ Finish

Next == Step \/ Checkout
Spec == Init /\ [][Next]_vars

-----------------------------------------------------------------------------
(* correctness *)

Undisturbed == checkouts = 0

\* On a tree nobody changes, a scan fails for the configuration, fails because
\* the tree is not supported, or succeeds, exactly as the contract says; and then the
\* aliases are those of the file of the extends chain nearest to tsconfig.json that
\* has paths, below the base directory declared nearest to that file (runLiveScan of
\* commands.ts, tsconfig-io.ts).
OutcomeExact ==
  pc = "done" /\ Undisturbed =>
    /\ exit = IF ~ConfigSupported(tree) THEN "config"
              ELSE IF Supported(tree) THEN "ok" ELSE "unsupported"
    /\ exit = "ok" => aliases = AliasesOf(tree)

\* On such a tree the walk of product_root finds the product files, whatever is
\* ignored or nested in what.
ProductExact ==
  exit = "ok" /\ Undisturbed => product = ProductFilesOf(tree)

\* The anchors of all spec roots are indexed together: each is active once at most,
\* and draft only when it is active nowhere.
AnchorsExact ==
  exit = "ok" /\ Undisturbed =>
    OneActive(OccurrencesOf(tree)) /\ index = IndexOf(OccurrencesOf(tree))

\* Every local import of every product file becomes one thing: what contract 10.2
\* says for the paths that exist.  It is the same view of the tree for all of
\* them, even when the tree changes while they are resolved.
OneView ==
  exit = "ok" =>
    LET present == {p \in DOMAIN cache : cache[p]}
        results(f) == {Classified(i, aliases, present) :
                         i \in {j \in imports[f] : j.syntax = "static"}}
        calls(f)   == {<<"unsupported_static_edge", i>> :
                         i \in {j \in imports[f] : j.syntax = "call"}}
        targets(f) == {r[2] : r \in {x \in results(f) : x[1] = "target"}}
    IN  /\ product \subseteq present
        /\ \A f \in product :
             /\ edges[f] = targets(f)
             /\ {x[2] : x \in {y \in graphFindings : y[1] = f}} =
                  {r \in results(f) : r[1] # "target"} \union calls(f)

\* That view is the tree when nobody changes it.
ViewOfTree ==
  exit = "ok" /\ Undisturbed =>
    \A p \in DOMAIN cache : cache[p] <=> Entry(p) # "missing"

\* On such a tree the graph is the one of contract 10.2: each edge and each finding comes
\* from an import of a product file, and is what the paths of the tree make of it, in
\* whatever order the imports are resolved and however much the cache has been asked
\* (buildProductGraph of ts-graph.ts).
GraphExact ==
  exit = "ok" /\ Undisturbed =>
    edges = EdgesOf(tree) /\ graphFindings = GraphFindingsOf(tree)
=============================================================================
