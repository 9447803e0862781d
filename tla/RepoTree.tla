----------------------------- MODULE RepoTree -----------------------------
(***************************************************************************)
(* The repository a scan reads, and what docs/contract.md promises about   *)
(* a scan of a tree nobody changes: which files are product and spec files *)
(* (6.5, 12.3), which tree is supported (12.3), what an import becomes     *)
(* (10.2) and which aliases tsconfig.json gives (10.2.2, 12.2.4).          *)
(*                                                                         *)
(* A path is an element of Paths.  What the code computes from the text of *)
(* a path (its parent, its lower case form, its extension, the path of a   *)
(* specifier with a suffix) is a constant function.                        *)
(***************************************************************************)
EXTENDS Naturals, Sequences, FiniteSets, FiniteSetsExt

CONSTANTS
  Paths,         \* every path of the repository that matters
  None,          \* no path, no value
  Above,         \* the directories above a path
  Parent,        \* the lowest of them
  ProductRoot, SpecRoots, Ignored,   \* the configuration, Ignored as a set of paths
  LowerCase,     \* the lower case form of a path
  TsNames,       \* paths with the extension of a product file
  SpecNames,     \* paths with the extension of a spec file
  OddNames,      \* paths that are no canonical RepoPath
  RootTsconfig,  \* ./tsconfig.json
  Tsconfigs,     \* the paths an extends chain may hold
  Anchors,       \* anchor ids
  Names,         \* module specifiers, without their extension
  Relative,      \* those that begin with ./ or ../
  Stems,         \* specifiers resolved against the root of the repository
  StemOf,        \* of a relative specifier
  Place,         \* the path of a stem and a suffix, None when no such path exists
  AliasPrefixes, PrefixLength,   \* of aliases
  Splice,        \* a specifier whose prefix is replaced, None if it has another
  Dirs, DirOf,   \* directories for baseUrl and alias targets; the one of a tsconfig
  Below,         \* a directory and a relative path: a directory, None outside the root
  RootDir,       \* the root itself, that no alias may lead to
  PublicDirs,    \* the directories at or under ProductRoot
  Broken,        \* a text that is not UTF-8, or that does not parse
  Checkouts      \* the trees considered

Forms == {"ts", "tsx", "dts", "js", "dtsjs", "plain", "dotted"}
Suffixes == {".ts", ".tsx", "/index.ts", "/index.tsx", ".js", ".d.ts", "/index.js",
             "/index.d.ts", ".d.tsx", ".d.js"}

\* An import or export declaration, or a call of require or import().
Import == [syntax : {"static", "call"}, name : Names, form : Forms]

ASSUME PathsAssumption ==
  /\ IsFiniteSet(Paths) /\ None \notin Paths
  /\ ProductRoot \in Paths /\ SpecRoots \subseteq Paths
  /\ Ignored \subseteq Paths \ {ProductRoot}
  /\ \A p \in Paths : \A q \in Above[p] : q \in Ignored => p \in Ignored
  /\ Parent \in [Paths -> Paths \union {None}]
  /\ Above \in [Paths -> SUBSET Paths]
  /\ \A p \in Paths : Above[p] = IF Parent[p] = None THEN {}
                                 ELSE {Parent[p]} \union Above[Parent[p]]
  /\ \A p \in Paths : p \notin Above[p]
  /\ \A p \in Paths : \A q \in Above[p] :
       Above[q] \subseteq Above[p] /\ \E c \in {p} \union Above[p] : Parent[c] = q
  /\ RootTsconfig \in Tsconfigs /\ Tsconfigs \subseteq Paths
  /\ OddNames \subseteq Paths
  /\ \A p \in Paths, i \in Import : <<p, i>> # None

\* entry: what lstat finds.  A link leads to a file, a dirlink to an empty directory;
\* denied is any error but that there is nothing.  text: of the files that are read.
Entries == {"missing", "denied", "dir", "file", "link", "dirlink"}

ASSUME EntriesAssumption ==
  \A t \in Checkouts : \A p \in Paths :
    /\ t.entry[p] \in Entries
    /\ \A q \in Above[p] :
         t.entry[q] \notin {"dir", "denied"} => t.entry[p] = "missing"
    /\ \A q \in Above[p] :
         t.entry[q] = "denied" => t.entry[p] \in {"missing", "denied"}

ASSUME TextsAssumption ==
  Broken \notin Tsconfigs \union {None} /\ \A t \in Checkouts :
    /\ t.config \in {"valid", "invalid"}
    /\ \A p \in TsNames : t.text[p] = Broken \/ t.text[p] \subseteq Import
    /\ \A p \in SpecNames :
         t.text[p] = Broken \/ t.text[p] \in [status : {"active", "draft"}, ids : Seq(Anchors)]
    /\ \A p \in Tsconfigs : t.text[p] = Broken \/
         t.text[p] \in [extends : Tsconfigs \union {None, Broken},
                        baseUrl : Dirs \union {None},
                        paths   : (SUBSET (AliasPrefixes \X Dirs)) \union {None}]
    /\ \A p \in Tsconfigs : t.text[p] = Broken \/ t.text[p].paths = None \/
         \A x, y \in t.text[p].paths : x[1] = y[1] => x = y

Under(root) == {p \in Paths : p = root \/ root \in Above[p]}
ChildPaths(dir) == {p \in Paths : Parent[p] = dir}
InProductScope(p) == p \in Under(ProductRoot) \ Ignored

-----------------------------------------------------------------------------
(* imports *)

\* candidateDefinitionsForSpecifier: the suffixes tried, and whether the
\* candidate is supported or for diagnostics only.
CandidateDefinitions(form) ==
  CASE form = "ts"     -> <<<<".ts", TRUE>>>>
    [] form = "tsx"    -> <<<<".tsx", TRUE>>>>
    [] form = "dts"    -> <<<<".d.ts", FALSE>>>>
    [] form = "js"     -> <<<<".ts", TRUE>>, <<".tsx", TRUE>>, <<".js", FALSE>>>>
    [] form = "dtsjs"  -> <<<<".d.ts", FALSE>>, <<".d.tsx", TRUE>>, <<".d.js", FALSE>>>>
    [] form = "plain"  -> <<<<".ts", TRUE>>, <<".tsx", TRUE>>,
                            <<"/index.ts", TRUE>>, <<"/index.tsx", TRUE>>,
                            <<".js", FALSE>>, <<".d.ts", FALSE>>,
                            <<"/index.js", FALSE>>, <<"/index.d.ts", FALSE>>>>
    [] form = "dotted" -> <<>>

\* The aliases a bare specifier matches, and the one that applies.
Matching(name, aliases) ==
  {a \in aliases : Splice[<<name, a.prefix, a.target>>] # None}

matchingLocalAlias(name, aliases) ==
  CHOOSE a \in Matching(name, aliases) :
    \A b \in Matching(name, aliases) : PrefixLength[b.prefix] <= PrefixLength[a.prefix]

\* A call is recognised when its specifier is relative.
IsLocal(i, aliases) ==
  i.name \in Relative \/ (i.syntax = "static" /\ Matching(i.name, aliases) # {})

\* buildInternalStaticEdgeResolutionCandidates, for a local specifier.  The
\* candidates that leave the repository stay, with a path that never exists.
Candidates(i, aliases) ==
  LET alias == matchingLocalAlias(i.name, aliases)
      stem  == IF i.name \in Relative THEN StemOf[i.name]
               ELSE Splice[<<i.name, alias.prefix, alias.target>>]
      definitions == CandidateDefinitions(i.form)
  IN  [k \in 1..Len(definitions) |->
         [path      |-> Place[<<stem, definitions[k][1]>>],
          supported |-> definitions[k][2],
          public    |-> i.name \in Relative \/ alias.public]]

\* What a candidate that exists may be.
IsTarget(c)      == c.public /\ c.supported /\ InProductScope(c.path)
IsOutOfScope(c)  == ~InProductScope(c.path)
IsUnsupported(c) == c.public /\ ~c.supported /\ InProductScope(c.path)

\* Contract 10.2, when exactly the paths of present exist: the first target, or else
\* the first candidate out of scope, or else the first unsupported one.
FirstOf(candidates, hits) == IF hits = {} THEN None ELSE candidates[Min(hits)].path

Classified(i, aliases, present) ==
  LET candidates == Candidates(i, aliases)
      existing == {k \in DOMAIN candidates : candidates[k].path \in present}
      target == FirstOf(candidates, {k \in existing : IsTarget(candidates[k])})
      beyond == FirstOf(candidates, {k \in existing : IsOutOfScope(candidates[k])})
      other  == FirstOf(candidates, {k \in existing : IsUnsupported(candidates[k])})
  IN  IF target # None THEN <<"target", target>>
      ELSE IF beyond # None THEN <<"out_of_scope_static_edge", beyond>>
      ELSE IF other # None THEN <<"unsupported_local_target", other>>
      ELSE <<"unresolved_static_edge", i>>

-----------------------------------------------------------------------------
(* a tree nobody changes *)

\* What a walk from root that does not enter the paths of skipped comes to.
WalkOf(t, root, skipped) ==
  {p \in Under(root) \ skipped :
     /\ p = root \/ t.entry[p] # "missing"
     /\ \A q \in Above[p] \intersect Under(root) : t.entry[q] = "dir"}

SpecTree(t)    == UNION {WalkOf(t, root, {}) : root \in SpecRoots}
ProductTree(t) == WalkOf(t, ProductRoot, Ignored)
SpecFilesOf(t)    == {p \in SpecTree(t) \intersect SpecNames : t.entry[p] = "file"}
ProductFilesOf(t) == {p \in ProductTree(t) \intersect TsNames : t.entry[p] = "file"}

\* The occurrences of anchors in a spec file, and in all of them.
OccurrencesIn(p, text) == {<<text.ids[k], text.status, p, k>> : k \in DOMAIN text.ids}
OccurrencesOf(t) == UNION {OccurrencesIn(p, t.text[p]) : p \in SpecFilesOf(t)}

\* An anchor may be active once only; a draft does not hide an active one.
OneActive(occurrences) ==
  \A x, y \in occurrences : x[1] = y[1] /\ x[2] = "active" /\ y[2] = "active" => x = y
IndexOf(occurrences) ==
  [a \in Anchors |->
     IF \E x \in occurrences : x[1] = a /\ x[2] = "active" THEN "active"
     ELSE IF \E x \in occurrences : x[1] = a THEN "draft" ELSE "missing"]

\* The chain of tsconfig.json, the base directory of a file of the chain, and the
\* aliases of the first file with paths.
IsChain(t, q) ==
  /\ q[1] = RootTsconfig
  /\ \A j, k \in DOMAIN q : q[j] = q[k] => j = k
  /\ \A k \in DOMAIN q : t.entry[q[k]] = "file" /\ t.text[q[k]] # Broken
  /\ \A k \in DOMAIN q : t.text[q[k]].extends = IF k = Len(q) THEN None ELSE q[k + 1]
Chains(t) ==
  {q \in UNION {[1..n -> Tsconfigs] : n \in 1..Cardinality(Tsconfigs)} : IsChain(t, q)}

BaseOf(t, q, k) ==
  LET declared == {j \in k..Len(q) : t.text[q[j]].baseUrl # None}
      j == Min(declared)
  IN  IF declared = {} THEN DirOf[q[k]] ELSE Below[<<DirOf[q[j]], t.text[q[j]].baseUrl>>]

WithPaths(t, q) == {k \in DOMAIN q : t.text[q[k]].paths # None}
ChainSupported(t, q) ==
  /\ \A k \in DOMAIN q : t.text[q[k]].baseUrl # None =>
       Below[<<DirOf[q[k]], t.text[q[k]].baseUrl>>] # None
  /\ \A k \in WithPaths(t, q) : \A x \in t.text[q[k]].paths :
       Below[<<BaseOf(t, q, k), x[2]>>] \notin {None, RootDir}

TsconfigSupported(t) ==
  t.entry[RootTsconfig] = "missing" \/ \E q \in Chains(t) : ChainSupported(t, q)

AliasesOf(t) ==
  IF t.entry[RootTsconfig] = "missing" THEN {}
  ELSE LET q == CHOOSE c \in Chains(t) : TRUE
           k == Min(WithPaths(t, q))
           at(x) == Below[<<BaseOf(t, q, k), x[2]>>]
       IN  IF WithPaths(t, q) = {} THEN {}
           ELSE {[prefix |-> x[1], target |-> at(x), public |-> at(x) \in PublicDirs] :
                   x \in t.text[q[k]].paths}

\* A candidate that cannot be tested matters only when it is tried: after no
\* supported target.
Present(t) == {p \in Paths : t.entry[p] # "missing"}
TestFails(t, i) ==
  LET candidates == Candidates(i, AliasesOf(t))
      denied == {k \in DOMAIN candidates :
                   candidates[k].path # None /\ t.entry[candidates[k].path] = "denied"}
      found  == {k \in DOMAIN candidates :
                   candidates[k].path \in Present(t) /\ IsTarget(candidates[k])}
  IN  \E k \in denied : \A j \in found : k < j

LocalImports(p, text, aliases) == {<<p, i>> : i \in {j \in text : IsLocal(j, aliases)}}
LocalImportsOf(t) == UNION {LocalImports(p, t.text[p], AliasesOf(t)) : p \in ProductFilesOf(t)}
StaticImportsOf(t) == {x \in LocalImportsOf(t) : x[2].syntax = "static"}
CallsOf(t) == {x \in LocalImportsOf(t) : x[2].syntax = "call"}

\* The graph that contract 10.2 gives the product files: the targets of their static
\* imports, and a finding for each import that has none and for each call.
CandidatePaths(i, aliases) ==
  {Candidates(i, aliases)[k].path : k \in DOMAIN Candidates(i, aliases)} \ {None}
Existing(t, i) == {p \in CandidatePaths(i, AliasesOf(t)) : t.entry[p] # "missing"}
ResultIn(t, i) == Classified(i, AliasesOf(t), Existing(t, i))
EdgesOf(t) ==
  [f \in Paths |->
     {ResultIn(t, x[2])[2] :
        x \in {y \in StaticImportsOf(t) : y[1] = f /\ ResultIn(t, y[2])[1] = "target"}}]
GraphFindingsOf(t) ==
  {<<x[1], ResultIn(t, x[2])>> :
     x \in {y \in StaticImportsOf(t) : ResultIn(t, y[2])[1] # "target"}}
  \union {<<x[1], <<"unsupported_static_edge", x[2]>>>> : x \in CallsOf(t)}

\* The ignore roots are the highest of the ignored paths.
IgnoreRoots == {p \in Ignored : Parent[p] \notin Ignored}
ConfigSupported(t) ==
  /\ t.config = "valid"
  /\ \A r \in SpecRoots \union {ProductRoot} : t.entry[r] \in {"dir", "dirlink"}
  /\ \A r \in IgnoreRoots : \/ t.entry[r] = "missing"
                            \/ t.entry[r] # "denied" /\ r \in Under(ProductRoot)

\* Contract 12.3.
Supported(t) ==
  LET inspected == SpecTree(t) \union ProductTree(t)
      entered   == {p \in inspected : t.entry[p] = "dir"}
  IN  /\ \A p \in inspected : t.entry[p] \in {"dir", "file"}
      /\ \A p, q \in inspected : LowerCase[p] = LowerCase[q] => p = q
      /\ \A p \in entered, q \in OddNames : Parent[q] = p => t.entry[q] = "missing"
      /\ \A p \in SpecFilesOf(t) \union ProductFilesOf(t) : t.text[p] # Broken
      /\ OneActive(OccurrencesOf(t))
      /\ TsconfigSupported(t)
      /\ \A x \in StaticImportsOf(t) : ~TestFails(t, x[2])
=============================================================================
