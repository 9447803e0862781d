-------------------------- MODULE LiveScanProofs --------------------------
(***************************************************************************)
(* Proofs about LiveScan and RunLiveScan, for every configuration and      *)
(* every set of trees.                                                     *)
(*                                                                         *)
(* First the types, the files the walks find, the anchors and the view of  *)
(* the cache.  Then the resolution of imports by one view of the tree,     *)
(* whatever the tree becomes meanwhile: a result is final once it depends  *)
(* on nothing but what the cache has been asked, because the cache never   *)
(* changes its mind.  Then the outcome and the graph of a scan of a tree   *)
(* nobody changes: what has been done so far is right as long as the scan  *)
(* runs, and what ends it early is in the tree.  Last the whole run, with  *)
(* the lemmas of ScanEngineProofs about the engine.                        *)
(***************************************************************************)
EXTENDS RunLiveScan, FiniteSetTheorems, TLAPS

Early      == {"config", "spec_walk", "spec_read"}
Discovered == {"tsconfig", "chain", "product_read", "resolve"}

\* While the product files are walked nothing is pending or found that should
\* not be, and every file still to come lies at or below a path that is pending,
\* or below the directory to enumerate.
OnTheWay(p) ==
  \/ p \in found
  \/ \E q \in {p} \union Above[p] : q \in pending
  \/ here \in Above[p]

WalkRight ==
  pc = "product_walk" =>
    /\ pending \subseteq ProductTree(tree)
    /\ here # None => here \in ProductTree(tree) /\ Entry(here) = "dir"
    /\ found \subseteq ProductFilesOf(tree)
    /\ \A p \in ProductFilesOf(tree) : OnTheWay(p)

\* The same for the walks of the spec roots: a spec file is still to come, lies under
\* a root still to walk, or has been read.
SpecsRight ==
  pc \in Early =>
    /\ pending \subseteq SpecTree(tree)
    /\ here # None => here \in SpecTree(tree) /\ Entry(here) = "dir"
    /\ found \subseteq SpecFilesOf(tree)
    /\ occurrences \subseteq OccurrencesOf(tree)
    /\ \A x \in occurrences : x[2] \in {"active", "draft"}
    /\ \A p \in SpecFilesOf(tree) :
         \/ OnTheWay(p)
         \/ \E root \in roots : p \in Under(root)
         \/ OccurrencesIn(p, tree.text[p]) \subseteq occurrences

AnchorsRight ==
  pc \in Discovered \union {"product_walk"} \/ exit = "ok" =>
    OneActive(OccurrencesOf(tree)) /\ index = IndexOf(OccurrencesOf(tree))

ProductRight == pc \in Discovered \/ exit = "ok" => product = ProductFilesOf(tree)
CacheRight   == \A p \in DOMAIN cache : cache[p] <=> Entry(p) # "missing"

Right == WalkRight /\ SpecsRight /\ AnchorsRight /\ ProductRight /\ CacheRight
LInv  == TypeOK /\ (Undisturbed => Right)

-----------------------------------------------------------------------------
(* the tree *)

\* The walks start at their roots.
LEMMA RootInTree == \A t : ProductRoot \in ProductTree(t)
BY PathsAssumption DEF ProductTree, WalkOf, Under

\* A file of the walk lies under product_root.
LEMMA FileUnderRoot ==
  ASSUME NEW t, NEW p \in ProductFilesOf(t)
  PROVE  p \in Paths /\ (p = ProductRoot \/ ProductRoot \in Above[p])
BY DEF ProductFilesOf, ProductTree, WalkOf, Under

\* The walk goes on below every directory it has entered.
LEMMA ChildInTree ==
  ASSUME NEW t, NEW d \in ProductTree(t), t.entry[d] = "dir",
         NEW c \in Paths \ Ignored, Parent[c] = d, t.entry[c] # "missing"
  PROVE  c \in ProductTree(t)
<1>1. d \in Paths /\ d # None
  BY PathsAssumption DEF ProductTree, WalkOf, Under
<1>2. Above[c] = {d} \union Above[d]
  BY <1>1, PathsAssumption
<1>3. ProductRoot \in Above[c]
  BY <1>2 DEF ProductTree, WalkOf, Under
<1>4. \A q \in Above[c] \intersect Under(ProductRoot) : t.entry[q] = "dir"
  BY <1>2 DEF ProductTree, WalkOf
<1> QED BY <1>3, <1>4 DEF ProductTree, WalkOf, Under

\* Below a directory of the walk there is a child of it on the way to each file.
LEMMA WayDown ==
  ASSUME NEW t, NEW p \in ProductFilesOf(t), NEW d \in Above[p], d \in ProductTree(t)
  PROVE  \E c \in {p} \union Above[p] :
           c \in Paths \ Ignored /\ Parent[c] = d /\ t.entry[c] # "missing"
<1>1. p \in Paths /\ t.entry[p] = "file" /\ p \notin Ignored
  BY DEF ProductFilesOf, ProductTree, WalkOf, Under
<1>2. PICK c \in {p} \union Above[p] : Parent[c] = d
  BY <1>1, PathsAssumption
<1>3. c \in Paths /\ d \in Paths
  BY <1>1, PathsAssumption
<1>4. c \notin Ignored
  BY <1>1, PathsAssumption
<1>5. d \in Above[c] /\ d # None
  BY <1>2, <1>3, PathsAssumption
<1>6. c \in Under(ProductRoot)
  BY <1>3, <1>5, PathsAssumption DEF ProductTree, WalkOf, Under
<1>7. t.entry[c] # "missing"
  BY <1>1, <1>6 DEF ProductFilesOf, ProductTree, WalkOf
<1> QED BY <1>2, <1>3, <1>4, <1>7

LEMMA SpecRootInTree == \A t : \A root \in SpecRoots : root \in SpecTree(t)
BY PathsAssumption DEF SpecTree, WalkOf, Under

\* The walk of a spec root goes on below every directory it has entered.
LEMMA SpecChildInTree ==
  ASSUME NEW t, NEW d \in SpecTree(t), t.entry[d] = "dir",
         NEW c \in Paths, Parent[c] = d, t.entry[c] # "missing"
  PROVE  c \in SpecTree(t)
<1>1. PICK root \in SpecRoots : d \in WalkOf(t, root, {})
  BY DEF SpecTree
<1>2. d \in Paths /\ d # None /\ root \in Paths
  BY <1>1, PathsAssumption DEF WalkOf, Under
<1>3. Above[c] = {d} \union Above[d]
  BY <1>2, PathsAssumption
<1>4. root \in Above[c]
  BY <1>1, <1>3 DEF WalkOf, Under
<1>5. \A q \in Above[c] \intersect Under(root) : t.entry[q] = "dir"
  BY <1>1, <1>3 DEF WalkOf
<1>6. c \in WalkOf(t, root, {})
  BY <1>4, <1>5 DEF WalkOf, Under
<1> QED BY <1>6 DEF SpecTree

\* In a tree everything above a file is a directory.
LEMMA AboveFile ==
  ASSUME NEW t \in Checkouts, NEW p \in Paths, t.entry[p] = "file", NEW q \in Above[p]
  PROVE  t.entry[q] = "dir"
BY EntriesAssumption DEF Entries

\* Above a file there is a child of every directory on the way to it.
LEMMA SpecWayDown ==
  ASSUME NEW t \in Checkouts, NEW p \in Paths, t.entry[p] = "file", NEW d \in Above[p]
  PROVE  \E c \in {p} \union Above[p] : c \in Paths /\ Parent[c] = d /\ t.entry[c] # "missing"
<1>1. PICK c \in {p} \union Above[p] : Parent[c] = d
  BY PathsAssumption
<1>2. c \in Paths /\ t.entry[c] # "missing"
  BY AboveFile, PathsAssumption
<1> QED BY <1>1, <1>2

-----------------------------------------------------------------------------
(* the steps *)

\* A scan starts with nothing found.
LEMMA InitLInv == Init => LInv
<1> SUFFICES ASSUME Init PROVE LInv
  OBVIOUS
<1>1. TypeOK
  BY ScanAssumption DEF Init, TypeOK, Parts, Outcomes
<1>2. SpecsRight
  BY DEF Init, SpecsRight, SpecFilesOf, SpecTree, WalkOf
<1>3. WalkRight /\ AnchorsRight /\ ProductRight /\ CacheRight
  BY DEF Init, WalkRight, AnchorsRight, ProductRight, CacheRight, Discovered
<1> QED BY <1>1, <1>2, <1>3 DEF LInv, Right

\* A scan that fails claims nothing.
LEMMA FailLInv ==
  ASSUME LInv, NEW code \in {"config", "unsupported"}, Fail(code)
  PROVE  LInv'
<1> USE DEF LInv, Fail, walk, specs, tsc, graph, resolve
<1>1. TypeOK'
  BY DEF TypeOK, Parts, Outcomes
<1>2. Undisturbed' => Right'
  BY DEF Undisturbed, Right, WalkRight, SpecsRight, AnchorsRight, ProductRight, CacheRight,
         Early, Discovered, Entry
<1> QED BY <1>1, <1>2

\* After the walks most steps touch neither the anchors, nor the product files, nor
\* the cache.
LEMMA LaterLInv ==
  ASSUME LInv, pc \in Discovered, pc' \in Discovered, TypeOK',
         UNCHANGED <<tree, checkouts, exit, index, product, cache>>
  PROVE  LInv'
BY DEF LInv, Undisturbed, Right, WalkRight, SpecsRight, AnchorsRight, ProductRight,
       CacheRight, Early, Discovered, Entry

\* Some only move the control on before them.
LEMMA StillEarlyLInv ==
  ASSUME LInv, pc \in Early, pc' \in Early, TypeOK',
         UNCHANGED <<tree, checkouts, exit, walk, specs, product, cache>>
  PROVE  LInv'
BY DEF LInv, Undisturbed, Right, WalkRight, SpecsRight, AnchorsRight, ProductRight,
       CacheRight, OnTheWay, Early, Discovered, TypeOK, Entry, walk, specs

\* A file that is inspected is found; a directory is the next to enumerate.
LEMMA InspectLInv ==
  ASSUME LInv, NEW p \in Paths, Inspect(p)
  PROVE  LInv'
<1> USE DEF LInv, Inspect, specs, tsc, graph, resolve, Walking
<1>1. TypeOK'
  BY DEF TypeOK, Parts, Outcomes
<1>2. ASSUME Undisturbed PROVE WalkRight'
  <2> SUFFICES ASSUME pc = "product_walk" PROVE WalkRight'
    BY DEF WalkRight
  <2> USE <1>2 DEF Right, WalkRight, Entry
  <2>1. p \in ProductTree(tree) /\ p # None /\ Wanted = TsNames
    BY PathsAssumption DEF Wanted
  <2>2. found' \subseteq ProductFilesOf(tree)
    BY <2>1 DEF ProductFilesOf
  <2>3. ASSUME NEW f \in ProductFilesOf(tree) PROVE OnTheWay(f)'
    <3>1. f \in Paths /\ f \in TsNames /\ tree.entry[f] = "file"
      BY DEF ProductFilesOf, ProductTree, WalkOf, Under
    <3>2. CASE p \in Above[f]
      <4>1. p \in Under(ProductRoot)
        BY <2>1 DEF ProductTree, WalkOf
      <4>2. Entry(p) = "dir"
        BY <3>2, <4>1 DEF ProductFilesOf, ProductTree, WalkOf
      <4> QED BY <3>2, <4>2 DEF OnTheWay
    <3>3. CASE p = f
      BY <2>1, <3>1, <3>3 DEF OnTheWay
    <3>4. CASE p # f /\ p \notin Above[f]
      <4>1. here \notin Above[f]
        BY <3>1, PathsAssumption
      <4> QED BY <3>4, <4>1 DEF OnTheWay
    <3> QED BY <3>2, <3>3, <3>4
  <2> QED BY <2>1, <2>2, <2>3
<1>3. ASSUME Undisturbed PROVE SpecsRight'
  <2> SUFFICES ASSUME pc = "spec_walk" PROVE SpecsRight'
    BY DEF SpecsRight, Early
  <2> USE <1>3 DEF Right, SpecsRight, Early, Entry
  <2>1. p \in SpecTree(tree) /\ p # None /\ Wanted = SpecNames
    BY PathsAssumption DEF Wanted
  <2>2. found' \subseteq SpecFilesOf(tree)
    BY <2>1 DEF SpecFilesOf
  <2>3. ASSUME NEW f \in SpecFilesOf(tree), OnTheWay(f) PROVE OnTheWay(f)'
    <3>1. f \in Paths /\ f \in SpecNames /\ tree.entry[f] = "file"
      BY DEF SpecFilesOf, SpecTree, WalkOf, Under
    <3>2. CASE p \in Above[f]
      BY <3>1, <3>2, AboveFile DEF OnTheWay, TypeOK
    <3>3. CASE p = f
      BY <2>1, <3>1, <3>3 DEF OnTheWay
    <3>4. CASE p # f /\ p \notin Above[f]
      <4>1. here \notin Above[f]
        BY <3>1, PathsAssumption
      <4> QED BY <2>3, <3>4, <4>1 DEF OnTheWay
    <3> QED BY <3>2, <3>3, <3>4
  <2>4. UNCHANGED <<tree, roots, occurrences>>
    OBVIOUS
  <2> QED BY <2>1, <2>2, <2>3, <2>4
<1>4. Undisturbed => AnchorsRight' /\ ProductRight' /\ CacheRight'
  BY DEF Right, AnchorsRight, ProductRight, CacheRight, Discovered, TypeOK, Entry
<1> QED BY <1>1, <1>2, <1>3, <1>4 DEF Undisturbed, Right

\* What lay below the directory lies below one of its children, or is one.
LEMMA EnumerateLInv ==
  ASSUME LInv, Enumerate
  PROVE  LInv'
<1> USE DEF LInv, specs, tsc, graph, resolve
<1> SUFFICES ASSUME /\ here # None
                    /\ pending' = pending \union (Children \ Skipped)
                    /\ here' = None
                    /\ UNCHANGED <<tree, checkouts, pc, exit, roots, seen, found, specs,
                                   product, tsc, graph>>
             PROVE  LInv'
  BY FailLInv DEF Enumerate
<1> USE DEF Enumerate
<1>1. TypeOK'
  BY DEF TypeOK, Children, ChildPaths
<1>2. ASSUME Undisturbed, pc = "product_walk" PROVE WalkRight'
  <2> USE <1>2 DEF Right, WalkRight, Entry
  <2>1. Children \ Skipped = {c \in Paths \ Ignored : Parent[c] = here /\ Entry(c) # "missing"}
    BY DEF Children, ChildPaths, Skipped
  <2>2. Children \ Skipped \subseteq ProductTree(tree)
    BY <2>1, ChildInTree
  <2>3. ASSUME NEW f \in ProductFilesOf(tree) PROVE OnTheWay(f)'
    <3>1. CASE here \in Above[f]
      BY <2>1, <3>1, WayDown DEF OnTheWay
    <3>2. CASE here \notin Above[f]
      BY <3>2 DEF OnTheWay
    <3> QED BY <3>1, <3>2
  <2> QED BY <2>2, <2>3
<1>3. ASSUME Undisturbed, pc = "spec_walk" PROVE SpecsRight'
  <2> USE <1>3 DEF Right, SpecsRight, Early, Entry
  <2>1. Children \ Skipped = {c \in Paths : Parent[c] = here /\ Entry(c) # "missing"}
    BY DEF Children, ChildPaths, Skipped
  <2>2. Children \ Skipped \subseteq SpecTree(tree)
    BY <2>1, SpecChildInTree
  <2>3. ASSUME NEW f \in SpecFilesOf(tree), OnTheWay(f) PROVE OnTheWay(f)'
    <3>1. f \in Paths /\ tree.entry[f] = "file"
      BY DEF SpecFilesOf, SpecTree, WalkOf, Under
    <3>2. CASE here \in Above[f]
      BY <2>1, <3>1, <3>2, SpecWayDown DEF OnTheWay, TypeOK
    <3>3. CASE here \notin Above[f]
      BY <2>3, <3>3 DEF OnTheWay
    <3> QED BY <3>2, <3>3
  <2>4. UNCHANGED <<tree, pc, roots, found, occurrences>>
    OBVIOUS
  <2> QED BY <2>2, <2>3, <2>4
<1>4. Undisturbed => AnchorsRight' /\ ProductRight' /\ CacheRight'
  BY DEF Right, AnchorsRight, ProductRight, CacheRight, Discovered, TypeOK, Entry
<1> QED BY <1>1, <1>2, <1>3, <1>4 DEF Undisturbed, Right, WalkRight, SpecsRight, Early

\* Active comes before draft.
LEMMA StatusIsIndex ==
  ASSUME \A x \in occurrences : x[2] \in {"active", "draft"}
  PROVE  [a \in Anchors |-> Status(a)] = IndexOf(occurrences)
BY DEF IndexOf, Status

\* The walk of product_root starts at its root.
LEMMA IndexSpecsLInv ==
  ASSUME LInv, IndexSpecs
  PROVE  LInv'
<1> USE DEF LInv, walk, specs, tsc, graph, resolve, Walked, Walking
<1> SUFFICES ASSUME /\ index' = [a \in Anchors |-> Status(a)]
                    /\ pc' = "product_walk"
                    /\ pending' = {ProductRoot}
                    /\ UNCHANGED <<tree, checkouts, exit, roots, here, seen, found,
                                   occurrences, product, tsc, graph>>
             PROVE  LInv'
  BY FailLInv DEF IndexSpecs
<1> USE DEF IndexSpecs
<1>1. TypeOK'
  <2>1. \A a \in Anchors : Status(a) \in {"missing", "draft", "active"}
    BY DEF Status
  <2> QED BY <2>1, PathsAssumption DEF TypeOK, Parts, Outcomes
<1>2. WalkRight'
  <2>1. ProductRoot \in ProductTree(tree)
    BY RootInTree
  <2>2. \A f \in ProductFilesOf(tree) : OnTheWay(f)'
    BY FileUnderRoot DEF OnTheWay
  <2> QED BY <2>1, <2>2 DEF WalkRight, Entry
<1>3. ASSUME Undisturbed PROVE AnchorsRight'
  <2>1. ASSUME NEW p \in SpecFilesOf(tree)
        PROVE  OccurrencesIn(p, tree.text[p]) \subseteq occurrences
    <3>1. p \in Paths
      BY DEF SpecFilesOf, SpecTree, WalkOf, Under
    <3>2. ~OnTheWay(p)
      BY <3>1, PathsAssumption DEF OnTheWay
    <3> QED BY <1>3, <3>2 DEF Right, SpecsRight, Early
  <2>2. occurrences = OccurrencesOf(tree)
    BY <1>3, <2>1 DEF Right, SpecsRight, Early, OccurrencesOf
  <2>3. index' = IndexOf(occurrences)
    BY <1>3, StatusIsIndex DEF Right, SpecsRight, Early
  <2>4. OneActive(occurrences)
    <3>1. ~Fail("unsupported")
      BY DEF Fail
    <3>2. \A x, y \in {z \in occurrences : z[2] = "active"} : x # y => x[1] # y[1]
      BY <3>1
    <3> QED BY <3>2 DEF OneActive
  <2> QED BY <2>2, <2>3, <2>4 DEF AnchorsRight
<1>4. Undisturbed => SpecsRight' /\ ProductRight' /\ CacheRight'
  BY DEF Right, SpecsRight, ProductRight, CacheRight, Early, Discovered, TypeOK, Entry
<1> QED BY <1>1, <1>2, <1>3, <1>4 DEF Undisturbed, Right

\* The walk is over when nothing is pending: every file has been found.
LEMMA EndDiscoveryLInv ==
  ASSUME LInv, EndDiscovery
  PROVE  LInv'
<1> USE DEF LInv, EndDiscovery, walk, specs, tsc, graph, resolve, Walked, Walking
<1>1. TypeOK'
  BY DEF TypeOK, Parts, Outcomes
<1>2. ASSUME Undisturbed PROVE found = ProductFilesOf(tree)
  <2>1. ASSUME NEW f \in ProductFilesOf(tree) PROVE f \in found
    <3>1. f \in Paths
      BY FileUnderRoot
    <3>2. here \notin Above[f]
      BY <3>1, PathsAssumption
    <3> QED BY <1>2, <3>2 DEF Right, WalkRight, OnTheWay
  <2> QED BY <1>2, <2>1 DEF Right, WalkRight
<1>3. Undisturbed => Right'
  BY <1>2 DEF Right, WalkRight, SpecsRight, AnchorsRight, ProductRight, CacheRight,
              Early, Discovered, TypeOK, Entry
<1> QED BY <1>1, <1>3 DEF Undisturbed

\* The cache starts with files the walk has found.
LEMMA StartResolvingLInv ==
  ASSUME LInv, StartResolving
  PROVE  LInv'
<1> USE DEF LInv, StartResolving, walk, specs, tsc
<1>1. TypeOK'
  BY DEF TypeOK, Parts, Outcomes
<1>2. ASSUME Undisturbed PROVE CacheRight'
  <2>1. \A p \in product : Entry(p) = "file"
    BY <1>2 DEF Right, ProductRight, Discovered, ProductFilesOf, Entry
  <2> QED BY <2>1 DEF CacheRight, Entry
<1>3. Undisturbed => WalkRight' /\ SpecsRight' /\ AnchorsRight' /\ ProductRight'
  BY DEF Right, WalkRight, SpecsRight, AnchorsRight, ProductRight, Early, Discovered, TypeOK
<1> QED BY <1>1, <1>2, <1>3 DEF Undisturbed, Right

\* What is asked of the file system is remembered as it is.
LEMMA TryLInv ==
  ASSUME LInv, Try
  PROVE  LInv'
<1> DEFINE c == Candidate
           exists == Exists(c.path)
           inScope == c.path # None /\ InProductScope(c.path)
<1> USE DEF LInv, walk, specs, tsc
<1> SUFFICES ASSUME ~(c.path \notin DOMAIN cache /\ c.path # None /\ Entry(c.path) = "denied")
             PROVE  LInv'
  BY FailLInv DEF Try
<1>1. /\ cache' = IF c.path = None THEN cache
                  ELSE [p \in DOMAIN cache \union {c.path} |->
                          IF p = c.path THEN exists ELSE cache[p]]
      /\ edges' = edges \/ (inScope /\ edges' = [edges EXCEPT ![resolving[1]] =
                                                   @ \union {c.path}])
      /\ pc = "resolve"
      /\ UNCHANGED <<tree, checkouts, pc, exit, walk, specs, product, tsc, imports,
                     left, graphFindings>>
  BY DEF Try
<1> HIDE DEF c, inScope
<1>2. exists \in BOOLEAN
  BY DEF TypeOK, Exists
<1>3. \A p \in DOMAIN cache' : cache'[p] \in BOOLEAN
  <2>1. CASE c.path = None
    BY <1>1, <2>1 DEF TypeOK
  <2>2. CASE c.path # None
    BY <1>1, <1>2, <2>2 DEF TypeOK
  <2> QED BY <2>1, <2>2
<1>4. edges' \in [Paths -> SUBSET Paths]
  <2>1. inScope => c.path \in Paths
    BY DEF inScope, InProductScope, Under
  <2> QED BY <1>1, <2>1 DEF TypeOK
<1>5. TypeOK'
  BY <1>1, <1>3, <1>4 DEF TypeOK
<1>6. Undisturbed => CacheRight'
  <2> SUFFICES ASSUME Undisturbed, NEW p \in DOMAIN cache'
               PROVE  cache'[p] <=> Entry(p)' # "missing"
    BY <1>1 DEF CacheRight, Undisturbed
  <2>1. Entry(p)' = Entry(p)
    BY <1>1 DEF Entry
  <2>2. CASE p \in DOMAIN cache
    <3>1. cache'[p] = cache[p]
      BY <1>1, <2>2 DEF Exists
    <3> QED BY <2>1, <2>2, <3>1 DEF Right, CacheRight
  <2>3. CASE p \notin DOMAIN cache
    <3>1. p = c.path /\ p # None /\ cache'[p] = exists
      BY <1>1, <2>3
    <3> QED BY <2>1, <2>3, <3>1 DEF Exists
  <2> QED BY <2>2, <2>3
<1>7. Undisturbed => WalkRight' /\ SpecsRight' /\ AnchorsRight' /\ ProductRight'
  BY <1>1 DEF Right, WalkRight, SpecsRight, AnchorsRight, ProductRight, Early, Discovered,
              TypeOK, Undisturbed
<1> QED BY <1>1, <1>5, <1>6, <1>7 DEF Undisturbed, Right

\* The tsconfig files leave the product files alone.
LEMMA TsconfigLInv ==
  ASSUME LInv, LookForTsconfig \/ ReadTsconfig \/ NormalizeAliases
  PROVE  LInv'
<1> USE DEF walk, specs, tsc, graph, resolve
<1>1. CASE LookForTsconfig
  <2> SUFFICES ASSUME ~Fail("unsupported") PROVE LInv'
    BY FailLInv
  <2>1. /\ pc = "tsconfig" /\ pc' \in {"product_read", "chain"}
        /\ next' \in {next, RootTsconfig}
        /\ UNCHANGED <<tree, checkouts, exit, walk, specs, product, graph>>
    BY <1>1 DEF LookForTsconfig
  <2>2. TypeOK'
    BY <2>1, PathsAssumption DEF LInv, TypeOK, Parts, Outcomes
  <2> QED BY <2>1, <2>2, LaterLInv DEF Discovered
<1>2. CASE ReadTsconfig
  <2> SUFFICES ASSUME ~Fail("unsupported") PROVE LInv'
    BY FailLInv
  <2>1. /\ pc = "chain" /\ next # None
        /\ tree.text[next] # Broken /\ tree.text[next].extends # Broken
        /\ next' = tree.text[next].extends
        /\ UNCHANGED <<tree, checkouts, pc, exit, walk, specs, product, aliases, graph>>
    BY <1>2 DEF ReadTsconfig
  <2>2. next' \in Tsconfigs \union {None}
    BY <2>1, TextsAssumption DEF LInv, TypeOK
  <2>3. TypeOK'
    BY <2>1, <2>2 DEF LInv, TypeOK
  <2> QED BY <2>1, <2>3, LaterLInv DEF Discovered
<1>3. CASE NormalizeAliases
  <2> SUFFICES ASSUME ~Fail("unsupported") PROVE LInv'
    BY FailLInv
  <2>1. /\ pc = "chain" /\ pc' = "product_read"
        /\ UNCHANGED <<tree, checkouts, exit, walk, specs, product, chain, next, graph>>
    BY <1>3 DEF NormalizeAliases
  <2>2. TypeOK'
    BY <2>1 DEF LInv, TypeOK, Parts, Outcomes
  <2> QED BY <2>1, <2>2, LaterLInv DEF Discovered
<1> QED BY <1>1, <1>2, <1>3

\* Files are read one at a time.
LEMMA ReadLInv ==
  ASSUME LInv, NEW p \in Paths, ReadSpec(p) \/ ReadProduct(p)
  PROVE  LInv'
<1> USE DEF walk, specs, tsc, graph, resolve
<1> SUFFICES ASSUME ~Fail("unsupported") PROVE LInv'
  BY FailLInv
<1>1. CASE ReadSpec(p)
  <2>1. /\ pc = "spec_read" /\ pc' \in {"spec_walk", "spec_read"} /\ p \in found
        /\ found' = found \ {p} /\ tree.text[p] # Broken
        /\ occurrences' = occurrences \union OccurrencesIn(p, tree.text[p])
        /\ UNCHANGED <<tree, checkouts, exit, roots, pending, here, seen, index, product,
                       tsc, graph>>
    BY <1>1 DEF ReadSpec, Readable
  <2>2. TypeOK'
    BY <2>1 DEF LInv, TypeOK, Parts, Outcomes
  <2>3. ASSUME Undisturbed PROVE SpecsRight'
    <3> USE <2>1, <2>3 DEF LInv, Right, SpecsRight, Early
    <3>1. p \in SpecFilesOf(tree)
      OBVIOUS
    <3>2. occurrences' \subseteq OccurrencesOf(tree)
      BY <3>1 DEF OccurrencesOf
    <3>3. ASSUME NEW f \in SpecFilesOf(tree), OnTheWay(f), f # p PROVE OnTheWay(f)'
      BY <3>3 DEF OnTheWay
    <3>4. \A x \in occurrences' : x[2] \in {"active", "draft"}
      <4>1. tree.text[p].status \in {"active", "draft"}
        BY <3>1, TextsAssumption DEF TypeOK, SpecFilesOf
      <4> QED BY <4>1 DEF OccurrencesIn
    <3> QED BY <3>2, <3>3, <3>4 DEF Entry
  <2>4. Undisturbed => WalkRight' /\ AnchorsRight' /\ ProductRight' /\ CacheRight'
    BY <2>1 DEF LInv, Right, WalkRight, AnchorsRight, ProductRight, CacheRight, Discovered,
                TypeOK, Entry
  <2> QED BY <2>1, <2>2, <2>3, <2>4 DEF LInv, Right, Undisturbed
<1>2. CASE ReadProduct(p)
  <2>1. /\ pc = "product_read"
        /\ found' = found \ {p}
        /\ UNCHANGED <<tree, checkouts, pc, exit, roots, pending, here, seen, specs,
                       product, tsc, cache, edges>>
    BY <1>2 DEF ReadProduct
  <2>2. TypeOK'
    BY <2>1 DEF LInv, TypeOK
  <2> QED BY <2>1, <2>2, LaterLInv DEF Discovered
<1> QED BY <1>1, <1>2

\* A scan that finishes keeps what it has found.
LEMMA FinishLInv ==
  ASSUME LInv, Finish
  PROVE  LInv'
<1> USE DEF Finish, walk, specs, tsc, graph, resolve
<1>1. TypeOK'
  BY DEF LInv, TypeOK, Parts, Outcomes
<1>2. Undisturbed => AnchorsRight' /\ ProductRight'
  BY DEF LInv, Right, AnchorsRight, ProductRight, Discovered, Undisturbed
<1>3. Undisturbed => WalkRight' /\ SpecsRight' /\ CacheRight'
  BY DEF LInv, Right, WalkRight, SpecsRight, CacheRight, Early, Entry
<1> QED BY <1>1, <1>2, <1>3 DEF LInv, Right, Undisturbed

\* On a tree that has changed nothing is claimed but the types.
LEMMA CheckoutLInv ==
  ASSUME LInv, Checkout
  PROVE  LInv'
BY ScanAssumption DEF LInv, Checkout, scan, walk, specs, tsc, graph, resolve, TypeOK,
                      Undisturbed

\* Every step of the scan keeps it.
LEMMA StepLInv ==
  ASSUME LInv, Step
  PROVE  LInv'
<1> USE DEF walk, specs, tsc, graph, resolve
<1>1. CASE LoadConfig
  <2> SUFFICES ASSUME ~Fail("config") PROVE LInv'
    BY FailLInv
  <2>1. /\ pc = "config" /\ pc' = "spec_walk"
        /\ UNCHANGED <<tree, checkouts, exit, walk, specs, product, tsc, graph>>
    BY <1>1 DEF LoadConfig
  <2>2. TypeOK'
    BY <2>1 DEF LInv, TypeOK, Parts, Outcomes
  <2>3. pc \in Early /\ pc' \in Early
    BY <2>1 DEF Early
  <2> QED BY <2>1, <2>2, <2>3, StillEarlyLInv
<1>2. ASSUME NEW root \in SpecRoots, StartSpecRoot(root) PROVE LInv'
  <2>1. TypeOK'
    BY <1>2, PathsAssumption DEF LInv, StartSpecRoot, TypeOK
  <2>2. ASSUME Undisturbed PROVE SpecsRight'
    <3> USE <1>2, <2>2 DEF LInv, Right, SpecsRight, Early, StartSpecRoot
    <3>1. pending' \subseteq SpecTree(tree)
      BY SpecRootInTree
    <3>2. ASSUME NEW f \in SpecFilesOf(tree) PROVE f \in Under(root) => OnTheWay(f)'
      BY DEF OnTheWay, Under
    <3>3. ASSUME NEW f \in SpecFilesOf(tree), OnTheWay(f) PROVE FALSE
      <4>1. f \in Paths
        BY DEF SpecFilesOf, SpecTree, WalkOf, Under
      <4> QED BY <3>3, <4>1, PathsAssumption DEF OnTheWay
    <3> QED BY <3>1, <3>2, <3>3 DEF Entry
  <2>3. Undisturbed => WalkRight' /\ AnchorsRight' /\ ProductRight' /\ CacheRight'
    BY <1>2 DEF StartSpecRoot, LInv, Right, WalkRight, AnchorsRight, ProductRight,
                CacheRight, Discovered, TypeOK, Entry
  <2> QED BY <1>2, <2>1, <2>2, <2>3 DEF StartSpecRoot, LInv, Right, Undisturbed
<1>3. ASSUME NEW p \in Paths, Refuse(p) \/ Inspect(p) \/ ReadSpec(p) \/ ReadProduct(p)
      PROVE  LInv'
  BY <1>3, FailLInv, InspectLInv, ReadLInv DEF Refuse
<1>4. CASE Enumerate
  BY <1>4, EnumerateLInv
<1>5. CASE ReadSpecs
  <2>1. TypeOK'
    BY <1>5 DEF LInv, ReadSpecs, TypeOK, Parts, Outcomes
  <2> QED BY <1>5, <2>1, StillEarlyLInv DEF ReadSpecs, Early
<1>6. CASE IndexSpecs
  BY <1>6, IndexSpecsLInv
<1>7. CASE EndDiscovery
  BY <1>7, EndDiscoveryLInv
<1>8. CASE LookForTsconfig \/ ReadTsconfig \/ NormalizeAliases
  BY <1>8, TsconfigLInv
<1>9. CASE StartResolving
  BY <1>9, StartResolvingLInv
<1>10. ASSUME NEW x \in left, Resolve(x) PROVE LInv'
  <2>1. TypeOK'
    BY <1>10 DEF LInv, Resolve, TypeOK
  <2> QED BY <1>10, <2>1, LaterLInv DEF Resolve, Discovered
<1>11. CASE Try
  BY <1>11, TryLInv
<1>12. CASE GiveUp
  <2>1. TypeOK'
    BY <1>12 DEF LInv, GiveUp, TypeOK
  <2> QED BY <1>12, <2>1, LaterLInv DEF GiveUp, Discovered
<1>13. CASE Finish
  BY <1>13, FinishLInv
<1> QED BY <1>1, <1>2, <1>3, <1>4, <1>5, <1>6, <1>7, <1>8, <1>9, <1>10, <1>11, <1>12,
           <1>13 DEF Step

\* So does a change of the tree, after which nothing is claimed of the tree.
LEMMA NextLInv == LInv /\ [Next]_vars => LInv'
<1> SUFFICES ASSUME LInv, [Next]_vars PROVE LInv'
  OBVIOUS
<1>1. CASE UNCHANGED vars
  BY <1>1 DEF vars, scan, walk, specs, tsc, graph, resolve, LInv, TypeOK, Undisturbed,
              Right, WalkRight, SpecsRight, AnchorsRight, ProductRight, CacheRight,
              OnTheWay, Entry
<1> QED BY <1>1, StepLInv, CheckoutLInv DEF Next

-----------------------------------------------------------------------------
(* the theorems *)

\* The invariant holds of every scan.
LEMMA AlwaysLInv == Spec => []LInv
BY InitLInv, NextLInv, PTL DEF Spec

\* Every variable of a scan keeps its type, whatever the tree becomes.
THEOREM LiveScanTypeCorrect == Spec => []TypeOK
<1>1. LInv => TypeOK
  BY DEF LInv
<1> QED BY <1>1, AlwaysLInv, PTL

\* However roots, ignored paths and files lie in the tree, a scan of a tree nobody
\* changes finds the product files and no others.
THEOREM FindsProductFiles == Spec => []ProductExact
<1>1. LInv => ProductExact
  BY DEF LInv, Right, ProductRight, ProductExact
<1> QED BY <1>1, AlwaysLInv, PTL

\* On such a tree the index holds the anchors of all spec files, each active once at
\* most, and a draft of an active anchor does not hide it.
THEOREM IndexesAnchors == Spec => []AnchorsExact
<1>1. LInv => AnchorsExact
  BY DEF LInv, Right, AnchorsRight, AnchorsExact
<1> QED BY <1>1, AlwaysLInv, PTL

\* On such a tree what the cache says of a path is true, of the files that discovery
\* put into it as of those that were asked for.
THEOREM CacheIsView == Spec => []ViewOfTree
<1>1. LInv => ViewOfTree
  BY DEF LInv, Right, CacheRight, ViewOfTree
<1> QED BY <1>1, AlwaysLInv, PTL

-----------------------------------------------------------------------------
(* one view of the tree: settled imports *)

\* What the cache knows to exist, and the candidates it has been asked about.
Known    == {p \in DOMAIN cache : cache[p]}
Asked(c) == c.path = None \/ c.path \in DOMAIN cache
Cs(i)    == Candidates(i, aliases)
Result(i) == Classified(i, aliases, Known)

\* An import is settled when what the cache will learn cannot change its result.
Exhausted(i) == \A k \in DOMAIN Cs(i) : Asked(Cs(i)[k])
NoTarget(i, k) == ~(Cs(i)[k].path \in Known /\ IsTarget(Cs(i)[k]))
TargetAt(i, n) ==
  /\ n \in DOMAIN Cs(i) /\ Cs(i)[n].path \in Known /\ IsTarget(Cs(i)[n])
  /\ \A k \in DOMAIN Cs(i) : k < n => Asked(Cs(i)[k]) /\ NoTarget(i, k)
Settled(i) == Exhausted(i) \/ \E n \in Nat : TargetAt(i, n)

Grows ==
  /\ UNCHANGED aliases
  /\ None \notin DOMAIN cache'
  /\ \A p \in DOMAIN cache : p \in DOMAIN cache' /\ cache'[p] = cache[p]

\* How many candidates a specifier has is a number.
LEMMA DefinitionsAreSeq ==
  ASSUME NEW form \in Forms
  PROVE  Len(CandidateDefinitions(form)) \in Nat
<1> USE DEF CandidateDefinitions
<1>1. CASE form = "ts"
  BY <1>1
<1>2. CASE form = "tsx"
  BY <1>2
<1>3. CASE form = "dts"
  BY <1>3
<1>4. CASE form = "js"
  BY <1>4
<1>5. CASE form = "dtsjs"
  BY <1>5
<1>6. CASE form = "plain"
  BY <1>6
<1>7. CASE form = "dotted"
  BY <1>7
<1> QED BY <1>1, <1>2, <1>3, <1>4, <1>5, <1>6, <1>7 DEF Forms

\* The candidates of an import are a sequence.
LEMMA CandidatesDomain ==
  ASSUME NEW i \in Import, NEW as
  PROVE  Len(Candidates(i, as)) \in Nat /\ DOMAIN Candidates(i, as) = 1..Len(Candidates(i, as))
<1>1. Len(CandidateDefinitions(i.form)) \in Nat
  BY DefinitionsAreSeq DEF Import
<1> QED BY <1>1 DEF Candidates

\* The minimum is the number no other is below.
LEMMA MinIs ==
  ASSUME NEW S \in SUBSET Nat, NEW k \in S, \A j \in S : k <= j
  PROVE  Min(S) = k
<1>1. \E x \in S : \A y \in S : x =< y
  OBVIOUS
<1>2. Min(S) \in S /\ \A y \in S : Min(S) =< y
  BY <1>1, Zenon DEF Min
<1>3. Min(S) \in Nat /\ k \in Nat /\ k <= Min(S) /\ Min(S) <= k
  BY <1>2
<1> QED BY <1>3

\* The first target that exists is the result, whatever comes after it.
LEMMA FirstTarget ==
  ASSUME NEW i \in Import, NEW as, NEW present, None \notin present,
         NEW n \in DOMAIN Candidates(i, as),
         Candidates(i, as)[n].path \in present, IsTarget(Candidates(i, as)[n]),
         \A k \in DOMAIN Candidates(i, as) : k < n =>
           ~(Candidates(i, as)[k].path \in present /\ IsTarget(Candidates(i, as)[k]))
  PROVE  Classified(i, as, present) = <<"target", Candidates(i, as)[n].path>>
<1> DEFINE cs == Candidates(i, as)
           existing == {k \in DOMAIN cs : cs[k].path \in present}
           hits == {k \in existing : IsTarget(cs[k])}
<1>0. DOMAIN cs \in SUBSET Nat
  <2>1. DOMAIN cs = 1..Len(cs) /\ Len(cs) \in Nat
    BY CandidatesDomain
  <2> HIDE DEF cs
  <2> QED BY <2>1
<1>1. hits \in SUBSET Nat /\ n \in Nat
  BY <1>0
<1>2. n \in hits
  OBVIOUS
<1>3. ASSUME NEW j \in hits PROVE n <= j
  <2>1. j \in DOMAIN cs /\ ~(j < n)
    OBVIOUS
  <2>2. j \in Nat
    BY <1>0, <2>1
  <2> HIDE DEF cs, hits
  <2> QED BY <1>1, <2>1, <2>2
<1>4. Min(hits) = n
  BY <1>1, <1>2, <1>3, MinIs
<1>5. FirstOf(cs, hits) = cs[n].path
  BY <1>2, <1>4 DEF FirstOf
<1> HIDE DEF hits
<1>6. Classified(i, as, present) = IF FirstOf(cs, hits) # None
                                   THEN <<"target", FirstOf(cs, hits)>>
                                   ELSE Classified(i, as, present)
  BY DEF Classified, hits
<1> QED BY <1>5, <1>6

\* The cache learns, the result of a settled import stays.
LEMMA Stable ==
  ASSUME NEW i \in Import, Grows, None \notin DOMAIN cache, Settled(i)
  PROVE  Settled(i)' /\ Result(i)' = Result(i)
<1>0. Cs(i)' = Cs(i)
  BY DEF Cs, Grows
<1>1. ASSUME NEW c, Asked(c) PROVE Asked(c)' /\ (c.path \in Known' <=> c.path \in Known)
  BY <1>1 DEF Asked, Known, Grows
<1>2. CASE Exhausted(i)
  <2>1. Exhausted(i)'
    BY <1>0, <1>1, <1>2 DEF Exhausted
  <2>2. {k \in DOMAIN Cs(i) : Cs(i)[k].path \in Known'} =
          {k \in DOMAIN Cs(i) : Cs(i)[k].path \in Known}
    BY <1>1, <1>2 DEF Exhausted
  <2>3. Result(i)' = Result(i)
    BY <2>2 DEF Result, Classified, Cs, Grows
  <2> QED BY <2>1, <2>3 DEF Settled
<1>3. ASSUME NEW n \in Nat, TargetAt(i, n) PROVE Settled(i)' /\ Result(i)' = Result(i)
  <2>1. Known \subseteq Known'
    BY DEF Known, Grows
  <2>2. TargetAt(i, n)'
    BY <1>0, <1>1, <1>3, <2>1 DEF TargetAt, NoTarget
  <2>3. Result(i) = <<"target", Cs(i)[n].path>>
    BY <1>3, FirstTarget DEF TargetAt, NoTarget, Result, Known, Cs
  <2>4. None \notin Known'
    BY DEF Known, Grows
  <2>5. Result(i)' = <<"target", Cs(i)[n].path>>
    BY <1>0, <2>2, <2>4, FirstTarget DEF TargetAt, NoTarget, Result, Cs, Grows
  <2> QED BY <2>2, <2>3, <2>5 DEF Settled
<1> QED BY <1>2, <1>3 DEF Settled

-----------------------------------------------------------------------------
(* one view of the tree: the invariant *)

BeforeGraph == Early \union {"product_walk", "tsconfig", "chain"}

\* The static and the other imports of the product files read so far, and the static
\* ones that have been resolved.
StaticImports == {x \in product \X Import : x[2] \in imports[x[1]] /\ x[2].syntax = "static"}
CallFindings  == {<<x[1], <<"unsupported_static_edge", x[2]>>>> :
                    x \in {y \in product \X Import :
                             y[2] \in imports[y[1]] /\ y[2].syntax = "call"}}
Resolved == StaticImports \ (left \union {resolving})

FilesRight ==
  /\ pc = "product_walk" => found \subseteq TsNames
  /\ pc \in Discovered => product \subseteq TsNames
  /\ pc \in {"tsconfig", "chain", "product_read"} => found \subseteq product

GraphTyped == imports \in [Paths -> SUBSET Import] /\ None \notin DOMAIN cache

Blank ==
  /\ imports = [p \in Paths |-> {}] /\ edges = [p \in Paths |-> {}]
  /\ left = {} /\ graphFindings = {} /\ resolving = None

ReadRight ==
  /\ pc \in BeforeGraph => Blank
  /\ pc = "product_read" =>
       /\ edges = [p \in Paths |-> {}] /\ resolving = None
       /\ \A f \in found : imports[f] = {}
       /\ left = StaticImports /\ graphFindings = CallFindings

\* The part of the result that is the graph: exactly what the resolved imports give.
EdgesFrom(f)  == {Result(x[2])[2] : x \in {y \in Resolved : y[1] = f /\ Result(y[2])[1] = "target"}}
FindingsFrom  == {<<x[1], Result(x[2])>> : x \in {y \in Resolved : Result(y[2])[1] # "target"}}

ResolveRight ==
  pc = "resolve" \/ exit = "ok" =>
    /\ product \subseteq Known
    /\ left \subseteq StaticImports
    /\ resolving \in (StaticImports \ left) \union {None}
    /\ \A x \in Resolved : Settled(x[2])
    /\ \A f \in product : edges[f] = EdgesFrom(f)
    /\ graphFindings = CallFindings \union FindingsFrom
    /\ exit = "ok" => left = {} /\ resolving = None

\* path is that of the first of the hits, None when there is none.
IsFirst(path, cs, hits) ==
  \/ hits = {} /\ path = None
  \/ \E m \in hits : (\A k \in hits : m <= k) /\ path = cs[m].path

OutHits(i, n)   == {k \in 1..n : Cs(i)[k].path \in Known /\ IsOutOfScope(Cs(i)[k])}
OtherHits(i, n) == {k \in 1..n : Cs(i)[k].path \in Known /\ IsUnsupported(Cs(i)[k])}

\* The candidates tried so far.
LoopRight ==
  pc = "resolve" /\ resolving # None =>
    LET i == resolving[2]
    IN  /\ tried \in 0..Len(Cs(i))
        /\ \A k \in 1..tried : Asked(Cs(i)[k]) /\ NoTarget(i, k)
        /\ IsFirst(firstOut, Cs(i), OutHits(i, tried))
        /\ IsFirst(firstUnsupported, Cs(i), OtherHits(i, tried))

VInv == FilesRight /\ GraphTyped /\ ReadRight /\ ResolveRight /\ LoopRight

-----------------------------------------------------------------------------
(* one view of the tree: the steps before the imports are resolved *)

\* A scan starts with a blank graph.
LEMMA InitView == Init => VInv
BY DEF Init, VInv, FilesRight, GraphTyped, ReadRight, ResolveRight, LoopRight, Blank,
       Discovered, BeforeGraph

\* A scan that fails claims nothing.
LEMMA FailView ==
  ASSUME VInv, NEW code \in {"config", "unsupported"}, Fail(code)
  PROVE  VInv'
BY DEF Fail, VInv, FilesRight, GraphTyped, ReadRight, ResolveRight, LoopRight, Discovered,
       BeforeGraph, Early, graph, resolve

\* Before the product files are read the graph is blank.
LEMMA BeforeView ==
  ASSUME TypeOK', VInv, FilesRight', UNCHANGED <<exit, graph>>,
         pc \in BeforeGraph, pc' \in BeforeGraph \union {"product_read"}
  PROVE  VInv'
<1>1. Blank /\ Blank'
  BY DEF VInv, ReadRight, Blank, graph, resolve
<1>2. exit' = "running" /\ pc' # "resolve"
  BY DEF TypeOK, BeforeGraph, Early
<1>3. product' \subseteq Paths /\ found' \subseteq Paths
  BY DEF TypeOK
<1>4. StaticImports' = {} /\ CallFindings' = {}
  BY <1>1, <1>3 DEF StaticImports, CallFindings, Blank
<1>5. ReadRight'
  BY <1>1, <1>3, <1>4 DEF ReadRight, Blank
<1>6. ResolveRight' /\ LoopRight'
  BY <1>2 DEF ResolveRight, LoopRight
<1>7. GraphTyped'
  BY DEF VInv, GraphTyped, graph, resolve
<1> QED BY <1>5, <1>6, <1>7 DEF VInv

\* The imports of a file wait for their resolution, its calls are findings at once.
LEMMA ReadProductView ==
  ASSUME TypeOK, TypeOK', VInv, NEW f \in Paths, ReadProduct(f)
  PROVE  VInv'
<1> SUFFICES ASSUME ~Fail("unsupported") PROVE VInv'
  BY FailView
<1> DEFINE local == {i \in tree.text[f] : IsLocal(i, aliases)}
           calls == {i \in local : i.syntax = "call"}
<1> USE DEF walk, specs, tsc, resolve
<1>1. /\ pc = "product_read" /\ pc' = pc /\ f \in found /\ tree.text[f] # Broken
      /\ imports' = [imports EXCEPT ![f] = local]
      /\ left' = left \union {<<f, i>> : i \in local \ calls}
      /\ graphFindings' = graphFindings \union
                            {<<f, <<"unsupported_static_edge", i>>>> : i \in calls}
      /\ found' = found \ {f}
      /\ UNCHANGED <<exit, product, aliases, resolving, cache, edges>>
  BY DEF ReadProduct, Readable
<1>2. f \in product /\ f \in TsNames /\ product \subseteq Paths
  BY <1>1 DEF VInv, FilesRight, Discovered, TypeOK
<1>3. local \subseteq Import
  BY <1>1, <1>2, TextsAssumption DEF TypeOK
<1> HIDE DEF local
<1>4. GraphTyped'
  BY <1>1, <1>3 DEF VInv, GraphTyped
<1>5. FilesRight'
  BY <1>1 DEF VInv, FilesRight
<1>6. imports[f] = {} /\ left = StaticImports /\ graphFindings = CallFindings
  BY <1>1 DEF VInv, ReadRight
<1>7. \A i \in local : i \in calls <=> i.syntax # "static"
  BY <1>3 DEF Import
<1>8. \A p \in Paths : imports'[p] = IF p = f THEN local ELSE imports[p]
  BY <1>1 DEF VInv, GraphTyped
<1> HIDE DEF calls
<1>9. left' = StaticImports'
  <2>1. StaticImports' = StaticImports \union {<<f, i>> : i \in local \ calls}
    BY <1>1, <1>2, <1>3, <1>6, <1>7, <1>8 DEF StaticImports
  <2> QED BY <1>1, <1>6, <2>1
<1>10. graphFindings' = CallFindings'
  <2> DEFINE C == {y \in product \X Import : y[2] \in imports[y[1]] /\ y[2].syntax = "call"}
  <2>1. C' = C \union {<<f, i>> : i \in calls}
    BY <1>1, <1>2, <1>3, <1>6, <1>8 DEF calls
  <2>2. CallFindings = {<<x[1], <<"unsupported_static_edge", x[2]>>>> : x \in C}
    BY DEF CallFindings
  <2>3. CallFindings' = {<<x[1], <<"unsupported_static_edge", x[2]>>>> : x \in C'}
    BY DEF CallFindings
  <2> DEFINE Finding(x) == <<x[1], <<"unsupported_static_edge", x[2]>>>>
             D == {<<f, i>> : i \in calls}
  <2>4. \A i : Finding(<<f, i>>) = <<f, <<"unsupported_static_edge", i>>>>
    OBVIOUS
  <2> HIDE DEF C, Finding
  <2>7. {Finding(x) : x \in D} = {Finding(<<f, i>>) : i \in calls}
    OBVIOUS
  <2>5. {Finding(x) : x \in C \union D} = {Finding(x) : x \in C} \union {Finding(x) : x \in D}
    OBVIOUS
  <2>6. CallFindings = {Finding(x) : x \in C} /\ CallFindings' = {Finding(x) : x \in C \union D}
    BY <2>1, <2>2, <2>3 DEF Finding
  <2> QED BY <1>1, <1>6, <2>4, <2>5, <2>6, <2>7
<1>11. ReadRight'
  BY <1>1, <1>2, <1>8, <1>9, <1>10 DEF VInv, ReadRight, BeforeGraph, Early, TypeOK
<1>12. ResolveRight' /\ LoopRight'
  BY <1>1 DEF ResolveRight, LoopRight, TypeOK
<1> QED BY <1>4, <1>5, <1>11, <1>12 DEF VInv

\* Nothing is resolved when the resolution starts.
LEMMA StartResolvingView ==
  ASSUME TypeOK, VInv, StartResolving
  PROVE  VInv'
<1> USE DEF StartResolving, walk, specs, tsc
<1>1. GraphTyped' /\ FilesRight'
  BY PathsAssumption DEF VInv, GraphTyped, FilesRight, Discovered, TypeOK
<1>2. StaticImports' = StaticImports /\ CallFindings' = CallFindings
  BY DEF StaticImports, CallFindings
<1>3. left = StaticImports /\ graphFindings = CallFindings /\ resolving = None
      /\ edges = [p \in Paths |-> {}]
  BY DEF VInv, ReadRight
<1>4. Resolved' = {}
  BY <1>2, <1>3 DEF Resolved
<1>5. FindingsFrom' = {} /\ \A f \in product : EdgesFrom(f)' = {}
  BY <1>4 DEF FindingsFrom, EdgesFrom
<1>6. ResolveRight'
  BY <1>2, <1>3, <1>4, <1>5 DEF ResolveRight, Known, TypeOK
<1>7. ReadRight' /\ LoopRight'
  BY <1>3 DEF ReadRight, LoopRight, BeforeGraph, Early
<1> QED BY <1>1, <1>6, <1>7 DEF VInv

-----------------------------------------------------------------------------
(* one view of the tree: the resolution *)

\* An import is a pair, so it is never None.
LEMMA ImportPairs ==
  ASSUME TypeOK, NEW x \in StaticImports
  PROVE  x # None /\ x[1] \in product /\ x[2] \in Import /\ x = <<x[1], x[2]>>
BY PathsAssumption DEF StaticImports, TypeOK

\* When the cache grows the results of the resolved imports stay.
LEMMA KeepsResolved ==
  ASSUME VInv, TypeOK, pc = "resolve", Grows,
         UNCHANGED <<pc, exit, product, imports, left, graphFindings, edges>>,
         resolving' = resolving
  PROVE  ResolveRight'
<1> USE DEF VInv
<1>1. StaticImports' = StaticImports /\ CallFindings' = CallFindings /\ Resolved' = Resolved
  BY DEF StaticImports, CallFindings, Resolved
<1>2. \A x \in Resolved : Settled(x[2])' /\ Result(x[2])' = Result(x[2])
  <2> TAKE x \in Resolved
  <2>1. x[2] \in Import /\ Settled(x[2])
    BY ImportPairs DEF ResolveRight, Resolved
  <2> QED BY <2>1, Stable DEF GraphTyped
<1>3. Known \subseteq Known'
  BY DEF Known, Grows
<1>4. FindingsFrom' = FindingsFrom /\ \A f : EdgesFrom(f)' = EdgesFrom(f)
  BY <1>1, <1>2 DEF FindingsFrom, EdgesFrom
<1> QED BY <1>1, <1>2, <1>3, <1>4, ImportPairs DEF ResolveRight

\* An import that is being resolved is neither left nor resolved.
LEMMA ResolveView ==
  ASSUME VInv, TypeOK, NEW x \in left, Resolve(x)
  PROVE  VInv'
<1> USE DEF VInv, Resolve, walk, specs, tsc
<1>1. FilesRight' /\ GraphTyped' /\ ReadRight'
  BY DEF FilesRight, GraphTyped, ReadRight, BeforeGraph, Early
<1>2. x \in StaticImports /\ left \subseteq StaticImports
  BY DEF ResolveRight
<1>3. StaticImports' = StaticImports /\ CallFindings' = CallFindings /\ Known' = Known
  BY DEF StaticImports, CallFindings, Known
<1>4. Resolved' = Resolved
  <2>1. None \notin StaticImports
    BY ImportPairs
  <2> QED BY <1>2, <1>3, <2>1 DEF Resolved
<1>5. \A i : Result(i)' = Result(i) /\ (Settled(i)' <=> Settled(i))
  BY <1>3 DEF Result, Settled, Exhausted, TargetAt, NoTarget, Asked, Cs
<1>6. FindingsFrom' = FindingsFrom /\ \A f : EdgesFrom(f)' = EdgesFrom(f)
  BY <1>4, <1>5 DEF FindingsFrom, EdgesFrom
<1>7. ResolveRight'
  BY <1>2, <1>3, <1>4, <1>5, <1>6 DEF ResolveRight, TypeOK
<1>8. LoopRight'
  <2>1. OutHits(x[2], 0)' = {} /\ OtherHits(x[2], 0)' = {}
    BY DEF OutHits, OtherHits
  <2>2. Len(Cs(x[2])) \in Nat
    BY <1>2, ImportPairs, CandidatesDomain DEF Cs
  <2>3. Cs(x[2])' = Cs(x[2])
    BY DEF Cs
  <2> QED BY <2>1, <2>2, <2>3 DEF LoopRight, IsFirst
<1> QED BY <1>1, <1>7, <1>8

\* What the loop remembers is what the contract takes.
LEMMA FirstIs ==
  ASSUME NEW path, NEW cs, NEW hits \in SUBSET Nat, IsFirst(path, cs, hits)
  PROVE  FirstOf(cs, hits) = path
<1>1. CASE hits = {}
  BY <1>1 DEF IsFirst, FirstOf
<1>2. ASSUME NEW m \in hits, \A k \in hits : m <= k, path = cs[m].path
      PROVE  FirstOf(cs, hits) = path
  BY <1>2, MinIs DEF FirstOf
<1> QED BY <1>1, <1>2 DEF IsFirst

\* An import without a target has the result that the loop has remembered.
LEMMA ExhaustedResult ==
  ASSUME VInv, TypeOK, resolving # None, pc = "resolve", tried = Len(Cs(resolving[2]))
  PROVE  /\ Settled(resolving[2])
         /\ Result(resolving[2]) =
              IF firstOut # None THEN <<"out_of_scope_static_edge", firstOut>>
              ELSE IF firstUnsupported # None
                   THEN <<"unsupported_local_target", firstUnsupported>>
              ELSE <<"unresolved_static_edge", resolving[2]>>
<1> DEFINE i == resolving[2]
           existing == {k \in DOMAIN Cs(i) : Cs(i)[k].path \in Known}
<1>1. i \in Import
  BY ImportPairs DEF VInv, ResolveRight
<1>2. DOMAIN Cs(i) = 1..tried /\ tried \in Nat
  BY <1>1, CandidatesDomain DEF Cs
<1>3. /\ \A k \in 1..tried : Asked(Cs(i)[k]) /\ NoTarget(i, k)
      /\ IsFirst(firstOut, Cs(i), OutHits(i, tried))
      /\ IsFirst(firstUnsupported, Cs(i), OtherHits(i, tried))
  BY DEF VInv, LoopRight
<1> HIDE DEF i
<1>4. {k \in existing : IsTarget(Cs(i)[k])} = {}
  BY <1>2, <1>3 DEF NoTarget
<1>5. {k \in existing : IsOutOfScope(Cs(i)[k])} = OutHits(i, tried)
  BY <1>2 DEF OutHits
<1>6. {k \in existing : IsUnsupported(Cs(i)[k])} = OtherHits(i, tried)
  BY <1>2 DEF OtherHits
<1>7. FirstOf(Cs(i), {}) = None
  BY DEF FirstOf
<1>8. FirstOf(Cs(i), OutHits(i, tried)) = firstOut
      /\ FirstOf(Cs(i), OtherHits(i, tried)) = firstUnsupported
  BY <1>2, <1>3, FirstIs DEF OutHits, OtherHits
<1>9. Result(i) = IF firstOut # None THEN <<"out_of_scope_static_edge", firstOut>>
                  ELSE IF firstUnsupported # None
                       THEN <<"unsupported_local_target", firstUnsupported>>
                  ELSE <<"unresolved_static_edge", i>>
  BY <1>4, <1>5, <1>6, <1>7, <1>8 DEF Result, Classified, Cs
<1>10. Settled(i)
  BY <1>2, <1>3 DEF Settled, Exhausted
<1> QED BY <1>9, <1>10 DEF i

\* No candidate was a target: the findings learn what the import is.
LEMMA GiveUpView ==
  ASSUME VInv, TypeOK, GiveUp
  PROVE  VInv'
<1> DEFINE x == resolving
           r == Result(x[2])
<1> USE DEF walk, specs, tsc
<1>0. /\ pc = "resolve" /\ x # None /\ tried = Len(Cs(x[2])) /\ resolving' = None
      /\ UNCHANGED <<pc, exit, product, found, imports, aliases, left, cache, edges>>
  BY DEF GiveUp, Cs, Current
<1>1. FilesRight' /\ GraphTyped' /\ ReadRight' /\ LoopRight'
  BY <1>0 DEF VInv, FilesRight, GraphTyped, ReadRight, LoopRight, BeforeGraph, Early
<1>2. Settled(x[2]) /\ r[1] # "target" /\ graphFindings' = graphFindings \union {<<x[1], r>>}
  BY <1>0, ExhaustedResult DEF GiveUp
<1>3. StaticImports' = StaticImports /\ CallFindings' = CallFindings /\ Known' = Known
  BY <1>0 DEF StaticImports, CallFindings, Known
<1>4. x \in StaticImports \ left /\ None \notin StaticImports
  BY <1>0, ImportPairs DEF VInv, ResolveRight
<1>5. Resolved' = Resolved \union {x} /\ x \notin Resolved
  BY <1>0, <1>3, <1>4 DEF Resolved
<1>6. \A i : Result(i)' = Result(i) /\ (Settled(i)' <=> Settled(i))
  BY <1>0, <1>3 DEF Result, Settled, Exhausted, TargetAt, NoTarget, Asked, Cs
<1>7. FindingsFrom' = FindingsFrom \union {<<x[1], r>>}
  BY <1>2, <1>5, <1>6 DEF FindingsFrom
<1>8. \A f : EdgesFrom(f)' = EdgesFrom(f)
  BY <1>2, <1>5, <1>6 DEF EdgesFrom
<1>9. ResolveRight'
  <2>1. \A y \in Resolved' : Settled(y[2])'
    BY <1>0, <1>2, <1>5, <1>6 DEF VInv, ResolveRight
  <2>2. exit' # "ok"
    BY <1>0 DEF TypeOK
  <2> HIDE DEF r
  <2> QED BY <1>0, <1>2, <1>3, <1>7, <1>8, <2>1, <2>2 DEF VInv, ResolveRight
<1> QED BY <1>1, <1>9 DEF VInv

\* What one turn of the loop learns.
LEMMA TryGrows ==
  ASSUME VInv, TypeOK, Try, ~Fail("unsupported"), NEW p, p = Candidate.path
  PROVE  /\ Grows /\ (p = None \/ p \in DOMAIN cache') /\ None \notin Known'
         /\ Exists(p) <=> p \in Known'
         /\ UNCHANGED <<tree, checkouts, pc, exit, walk, specs, product, tsc, imports, left,
                        graphFindings>>
<1>1. /\ cache' = IF p = None THEN cache
                  ELSE [q \in DOMAIN cache \union {p} |-> IF q = p THEN Exists(p) ELSE cache[q]]
      /\ UNCHANGED <<tree, checkouts, pc, exit, walk, specs, product, tsc, imports, left,
                     graphFindings>>
  BY DEF Try
<1>2. Grows /\ (p = None \/ p \in DOMAIN cache')
  BY <1>1 DEF VInv, GraphTyped, Grows, Exists, tsc
<1>3. Exists(p) <=> p \in Known'
  BY <1>1 DEF VInv, GraphTyped, Exists, Known
<1> QED BY <1>1, <1>2, <1>3 DEF Grows, Known

\* One more hit changes the first of them only if there was none.
LEMMA IsFirstGrows ==
  ASSUME NEW path, NEW cs, NEW n \in Nat, NEW hits \in SUBSET (1..n),
         IsFirst(path, cs, hits), \A k \in hits : cs[k].path # None
  PROVE  IsFirst(IF path = None THEN cs[n + 1].path ELSE path, cs, hits \union {n + 1})
<1>1. CASE hits = {}
  BY <1>1 DEF IsFirst
<1>2. ASSUME NEW m \in hits, \A k \in hits : m <= k, path = cs[m].path
      PROVE  IsFirst(path, cs, hits \union {n + 1}) /\ path # None
  <2>1. m <= n + 1
    OBVIOUS
  <2> QED BY <1>2, <2>1 DEF IsFirst
<1> QED BY <1>1, <1>2 DEF IsFirst

\* A supported target: the import is resolved.
LEMMA TargetView ==
  ASSUME VInv, TypeOK, Try, ~Fail("unsupported"), NEW p, p = Candidate.path,
         Exists(p), IsTarget(Candidate), NEW x, x = resolving
  PROVE  VInv'
<1> DEFINE i == x[2]
<1>0. /\ pc = "resolve" /\ x # None /\ tried < Len(Cs(i)) /\ resolving' = None
      /\ edges' = [edges EXCEPT ![x[1]] = @ \union {p}]
      /\ Candidate = Cs(i)[tried + 1]
  <2>1. p # None
    BY TryGrows DEF Known, Grows
  <2> QED BY <2>1 DEF Try, IsTarget, Current, Candidate, Cs
<1>1. /\ Grows /\ None \notin Known' /\ p \in Known'
      /\ UNCHANGED <<pc, exit, walk, product, tsc, imports, left, graphFindings>>
  BY TryGrows
<1> USE DEF walk, tsc
<1>2. FilesRight' /\ GraphTyped' /\ ReadRight' /\ LoopRight'
  BY <1>0, <1>1 DEF VInv, FilesRight, GraphTyped, ReadRight, LoopRight, BeforeGraph, Early,
                    Grows
<1>3. StaticImports' = StaticImports /\ CallFindings' = CallFindings /\ Known \subseteq Known'
  BY <1>1 DEF StaticImports, CallFindings, Known, Grows
<1>4. x \in StaticImports \ left /\ None \notin StaticImports /\ i \in Import /\ x[1] \in product
  BY <1>0, ImportPairs DEF VInv, ResolveRight
<1>5. Resolved' = Resolved \union {x}
  BY <1>0, <1>1, <1>3, <1>4 DEF Resolved
<1>6. \A y \in Resolved : Settled(y[2])' /\ Result(y[2])' = Result(y[2])
  <2> TAKE y \in Resolved
  <2>1. y[2] \in Import /\ Settled(y[2])
    BY <1>0, ImportPairs DEF VInv, ResolveRight, Resolved
  <2> QED BY <1>1, <2>1, Stable DEF VInv, GraphTyped
<1>7. Settled(i)' /\ Result(i)' = <<"target", p>>
  <2>1. Cs(i)' = Cs(i)
    BY <1>1 DEF Cs
  <2>2. tried + 1 \in DOMAIN Cs(i) /\ tried + 1 \in Nat /\ tried \in Nat
    BY <1>0, <1>4, CandidatesDomain DEF VInv, LoopRight, Cs
  <2>3. ASSUME NEW k \in DOMAIN Cs(i), k < tried + 1
        PROVE  Asked(Cs(i)[k])' /\ NoTarget(i, k)'
    <3>1. k \in 1..tried
      BY <1>4, <2>2, <2>3, CandidatesDomain DEF Cs
    <3>2. Asked(Cs(i)[k]) /\ NoTarget(i, k)
      BY <1>0, <3>1 DEF VInv, LoopRight
    <3> QED BY <1>1, <2>1, <3>2 DEF Asked, NoTarget, Known, Grows, VInv, GraphTyped
  <2>4. \A n \in Nat : n = tried + 1 => TargetAt(i, n)'
    BY <1>0, <1>1, <2>1, <2>2, <2>3 DEF TargetAt
  <2>5. Settled(i)'
    BY <2>2, <2>4 DEF Settled
  <2>6. Result(i)' = <<"target", Cs(i)[tried + 1].path>>
    BY <1>0, <1>1, <1>4, <2>1, <2>2, <2>3, FirstTarget DEF Result, NoTarget, Cs
  <2> QED BY <1>0, <2>5, <2>6
<1>8. FindingsFrom' = FindingsFrom
  BY <1>5, <1>6, <1>7 DEF FindingsFrom
<1>9. \A f : EdgesFrom(f)' = EdgesFrom(f) \union (IF f = x[1] THEN {p} ELSE {})
  BY <1>5, <1>6, <1>7 DEF EdgesFrom
<1>10. \A f \in product : edges'[f] = EdgesFrom(f)'
  BY <1>0, <1>4, <1>9 DEF VInv, ResolveRight, TypeOK
<1>11. ResolveRight'
  <2>1. \A y \in Resolved' : Settled(y[2])'
    BY <1>5, <1>6, <1>7
  <2>2. exit' # "ok"
    BY <1>0, <1>1 DEF TypeOK
  <2> QED BY <1>0, <1>1, <1>3, <1>8, <1>10, <2>1, <2>2 DEF VInv, ResolveRight
<1> QED BY <1>2, <1>11 DEF VInv

\* No target yet: the loop goes on.
LEMMA LoopView ==
  ASSUME VInv, TypeOK, Try, ~Fail("unsupported"), NEW p, p = Candidate.path,
         ~(Exists(p) /\ IsTarget(Candidate)), NEW x, x = resolving
  PROVE  VInv'
<1> DEFINE i == x[2]
           c == Cs(i)[tried + 1]
           out == p \in Known' /\ IsOutOfScope(c)
           other == p \in Known' /\ IsUnsupported(c)
<1>0. /\ pc = "resolve" /\ x # None /\ tried < Len(Cs(i)) /\ Candidate = c /\ p = c.path
  BY DEF Try, Current, Candidate, Cs
<1>1. /\ Grows /\ (p = None \/ p \in DOMAIN cache') /\ None \notin Known'
      /\ Exists(p) <=> p \in Known'
      /\ UNCHANGED <<pc, exit, walk, product, tsc, imports, left, graphFindings>>
  BY TryGrows
<1> USE DEF walk, tsc
<1>2. /\ tried' = tried + 1 /\ UNCHANGED <<edges, resolving>>
      /\ firstOut' = IF out /\ firstOut = None THEN p ELSE firstOut
      /\ firstUnsupported' = IF other /\ firstUnsupported = None THEN p ELSE firstUnsupported
  BY <1>0, <1>1 DEF Try, IsTarget, IsOutOfScope, IsUnsupported
<1>3. FilesRight' /\ GraphTyped' /\ ReadRight'
  BY <1>0, <1>1 DEF VInv, FilesRight, GraphTyped, ReadRight, BeforeGraph, Early, Grows
<1>4. ResolveRight'
  BY <1>0, <1>1, <1>2, KeepsResolved
<1>5. i \in Import /\ tried \in Nat /\ tried + 1 \in 0..Len(Cs(i))
  <2>1. i \in Import
    BY <1>0, ImportPairs DEF VInv, ResolveRight
  <2> QED BY <1>0, <2>1, CandidatesDomain DEF VInv, LoopRight, Cs
<1>6. Cs(i)' = Cs(i)
  BY <1>1 DEF Cs
<1>7. /\ \A k \in 1..tried : Asked(Cs(i)[k]) /\ NoTarget(i, k)
      /\ IsFirst(firstOut, Cs(i), OutHits(i, tried))
      /\ IsFirst(firstUnsupported, Cs(i), OtherHits(i, tried))
  BY <1>0 DEF VInv, LoopRight
<1>8. \A k \in 1..tried : Asked(Cs(i)[k])' /\ (Cs(i)[k].path \in Known' <=> Cs(i)[k].path \in Known)
  BY <1>1, <1>6, <1>7 DEF Asked, Known, Grows, VInv, GraphTyped
<1> HIDE DEF i
<1>9. \A k \in 1..(tried + 1) : Asked(Cs(i)[k])' /\ NoTarget(i, k)'
  <2>1. \A k : k = tried + 1 => Asked(Cs(i)[k])' /\ NoTarget(i, k)'
    BY <1>0, <1>1, <1>6 DEF Asked, NoTarget
  <2>2. \A k \in 1..tried : NoTarget(i, k)'
    BY <1>6, <1>7, <1>8 DEF NoTarget
  <2>3. \A k \in 1..(tried + 1) : k \in 1..tried \/ k = tried + 1
    BY <1>5
  <2> QED BY <1>8, <2>1, <2>2, <2>3
<1>10. \A n : n = tried + 1 =>
         /\ OutHits(i, n)' = OutHits(i, tried) \union (IF out THEN {n} ELSE {})
         /\ OtherHits(i, n)' = OtherHits(i, tried) \union (IF other THEN {n} ELSE {})
  BY <1>0, <1>5, <1>6, <1>8 DEF OutHits, OtherHits
<1>11. /\ OutHits(i, tried) \in SUBSET (1..tried) /\ OtherHits(i, tried) \in SUBSET (1..tried)
       /\ \A k \in OutHits(i, tried) \union OtherHits(i, tried) : Cs(i)[k].path # None
  BY DEF OutHits, OtherHits, Known, VInv, GraphTyped
<1>12. out \in BOOLEAN /\ other \in BOOLEAN /\ (out \/ other => p # None)
       /\ p = Cs(i)[tried + 1].path
  BY <1>0, <1>1
<1> HIDE DEF c, out, other
<1>13. IsFirst(firstOut', Cs(i), OutHits(i, tried) \union (IF out THEN {tried + 1} ELSE {}))
  <2>1. CASE out
    <3>1. firstOut' = IF firstOut = None THEN Cs(i)[tried + 1].path ELSE firstOut
      BY <1>2, <1>12, <2>1
    <3>2. IsFirst(firstOut', Cs(i), OutHits(i, tried) \union {tried + 1})
      BY <1>5, <1>7, <1>11, <3>1, IsFirstGrows
    <3> QED BY <2>1, <3>2
  <2>2. CASE ~out
    BY <1>2, <1>7, <2>2
  <2> QED BY <2>1, <2>2
<1>14. IsFirst(firstUnsupported', Cs(i),
               OtherHits(i, tried) \union (IF other THEN {tried + 1} ELSE {}))
  <2>1. CASE other
    <3>1. firstUnsupported' = IF firstUnsupported = None THEN Cs(i)[tried + 1].path
                              ELSE firstUnsupported
      BY <1>2, <1>12, <2>1
    <3>2. IsFirst(firstUnsupported', Cs(i), OtherHits(i, tried) \union {tried + 1})
      BY <1>5, <1>7, <1>11, <3>1, IsFirstGrows
    <3> QED BY <2>1, <3>2
  <2>2. CASE ~other
    BY <1>2, <1>7, <2>2
  <2> QED BY <2>1, <2>2
<1>15. LoopRight'
  BY <1>2, <1>5, <1>6, <1>9, <1>10, <1>13, <1>14 DEF LoopRight, IsFirst, i
<1> QED BY <1>3, <1>4, <1>15 DEF VInv

\* One turn of the loop.
LEMMA TryView ==
  ASSUME VInv, TypeOK, Try
  PROVE  VInv'
<1>1. CASE Fail("unsupported")
  BY <1>1, FailView
<1>2. PICK p, x : p = Candidate.path /\ x = resolving
  OBVIOUS
<1> QED BY <1>1, <1>2, TargetView, LoopView

\* What the graph should hold depends on these variables only.
LEMMA Unmoved ==
  ASSUME UNCHANGED <<product, imports, aliases, left, resolving, cache>>
  PROVE  /\ UNCHANGED <<StaticImports, CallFindings, Resolved, Known, FindingsFrom>>
         /\ \A f : EdgesFrom(f)' = EdgesFrom(f)
         /\ \A i : Settled(i)' <=> Settled(i)
<1>1. UNCHANGED <<StaticImports, CallFindings, Resolved, Known>>
  BY DEF StaticImports, CallFindings, Resolved, Known
<1>2. \A i : Result(i)' = Result(i) /\ (Settled(i)' <=> Settled(i))
  BY <1>1 DEF Result, Settled, Exhausted, TargetAt, NoTarget, Asked, Cs
<1>3. FindingsFrom' = FindingsFrom /\ \A f : EdgesFrom(f)' = EdgesFrom(f)
  BY <1>1, <1>2 DEF FindingsFrom, EdgesFrom
<1> QED BY <1>1, <1>2, <1>3

\* When the scan is over nothing is left.
LEMMA FinishView ==
  ASSUME VInv, TypeOK, Finish
  PROVE  VInv'
<1> USE DEF Finish, walk, specs, tsc, graph, resolve
<1>1. FilesRight' /\ GraphTyped' /\ ReadRight' /\ LoopRight'
  BY DEF VInv, FilesRight, GraphTyped, ReadRight, LoopRight, Discovered, BeforeGraph, Early
<1>2. ResolveRight'
  BY Unmoved DEF VInv, ResolveRight
<1> QED BY <1>1, <1>2 DEF VInv

\* The walks find files with the extension of a product file only.
LEMMA FilesView ==
  ASSUME VInv, TypeOK, TypeOK', Step, pc \in BeforeGraph, pc' # "done"
  PROVE  FilesRight' /\ UNCHANGED <<exit, graph>> /\ pc' \in BeforeGraph \union {"product_read"}
<1> USE DEF VInv, FilesRight, BeforeGraph, Early, Discovered, walk, specs, tsc, Fail, Walked,
            Walking
<1>1. CASE LoadConfig
  BY <1>1 DEF LoadConfig
<1>2. ASSUME NEW root \in SpecRoots, StartSpecRoot(root)
      PROVE  FilesRight' /\ UNCHANGED <<exit, graph>> /\ pc' \in BeforeGraph
  BY <1>2 DEF StartSpecRoot
<1>3. ASSUME NEW p \in Paths, Refuse(p) \/ Inspect(p) \/ ReadSpec(p)
      PROVE  FilesRight' /\ UNCHANGED <<exit, graph>> /\ pc' \in BeforeGraph
  BY <1>3 DEF Refuse, Inspect, ReadSpec, Wanted
<1>4. CASE Enumerate
  BY <1>4 DEF Enumerate
<1>5. CASE ReadSpecs \/ IndexSpecs
  BY <1>5 DEF ReadSpecs, IndexSpecs
<1>6. CASE EndDiscovery
  BY <1>6 DEF EndDiscovery
<1>7. CASE LookForTsconfig \/ ReadTsconfig \/ NormalizeAliases
  BY <1>7 DEF LookForTsconfig, ReadTsconfig, NormalizeAliases
<1>8. ~StartResolving /\ ~Try /\ ~GiveUp /\ ~Finish
      /\ (\A x \in left : ~Resolve(x)) /\ \A p \in Paths : ~ReadProduct(p)
  BY DEF StartResolving, Try, GiveUp, Finish, Resolve, ReadProduct
<1> QED BY <1>1, <1>2, <1>3, <1>4, <1>5, <1>6, <1>7, <1>8 DEF Step

\* A scan ends when it finishes or fails.
LEMMA FailEnds == Step /\ pc' = "done" /\ ~Finish => Fail("config") \/ Fail("unsupported")
BY DEF Step, LoadConfig, StartSpecRoot, Refuse, Inspect, ReadSpec, ReadProduct, Enumerate,
       ReadSpecs, IndexSpecs, EndDiscovery, LookForTsconfig, ReadTsconfig, NormalizeAliases,
       StartResolving, Resolve, Try, GiveUp, Walking, Walked

\* Every step of the scan keeps the view.
LEMMA StepView ==
  ASSUME VInv, TypeOK, TypeOK', Step
  PROVE  VInv'
<1>1. CASE pc' = "done"
  BY <1>1, FailEnds, FailView, FinishView
<1>2. CASE pc' # "done" /\ pc \in BeforeGraph
  BY <1>2, FilesView, BeforeView
<1>3. CASE pc \in {"product_read", "resolve"}
  <2>1. \/ \E p \in Paths : ReadProduct(p)
        \/ StartResolving \/ Try \/ GiveUp \/ Finish
        \/ \E x \in left : Resolve(x)
    BY <1>3 DEF Step, LoadConfig, StartSpecRoot, Refuse, Inspect, ReadSpec, Enumerate,
                ReadSpecs, IndexSpecs, EndDiscovery, LookForTsconfig, ReadTsconfig,
                NormalizeAliases, Walking, Walked
  <2> QED BY <2>1, ReadProductView, StartResolvingView, TryView, GiveUpView, FinishView,
             ResolveView
<1>4. ~(pc = "done")
  BY DEF Step, LoadConfig, StartSpecRoot, Refuse, Inspect, ReadSpec, ReadProduct, Enumerate,
         ReadSpecs, IndexSpecs, EndDiscovery, LookForTsconfig, ReadTsconfig,
         NormalizeAliases, StartResolving, Resolve, Try, GiveUp, Finish, Walking, Walked
<1> QED BY <1>1, <1>2, <1>3, <1>4 DEF TypeOK, Parts, BeforeGraph, Early

\* So does a change of the tree.
LEMMA NextView == VInv /\ TypeOK /\ TypeOK' /\ [Next]_vars => VInv'
<1> SUFFICES ASSUME VInv, TypeOK, TypeOK', [Next]_vars PROVE VInv'
  OBVIOUS
<1>1. CASE Step
  BY <1>1, StepView
<1>2. CASE Checkout \/ UNCHANGED vars
  <2>1. UNCHANGED scan
    BY <1>2 DEF Checkout, vars
  <2>2. FilesRight' /\ GraphTyped' /\ ReadRight' /\ LoopRight'
    BY <2>1 DEF scan, walk, specs, tsc, graph, resolve, VInv, FilesRight, GraphTyped,
                ReadRight, LoopRight, Blank, StaticImports, CallFindings, IsFirst, OutHits,
                OtherHits, Known, Asked, NoTarget, Cs
  <2>3. ResolveRight'
    BY <2>1, Unmoved DEF scan, walk, specs, tsc, graph, resolve, VInv, ResolveRight
  <2> QED BY <2>2, <2>3 DEF VInv
<1> QED BY <1>1, <1>2 DEF Next

-----------------------------------------------------------------------------
(* one view of the tree: the theorem *)

\* At the end the resolved imports are all of them.
LEMMA ViewHolds == VInv /\ TypeOK => OneView
<1> SUFFICES ASSUME VInv, TypeOK, exit = "ok" PROVE OneView
  BY DEF OneView
<1> DEFINE Static(f) == {j \in imports[f] : j.syntax = "static"}
           Calls(f)  == {j \in imports[f] : j.syntax = "call"}
           results(f) == {Result(i) : i \in Static(f)}
           calls(f)   == {<<"unsupported_static_edge", i>> : i \in Calls(f)}
           targets(f) == {r[2] : r \in {x \in results(f) : x[1] = "target"}}
<1>1. \A f \in product : imports[f] \subseteq Import
  BY DEF VInv, GraphTyped, TypeOK
<1>2. Resolved = StaticImports
  <2>1. None \notin StaticImports
    BY ImportPairs
  <2> QED BY <2>1 DEF VInv, ResolveRight, Resolved
<1>3. \A f \in product : \A i \in Static(f) : <<f, i>> \in Resolved
  BY <1>1, <1>2 DEF StaticImports
<1>4. \A x \in Resolved : x[1] \in product /\ x[2] \in Static(x[1])
  BY <1>2 DEF StaticImports
<1> HIDE DEF Static
<1>5. ASSUME NEW f \in product PROVE edges[f] = targets(f)
  <2>1. ASSUME NEW i \in Static(f), Result(i)[1] = "target"
        PROVE  Result(i)[2] \in EdgesFrom(f)
    <3>1. \A x : x = <<f, i>> => x \in Resolved /\ x[1] = f /\ x[2] = i
      BY <1>3, <1>5
    <3> QED BY <2>1, <3>1 DEF EdgesFrom
  <2>2. \A r \in EdgesFrom(f) : r \in targets(f)
    BY <1>4, <1>5 DEF EdgesFrom
  <2>3. \A r \in targets(f) : r \in EdgesFrom(f)
    BY <2>1
  <2> HIDE DEF targets
  <2> QED BY <1>5, <2>2, <2>3 DEF VInv, ResolveRight
<1>6. ASSUME NEW f \in product
      PROVE  {x[2] : x \in {y \in graphFindings : y[1] = f}} =
               {r \in results(f) : r[1] # "target"} \union calls(f)
  <2>1. graphFindings = CallFindings \union FindingsFrom
    BY DEF VInv, ResolveRight
  <2>2. ASSUME NEW i \in Static(f), Result(i)[1] # "target"
        PROVE  <<f, Result(i)>> \in FindingsFrom
    <3>1. \A x : x = <<f, i>> => x \in Resolved /\ x[1] = f /\ x[2] = i
      BY <1>3, <1>6
    <3> QED BY <2>2, <3>1 DEF FindingsFrom
  <2>3. \A y \in FindingsFrom : y[1] = f => y[2] \in results(f) /\ y[2][1] # "target"
    BY <1>4 DEF FindingsFrom
  <2>4. ASSUME NEW i \in Calls(f) PROVE <<f, <<"unsupported_static_edge", i>>>> \in CallFindings
    <3>1. \A x : x = <<f, i>> => /\ x \in product \X Import /\ x[2] \in imports[x[1]]
                                 /\ x[2].syntax = "call" /\ x[1] = f /\ x[2] = i
      BY <1>1, <1>6
    <3> QED BY <3>1 DEF CallFindings
  <2>5. \A y \in CallFindings : y[1] = f => y[2] \in calls(f)
    BY DEF CallFindings
  <2>6. \A r \in calls(f) : <<f, r>> \in CallFindings
    BY <2>4
  <2>7. \A r \in results(f) : r[1] # "target" => <<f, r>> \in FindingsFrom
    BY <2>2
  <2> HIDE DEF results, calls
  <2> DEFINE mine == {y \in graphFindings : y[1] = f}
  <2>8. \A x \in mine : x[2] \in {r \in results(f) : r[1] # "target"} \union calls(f)
    BY <2>1, <2>3, <2>5
  <2>9. ASSUME NEW r \in {q \in results(f) : q[1] # "target"} \union calls(f)
        PROVE  \E x \in mine : x[2] = r
    <3>1. <<f, r>> \in mine
      BY <2>1, <2>6, <2>7
    <3> QED BY <3>1
  <2> QED BY <2>8, <2>9
<1>7. product \subseteq Known
  BY DEF VInv, ResolveRight
<1> QED BY <1>5, <1>6, <1>7 DEF OneView, Result, Known, Static

\* For every configuration and every change of the tree while the scan runs, a scan
\* that succeeds has given each local import exactly one result, the one of contract
\* 10.2 for the paths its cache holds as existing.
THEOREM KeepsOneView == Spec => []OneView
<1>1. Init => VInv
  BY InitView
<1> QED BY <1>1, LiveScanTypeCorrect, NextView, ViewHolds, PTL DEF Spec

-----------------------------------------------------------------------------
(* the outcome of a scan: the invariant *)

Inspected(t) == SpecTree(t) \union ProductTree(t)

\* A path is still to be inspected: it or a directory above it is pending, or its
\* directory is the one to enumerate.
ToInspect(p) == (\E q \in {p} \union Above[p] : q \in pending) \/ here \in Above[p]
InRoots(p)   == \E root \in roots : p \in Under(root)

\* What has been inspected is in the walks, is a directory or a file, is spelled in one
\* way only, and has no odd children if it has been enumerated.
SeenRight ==
  /\ seen \subseteq Inspected(tree)
  /\ \A p \in seen : Entry(p) \in {"dir", "file"}
  /\ \A p, q \in seen : LowerCase[p] = LowerCase[q] => p = q
  /\ \A p \in seen : Entry(p) = "dir" /\ p # here =>
       \A q \in OddNames : Parent[q] = p => Entry(q) = "missing"
  /\ pc \notin {"spec_walk", "product_walk"} => here = None

\* Nothing of the walks is left out.
CoverRight ==
  /\ pc \in Early => \A p \in SpecTree(tree) : p \in seen \/ ToInspect(p) \/ InRoots(p)
  /\ pc \in Discovered \union {"product_walk"} \/ exit = "ok" => SpecTree(tree) \subseteq seen
  /\ pc = "product_walk" => \A p \in ProductTree(tree) : p \in seen \/ ToInspect(p)
  /\ pc \in Discovered \/ exit = "ok" => ProductTree(tree) \subseteq seen

\* What has been read could be read.
TextsRight ==
  /\ pc \in Early => \A p \in SpecFilesOf(tree) :
                       OnTheWay(p) \/ InRoots(p) \/ tree.text[p] # Broken
  /\ pc \in Discovered \union {"product_walk"} \/ exit = "ok" =>
       \A p \in SpecFilesOf(tree) : tree.text[p] # Broken
  /\ pc \in {"tsconfig", "chain"} => found = product
  /\ pc = "product_read" => \A p \in product \ found : tree.text[p] # Broken
  /\ pc = "resolve" \/ exit = "ok" => \A p \in product : tree.text[p] # Broken

\* The chain read so far is the beginning of what tsconfig.json extends.
ChainRight ==
  /\ \A k \in DOMAIN chain : /\ chain[k].path \in Tsconfigs /\ Entry(chain[k].path) = "file"
                             /\ chain[k].text = tree.text[chain[k].path]
                             /\ chain[k].text # Broken
  /\ \A j, k \in DOMAIN chain : chain[j].path = chain[k].path => j = k
  /\ chain # <<>> => chain[1].path = RootTsconfig
  /\ \A k \in DOMAIN chain :
       chain[k].text.extends = IF k = Len(chain) THEN next ELSE chain[k + 1].path
  /\ chain = <<>> => next = RootTsconfig

TscRight ==
  /\ pc \in Early \union {"product_walk", "tsconfig"} => chain = <<>> /\ next = None
  /\ pc \in Early \union {"product_walk", "tsconfig", "chain"} => aliases = {}
  /\ pc = "chain" => ChainRight /\ Entry(RootTsconfig) # "missing"
  /\ pc \in {"product_read", "resolve"} \/ exit = "ok" =>
       TsconfigSupported(tree) /\ aliases = AliasesOf(tree)

LocalOf(f) == {i \in tree.text[f] : IsLocal(i, aliases)}

ImportsRight ==
  /\ pc = "product_read" => \A f \in product \ found : imports[f] = LocalOf(f)
  /\ pc = "resolve" \/ exit = "ok" => \A f \in product : imports[f] = LocalOf(f)

Tested == \A p \in DOMAIN cache : Entry(p) # "denied"

ExitRight ==
  /\ pc # "config" /\ exit # "config" => ConfigSupported(tree)
  /\ exit = "config" => ~ConfigSupported(tree)
  /\ exit = "unsupported" => ~Supported(tree)

Alright == SeenRight /\ CoverRight /\ TextsRight /\ TscRight /\ ImportsRight /\ Tested
OutcomeRight == ExitRight /\ (exit \in {"running", "ok"} => Alright)

ChainTyped ==
  chain \in Seq([path : Tsconfigs, text : {t.text[p] : t \in Checkouts, p \in Tsconfigs}])
OInv == LInv /\ VInv /\ ChainTyped /\ (Undisturbed => OutcomeRight)

-----------------------------------------------------------------------------
(* the outcome of a scan: the walks *)

\* In a supported configuration a path of the walks is not missing, and there is a child
\* of every directory above it on the way to it.
LEMMA SpecPresent ==
  ASSUME NEW t \in Checkouts, ConfigSupported(t), NEW p \in SpecTree(t)
  PROVE  p \in Paths /\ t.entry[p] # "missing"
BY DEF ConfigSupported, SpecTree, WalkOf, Under

LEMMA ProductPresent ==
  ASSUME NEW t \in Checkouts, ConfigSupported(t), NEW p \in ProductTree(t)
  PROVE  p \in Paths \ Ignored /\ t.entry[p] # "missing"
BY DEF ConfigSupported, ProductTree, WalkOf, Under

\* Above what is not missing there is such a child of every directory on the way to it.
LEMMA PresentWayDown ==
  ASSUME NEW t \in Checkouts, NEW p \in Paths, t.entry[p] # "missing", NEW d \in Above[p]
  PROVE  \E c \in {p} \union Above[p] :
           /\ c \in Paths /\ Parent[c] = d /\ t.entry[c] # "missing"
           /\ p \notin Ignored => c \notin Ignored
<1>1. PICK c \in {p} \union Above[p] : Parent[c] = d
  BY PathsAssumption
<1>2. c \in Paths /\ (p \notin Ignored => c \notin Ignored)
  BY PathsAssumption
<1>3. t.entry[c] # "missing"
  BY EntriesAssumption
<1> QED BY <1>1, <1>2, <1>3

\* Nothing lies below a file.
LEMMA AboveIsDir ==
  ASSUME NEW t \in Checkouts, NEW p \in Paths, t.entry[p] # "missing", NEW q \in Above[p]
  PROVE  t.entry[q] # "file"
BY EntriesAssumption

\* The walks do not change once they are over, and a step of another part leaves them.
LEMMA WalksOver ==
  ASSUME SeenRight, CoverRight, pc \in Discovered,
         pc' \in Discovered \/ (pc' = "done" /\ exit' = "ok"),
         UNCHANGED <<tree, seen, here>>
  PROVE  SeenRight' /\ CoverRight'
BY DEF SeenRight, CoverRight, Discovered, Early, Entry

\* The control moves on before a walk, which waits.
LEMMA WalksWait ==
  ASSUME TypeOK, SeenRight, CoverRight, TextsRight, pc \in Early, pc' \in Early,
         pc' = "spec_walk" \/ here = None,
         exit' = exit, UNCHANGED <<tree, roots, pending, here, seen, found>>
  PROVE  SeenRight' /\ CoverRight' /\ TextsRight'
BY DEF SeenRight, CoverRight, TextsRight, ToInspect, InRoots, OnTheWay, Discovered, Early,
       Entry, TypeOK

\* The paths under the root are still to be inspected when its walk starts.
LEMMA StartSpecRootWalks ==
  ASSUME TypeOK, SeenRight, CoverRight, TextsRight, NEW root \in SpecRoots, StartSpecRoot(root)
  PROVE  SeenRight' /\ CoverRight' /\ TextsRight'
<1> USE DEF StartSpecRoot
<1>1. SeenRight'
  BY DEF SeenRight, Entry
<1>2. \A p \in Paths : ~ToInspect(p) /\ ~OnTheWay(p)
  BY PathsAssumption DEF ToInspect, OnTheWay
<1>3. \A p \in Paths : InRoots(p) => InRoots(p)' \/ (ToInspect(p)' /\ OnTheWay(p)')
  BY DEF InRoots, ToInspect, OnTheWay, Under
<1>4. SpecTree(tree) \subseteq Paths /\ SpecFilesOf(tree) \subseteq Paths
  BY DEF SpecTree, SpecFilesOf, WalkOf, Under
<1>5. /\ pc \in Early /\ pc' \in Early /\ exit = "running"
      /\ pc' # "product_walk" /\ pc' \notin Discovered
      /\ pc' \notin {"tsconfig", "chain", "product_read", "resolve"}
  BY DEF Early, Discovered, TypeOK
<1>6. CoverRight'
  BY <1>2, <1>3, <1>4, <1>5 DEF CoverRight
<1>7. TextsRight'
  BY <1>2, <1>3, <1>4, <1>5 DEF TextsRight
<1> QED BY <1>1, <1>6, <1>7

\* What lay below a pending directory lies below the one to enumerate.
LEMMA InspectWalks ==
  ASSUME LInv, Right, ConfigSupported(tree), SeenRight, CoverRight, TextsRight,
         NEW p \in Paths, Inspect(p)
  PROVE  SeenRight' /\ CoverRight' /\ TextsRight'
<1> USE DEF LInv, Inspect, Walking
<1>1. p \in Inspected(tree)
  BY DEF Right, WalkRight, SpecsRight, Early, Inspected
<1>2. SeenRight'
  <2>1. /\ here = None /\ seen' = seen \union {p} /\ Entry(p) \in {"dir", "file"}
        /\ here' = IF Entry(p) = "dir" THEN p ELSE None
        /\ pc' = pc /\ tree' = tree /\ \A f \in seen : f # None /\ f \in Paths
    BY PathsAssumption DEF TypeOK
  <2>2. \A f : Entry(f)' = Entry(f)
    BY <2>1 DEF Entry
  <2>3. \A f, g \in seen' : LowerCase[f] = LowerCase[g] => f = g
    BY <2>1 DEF SeenRight, Collides
  <2>4. ASSUME NEW f \in seen', Entry(f)' = "dir", f # here', NEW q \in OddNames, Parent[q] = f
        PROVE  Entry(q) = "missing"
    BY <2>1, <2>2, <2>4 DEF SeenRight
  <2> QED BY <1>1, <2>1, <2>2, <2>3, <2>4 DEF SeenRight, Inspected
<1>3. ASSUME NEW f \in Paths, tree.entry[f] # "missing", f \in seen \/ ToInspect(f)
      PROVE  f \in seen' \/ ToInspect(f)'
  <2>1. CASE f = p \/ f \in seen
    BY <2>1
  <2>2. CASE p \in Above[f]
    BY <1>3, <2>2, AboveIsDir DEF ToInspect, Entry, TypeOK
  <2>3. CASE f # p /\ f \notin seen /\ p \notin Above[f]
    <3>1. here \notin Above[f]
      BY PathsAssumption
    <3> QED BY <1>3, <2>3, <3>1 DEF ToInspect
  <2> QED BY <2>1, <2>2, <2>3
<1>4. exit = "running" /\ pc' = pc /\ UNCHANGED <<tree, roots, exit, product>>
  BY DEF TypeOK
<1>5. CoverRight'
  <2>1. CASE pc = "spec_walk"
    BY <1>3, <1>4, <2>1, SpecPresent DEF CoverRight, Early, Discovered, InRoots, TypeOK
  <2>2. CASE pc = "product_walk"
    BY <1>3, <1>4, <2>2, ProductPresent DEF CoverRight, Early, Discovered, TypeOK
  <2> QED BY <2>1, <2>2
<1>6. TextsRight'
  <2>1. ASSUME pc = "spec_walk", NEW f \in SpecFilesOf(tree), OnTheWay(f) PROVE OnTheWay(f)'
    <3>1. f \in Paths /\ f \in SpecNames /\ tree.entry[f] = "file"
      BY DEF SpecFilesOf, SpecTree, WalkOf, Under
    <3>2. CASE p \in Above[f]
      BY <3>1, <3>2, AboveFile DEF OnTheWay, TypeOK, Entry
    <3>3. CASE p = f
      BY <2>1, <3>1, <3>3 DEF OnTheWay, Wanted, Entry
    <3>4. CASE p # f /\ p \notin Above[f]
      <4>1. here \notin Above[f]
        BY <3>1, PathsAssumption
      <4> QED BY <2>1, <3>4, <4>1 DEF OnTheWay
    <3> QED BY <3>2, <3>3, <3>4
  <2>2. CASE pc = "spec_walk"
    BY <1>4, <2>1, <2>2 DEF TextsRight, Early, Discovered, InRoots
  <2>3. CASE pc = "product_walk"
    BY <1>4, <2>3 DEF TextsRight, Early, Discovered
  <2> QED BY <2>2, <2>3
<1> QED BY <1>2, <1>5, <1>6

\* What lay below the directory to enumerate lies below a pending child, or is one; none is odd.
LEMMA EnumerateWalks ==
  ASSUME LInv, Right, ConfigSupported(tree), SeenRight, CoverRight, TextsRight,
         Enumerate, exit' = "running"
  PROVE  SeenRight' /\ CoverRight' /\ TextsRight'
<1> USE DEF LInv
<1>1. /\ pc \in {"spec_walk", "product_walk"} /\ here # None /\ Children \intersect OddNames = {}
      /\ pending' = pending \union (Children \ Skipped) /\ here' = None
      /\ UNCHANGED <<tree, pc, exit, roots, seen, found, product>>
  BY DEF Enumerate, Fail
<1>2. SeenRight'
  <2>1. \A q \in OddNames : Parent[q] = here => Entry(q) = "missing"
    BY <1>1, PathsAssumption DEF Children, ChildPaths
  <2> QED BY <1>1, <2>1 DEF SeenRight, Entry
<1>3. ASSUME NEW f \in Paths, tree.entry[f] # "missing", pc = "product_walk" => f \notin Ignored,
             f \in seen \/ ToInspect(f)
      PROVE  f \in seen' \/ ToInspect(f)'
  <2>1. CASE here \in Above[f]
    <3>1. PICK c \in {f} \union Above[f] :
            /\ c \in Paths /\ Parent[c] = here /\ tree.entry[c] # "missing"
            /\ f \notin Ignored => c \notin Ignored
      BY <1>3, <2>1, PresentWayDown DEF TypeOK
    <3>2. c \in pending'
      BY <1>1, <1>3, <3>1 DEF Children, ChildPaths, Skipped, Entry
    <3> QED BY <3>1, <3>2 DEF ToInspect
  <2>2. CASE here \notin Above[f]
    BY <1>1, <1>3, <2>2 DEF ToInspect
  <2> QED BY <2>1, <2>2
<1>4. CoverRight'
  <2>1. CASE pc = "spec_walk"
    BY <1>1, <1>3, <2>1, SpecPresent DEF CoverRight, Early, Discovered, InRoots, TypeOK
  <2>2. CASE pc = "product_walk"
    BY <1>1, <1>3, <2>2, ProductPresent DEF CoverRight, Early, Discovered, TypeOK
  <2> QED BY <1>1, <2>1, <2>2
<1>5. TextsRight'
  <2>1. ASSUME pc = "spec_walk", NEW f \in SpecFilesOf(tree), OnTheWay(f) PROVE OnTheWay(f)'
    <3>1. f \in Paths /\ tree.entry[f] = "file"
      BY DEF SpecFilesOf, SpecTree, WalkOf, Under
    <3>2. CASE here \in Above[f]
      <4>1. PICK c \in {f} \union Above[f] :
              c \in Paths /\ Parent[c] = here /\ tree.entry[c] # "missing"
        BY <3>1, <3>2, PresentWayDown DEF TypeOK
      <4>2. c \in pending'
        BY <1>1, <2>1, <4>1 DEF Children, ChildPaths, Skipped, Entry
      <4> QED BY <4>1, <4>2 DEF OnTheWay
    <3>3. CASE here \notin Above[f]
      BY <1>1, <2>1, <3>3 DEF OnTheWay
    <3> QED BY <3>2, <3>3
  <2>2. CASE pc = "spec_walk"
    BY <1>1, <2>1, <2>2 DEF TextsRight, Early, Discovered, InRoots, TypeOK
  <2>3. CASE pc = "product_walk"
    BY <1>1, <2>3 DEF TextsRight, Early, Discovered, TypeOK
  <2> QED BY <1>1, <2>2, <2>3
<1> QED BY <1>2, <1>4, <1>5

\* A spec file that has been read could be read.
LEMMA ReadSpecWalks ==
  ASSUME TypeOK, SeenRight, CoverRight, TextsRight, NEW p \in Paths, ReadSpec(p), exit' = "running"
  PROVE  SeenRight' /\ CoverRight' /\ TextsRight'
<1>1. /\ pc = "spec_read" /\ pc' \in {"spec_walk", "spec_read"} /\ tree.text[p] # Broken
      /\ found' = found \ {p} /\ UNCHANGED <<tree, exit, roots, pending, here, seen, product>>
  BY DEF ReadSpec, Readable, Fail
<1>2. SeenRight' /\ CoverRight'
  BY <1>1 DEF SeenRight, CoverRight, ToInspect, InRoots, Early, Discovered, Entry, TypeOK
<1>3. ASSUME NEW f \in SpecFilesOf(tree), f # p, OnTheWay(f) PROVE OnTheWay(f)'
  BY <1>1, <1>3 DEF OnTheWay
<1>4. TextsRight'
  BY <1>1, <1>3 DEF TextsRight, InRoots, Early, Discovered, TypeOK
<1> QED BY <1>2, <1>4

\* When the product walk starts the spec walks have left nothing out.
LEMMA IndexSpecsWalks ==
  ASSUME TypeOK, SeenRight, CoverRight, TextsRight, IndexSpecs, exit' = "running"
  PROVE  SeenRight' /\ CoverRight' /\ TextsRight'
<1>1. /\ pc = "spec_walk" /\ pc' = "product_walk"
      /\ here = None /\ pending = {} /\ roots = {} /\ found = {}
      /\ pending' = {ProductRoot} /\ UNCHANGED <<tree, exit, roots, here, seen, found, product>>
  BY DEF IndexSpecs, Fail, Walked, Walking
<1>2. SeenRight'
  BY <1>1 DEF SeenRight, Entry
<1>3. \A p \in Paths : ~ToInspect(p) /\ ~OnTheWay(p) /\ ~InRoots(p)
  BY <1>1, PathsAssumption DEF ToInspect, OnTheWay, InRoots
<1>4. SpecTree(tree) \subseteq Paths /\ SpecFilesOf(tree) \subseteq Paths
  BY DEF SpecTree, SpecFilesOf, WalkOf, Under
<1>5. \A p \in ProductTree(tree) : ToInspect(p)'
  BY <1>1 DEF ToInspect, ProductTree, WalkOf, Under
<1>6. CoverRight'
  BY <1>1, <1>3, <1>4, <1>5 DEF CoverRight, Early, Discovered, TypeOK
<1>7. TextsRight'
  BY <1>1, <1>3, <1>4 DEF TextsRight, Early, Discovered, TypeOK
<1> QED BY <1>2, <1>6, <1>7

\* When discovery ends the product walk has left nothing out.
LEMMA EndDiscoveryWalks ==
  ASSUME TypeOK, SeenRight, CoverRight, TextsRight, EndDiscovery
  PROVE  SeenRight' /\ CoverRight' /\ TextsRight'
<1>1. /\ pc = "product_walk" /\ pc' = "tsconfig" /\ here = None /\ pending = {} /\ product' = found
      /\ UNCHANGED <<tree, exit, roots, pending, here, seen, found>>
  BY DEF EndDiscovery, Walked, Walking, walk
<1>2. SeenRight'
  BY <1>1 DEF SeenRight, Entry
<1>3. \A p \in Paths : ~ToInspect(p)
  BY <1>1, PathsAssumption DEF ToInspect
<1>4. ProductTree(tree) \subseteq Paths
  BY DEF ProductTree, WalkOf, Under
<1>5. CoverRight'
  BY <1>1, <1>3, <1>4 DEF CoverRight, Early, Discovered, TypeOK
<1>6. TextsRight'
  BY <1>1 DEF TextsRight, Early, Discovered, TypeOK
<1> QED BY <1>2, <1>5, <1>6

-----------------------------------------------------------------------------
(* the outcome of a scan: why the walks fail *)

\* A path is refused for what it is or for the spelling of another inspected path.
LEMMA RefuseReason ==
  ASSUME LInv, Right, SeenRight, NEW p \in Paths, Refuse(p)
  PROVE  ~Supported(tree)
<1>1. p \in Inspected(tree)
  BY DEF Refuse, Walking, Right, WalkRight, SpecsRight, Early, Inspected
<1>2. ASSUME Supported(tree)
      PROVE  /\ \A f \in Inspected(tree) : tree.entry[f] \in {"dir", "file"}
             /\ \A f, g \in Inspected(tree) : LowerCase[f] = LowerCase[g] => f = g
  BY <1>2 DEF Supported, Inspected
<1> QED BY <1>1, <1>2 DEF Refuse, Collides, SeenRight, Entry

\* A directory that was one just before has a child that is no RepoPath.
LEMMA EnumerateReason ==
  ASSUME LInv, Right, Enumerate, exit' # "running"
  PROVE  ~Supported(tree)
<1>1. here \in Inspected(tree) /\ Entry(here) = "dir"
  BY DEF Enumerate, Right, WalkRight, SpecsRight, Early, Inspected
<1>2. PICK q \in OddNames : Parent[q] = here /\ Entry(q) # "missing"
  <2>1. Children \intersect OddNames # {}
    BY <1>1 DEF Enumerate, LInv, TypeOK
  <2> QED BY <2>1 DEF Children, ChildPaths
<1>3. ASSUME Supported(tree)
      PROVE  \A p \in Inspected(tree) : tree.entry[p] = "dir" =>
               \A r \in OddNames : Parent[r] = p => tree.entry[r] = "missing"
  BY <1>3 DEF Supported, Inspected
<1> QED BY <1>1, <1>2, <1>3 DEF Entry

\* A file that was one when it was found can fail to be read only for its text.
LEMMA ReadReason ==
  ASSUME LInv, Right, VInv, NEW p \in Paths, ReadSpec(p) \/ ReadProduct(p), exit' # "running"
  PROVE  ~Supported(tree)
<1>1. p \in SpecFilesOf(tree) \union ProductFilesOf(tree)
  <2>1. CASE ReadSpec(p)
    BY <2>1 DEF ReadSpec, Right, SpecsRight, Early
  <2>2. CASE ReadProduct(p)
    BY <2>2 DEF ReadProduct, Right, ProductRight, Discovered, VInv, FilesRight
  <2> QED BY <2>1, <2>2
<1>2. ~Readable(p)
  BY DEF ReadSpec, ReadProduct, LInv, TypeOK
<1>3. tree.entry[p] = "file"
  BY <1>1 DEF SpecFilesOf, ProductFilesOf
<1>4. tree.text[p] = Broken
  BY <1>2, <1>3 DEF Readable, Entry
<1> QED BY <1>1, <1>4 DEF Supported

\* Two active occurrences of an anchor are in the specs of the tree.
LEMMA IndexSpecsReason ==
  ASSUME LInv, Right, IndexSpecs, exit' # "running"
  PROVE  ~Supported(tree)
<1>1. occurrences \subseteq OccurrencesOf(tree)
  BY DEF IndexSpecs, Right, SpecsRight, Early
<1>2. PICK x \in occurrences, y \in occurrences :
        x[2] = "active" /\ y[2] = "active" /\ x # y /\ x[1] = y[1]
  BY DEF IndexSpecs, LInv, TypeOK
<1>3. ~OneActive(OccurrencesOf(tree))
  BY <1>1, <1>2 DEF OneActive
<1> QED BY <1>3 DEF Supported

-----------------------------------------------------------------------------
(* the outcome of a scan: tsconfig.json *)

\* Without tsconfig.json there are no aliases; with one that cannot be read there is no
\* chain.
LEMMA LookForTsconfigRight ==
  ASSUME TypeOK, TscRight, LookForTsconfig, exit' = "running"
  PROVE  TscRight'
<1>1. CASE Entry(RootTsconfig) = "missing"
  <2>1. /\ pc = "tsconfig" /\ pc' = "product_read" /\ UNCHANGED <<tree, exit, chain, next, aliases>>
    BY <1>1 DEF LookForTsconfig, tsc
  <2>2. TsconfigSupported(tree) /\ AliasesOf(tree) = {} /\ aliases = {}
    BY <1>1, <2>1 DEF TsconfigSupported, AliasesOf, Entry, TscRight
  <2> QED BY <2>1, <2>2 DEF TscRight, Early
<1>2. CASE Entry(RootTsconfig) # "missing"
  <2>1. /\ pc = "tsconfig" /\ pc' = "chain" /\ next' = RootTsconfig
        /\ UNCHANGED <<tree, exit, chain, aliases>>
    BY <1>2 DEF LookForTsconfig, Fail
  <2>2. chain = <<>> /\ aliases = {} /\ exit = "running"
    BY <2>1 DEF TscRight, TypeOK
  <2>3. chain' = <<>> /\ next' = RootTsconfig /\ DOMAIN chain' = {}
    BY <2>1, <2>2
  <2>4. ChainRight'
    BY <2>3 DEF ChainRight
  <2> QED BY <1>2, <2>1, <2>2, <2>4 DEF TscRight, Early, Entry
<1> QED BY <1>1, <1>2

\* A tsconfig.json that is no file begins no chain.
LEMMA NoChain ==
  ASSUME NEW t, t.entry[RootTsconfig] \notin {"missing", "file"}
  PROVE  ~TsconfigSupported(t)
<1>1. ASSUME NEW q \in Chains(t) PROVE FALSE
  <2>1. PICK n \in 1..Cardinality(Tsconfigs) : q \in [1..n -> Tsconfigs] /\ IsChain(t, q)
    BY <1>1 DEF Chains
  <2>2. 1 \in DOMAIN q /\ q[1] = RootTsconfig
    BY <2>1 DEF IsChain
  <2> QED BY <2>1, <2>2 DEF IsChain
<1> QED BY <1>1 DEF TsconfigSupported

\* A tsconfig.json that cannot be tested is no file.
LEMMA LookForTsconfigReason ==
  ASSUME TypeOK, LookForTsconfig, exit' # "running"
  PROVE  ~Supported(tree)
<1>1. Entry(RootTsconfig) = "denied"
  BY DEF LookForTsconfig, TypeOK
<1>2. ~TsconfigSupported(tree)
  BY <1>1, NoChain DEF Entry
<1> QED BY <1>2 DEF Supported


\* Induction over the numbers, with the numbers it holds of as a set.
LEMMA InductionOverNat ==
  ASSUME NEW N, 0 \in N, \A n \in Nat : n \in N => n + 1 \in N
  PROVE  Nat \subseteq N
<1> SUFFICES ASSUME Nat \ N # {} PROVE FALSE
  OBVIOUS
<1>1. PICK n \in Nat \ N : \A m \in Nat \ N : <<m, n>> \notin OpToRel(<, Nat)
  BY WFMin, NatLessThanWellFounded, Zenon
<1>2. n - 1 \in Nat /\ n - 1 < n
  <2>1. n \in Nat /\ n # 0
    BY <1>1
  <2> QED BY <2>1
<1>3. n - 1 \in N
  <2> SUFFICES ASSUME n - 1 \notin N PROVE FALSE
    OBVIOUS
  <2>1. <<n - 1, n>> \in Nat \X Nat /\ <<n - 1, n>>[1] < <<n - 1, n>>[2]
    BY <1>2
  <2>2. <<n - 1, n>> \in OpToRel(<, Nat)
    BY <2>1, Zenon DEF OpToRel
  <2> QED BY <1>1, <1>2, <2>2, Zenon
<1>4. (n - 1) + 1 \in N
  BY <1>2, <1>3
<1>5. (n - 1) + 1 = n
  <2>1. n \in Nat
    BY <1>1
  <2> QED BY <2>1
<1> QED BY <1>1, <1>4, <1>5

\* A chain is a sequence that is not empty.
LEMMA ChainIsSeq ==
  ASSUME NEW t, NEW q \in Chains(t)
  PROVE  /\ q \in Seq(Tsconfigs) /\ Len(q) \in Nat \ {0} /\ DOMAIN q = 1..Len(q)
         /\ Len(q) <= Cardinality(Tsconfigs) /\ IsChain(t, q)
<1>1. Cardinality(Tsconfigs) \in Nat
  BY PathsAssumption, FS_Subset, FS_CardinalityType
<1>2. PICK n \in 1..Cardinality(Tsconfigs) : q \in [1..n -> Tsconfigs] /\ IsChain(t, q)
  BY DEF Chains
<1>3. n \in Nat /\ n >= 1 /\ n <= Cardinality(Tsconfigs)
  BY <1>1
<1> QED BY <1>2, <1>3

\* A chain of the tree is what has been read of it so far, and goes on with next.
LEMMA ChainFollowed ==
  ASSUME TypeOK, ChainTyped, ChainRight, NEW q \in Chains(tree)
  PROVE  /\ Len(chain) <= Len(q)
         /\ \A k \in 1..Len(chain) : q[k] = chain[k].path
         /\ next = IF Len(chain) = Len(q) THEN None ELSE q[Len(chain) + 1]
<1>1. /\ Len(q) \in Nat \ {0} /\ DOMAIN q = 1..Len(q) /\ IsChain(tree, q)
      /\ \A k \in DOMAIN q : q[k] \in Tsconfigs
  BY ChainIsSeq
<1>2. Len(chain) \in Nat /\ DOMAIN chain = 1..Len(chain)
  BY DEF ChainTyped
<1>3. None \notin Tsconfigs /\ next \in Tsconfigs \union {None}
  BY PathsAssumption DEF TypeOK
<1> DEFINE N == {n \in Nat : n + 1 \in 1..Len(chain) =>
                               n + 1 \in 1..Len(q) /\ q[n + 1] = chain[n + 1].path}
<1>4. 0 \in N
  BY <1>1, <1>2 DEF ChainRight, IsChain
<1>5. ASSUME NEW n \in Nat, n \in N PROVE n + 1 \in N
  <2> SUFFICES ASSUME (n + 1) + 1 \in 1..Len(chain)
               PROVE  (n + 1) + 1 \in 1..Len(q) /\ q[(n + 1) + 1] = chain[(n + 1) + 1].path
    OBVIOUS
  <2>1. /\ n + 1 \in 1..Len(chain) /\ n + 1 # Len(chain)
        /\ n + 1 \in 1..Len(q) /\ q[n + 1] = chain[n + 1].path
    <3>0. \A m, l \in Nat : (m + 1) + 1 \in 1..l => m + 1 \in 1..l /\ m + 1 # l
      OBVIOUS
    <3>1. n + 1 \in 1..Len(chain) /\ n + 1 # Len(chain)
      BY <1>2, <3>0
    <3> QED BY <1>5, <3>1
  <2>2. /\ chain[n + 1].text = tree.text[q[n + 1]]
        /\ chain[n + 1].text.extends = chain[(n + 1) + 1].path
        /\ chain[(n + 1) + 1].path \in Tsconfigs
    BY <1>2, <2>1 DEF ChainRight
  <2>3. tree.text[q[n + 1]].extends = IF n + 1 = Len(q) THEN None ELSE q[(n + 1) + 1]
    BY <1>1, <2>1 DEF IsChain
  <2>4. n + 1 # Len(q) /\ q[(n + 1) + 1] = chain[(n + 1) + 1].path
    BY <1>3, <2>2, <2>3
  <2> QED BY <1>1, <2>1, <2>4
<1>6. Nat \subseteq N
  <2> HIDE DEF N
  <2> QED BY <1>4, <1>5, InductionOverNat
<1>7. ASSUME NEW k \in 1..Len(chain) PROVE k \in 1..Len(q) /\ q[k] = chain[k].path
  <2>1. k - 1 \in Nat /\ (k - 1) + 1 = k
    BY <1>2
  <2>2. (k - 1) + 1 \in 1..Len(chain) =>
          (k - 1) + 1 \in 1..Len(q) /\ q[(k - 1) + 1] = chain[(k - 1) + 1].path
    BY <1>6, <2>1
  <2> QED BY <2>1, <2>2
<1>8. Len(chain) <= Len(q)
  BY <1>1, <1>2, <1>7
<1>9. next = IF Len(chain) = Len(q) THEN None ELSE q[Len(chain) + 1]
  <2>1. CASE Len(chain) = 0
    BY <1>1, <2>1, <1>2 DEF ChainRight, IsChain
  <2>2. CASE Len(chain) # 0
    <3>1. Len(chain) \in 1..Len(chain)
      BY <1>2, <2>2
    <3>2. q[Len(chain)] = chain[Len(chain)].path /\ Len(chain) \in DOMAIN q
      BY <1>1, <1>7, <3>1
    <3>3. chain[Len(chain)].text.extends = next /\ chain[Len(chain)].text = tree.text[q[Len(chain)]]
      BY <1>2, <3>1, <3>2 DEF ChainRight
    <3> QED BY <1>1, <3>2, <3>3 DEF IsChain
  <2> QED BY <2>1, <2>2
<1> QED BY <1>7, <1>8, <1>9

\* A file of the chain that cannot be read, or that is read for the second time.
LEMMA ReadTsconfigReason ==
  ASSUME TypeOK, ChainTyped, TscRight, ReadTsconfig, exit' # "running"
  PROVE  ~Supported(tree)
<1>1. /\ ChainRight /\ Entry(RootTsconfig) # "missing" /\ next # None
      /\ ~(/\ next \notin ChainPaths /\ Entry(next) = "file" /\ tree.text[next] # Broken
           /\ tree.text[next].extends # Broken)
  BY DEF ReadTsconfig, TscRight, TypeOK
<1>2. ASSUME NEW q \in Chains(tree) PROVE FALSE
  <2>1. /\ Len(q) \in Nat \ {0} /\ DOMAIN q = 1..Len(q) /\ IsChain(tree, q)
        /\ \A k \in DOMAIN q : q[k] \in Tsconfigs
    BY ChainIsSeq
  <2>2. Len(chain) \in Nat /\ DOMAIN chain = 1..Len(chain)
    BY DEF ChainTyped
  <2>3. PICK n \in 1..Len(q) : n = Len(chain) + 1 /\ next = q[n]
    BY <1>1, <2>1, <2>2, ChainFollowed
  <2>4. next \notin ChainPaths
    <3> SUFFICES ASSUME NEW k \in DOMAIN chain, next = chain[k].path PROVE FALSE
      BY DEF ChainPaths
    <3>1. k \in 1..Len(chain) /\ Len(chain) <= Len(q) /\ q[k] = chain[k].path
      BY <1>1, <2>2, ChainFollowed
    <3>2. k \in 1..Len(q) /\ k # n
      BY <2>1, <2>2, <2>3, <3>1
    <3> QED BY <2>1, <2>3, <3>1, <3>2 DEF IsChain
  <2>5. /\ Entry(next) = "file" /\ tree.text[next] # Broken
        /\ tree.text[next].extends \in Tsconfigs \union {None}
    <3>0. \A l \in Nat : n \in 1..l => n = l \/ n + 1 \in 1..l
      BY <2>2, <2>3
    <3>1. n \in DOMAIN q /\ (n # Len(q) => n + 1 \in DOMAIN q)
      BY <2>1, <3>0
    <3>2. tree.text[q[n]].extends = IF n = Len(q) THEN None ELSE q[n + 1]
      BY <2>1, <3>1 DEF IsChain
    <3> QED BY <2>1, <2>3, <3>1, <3>2 DEF IsChain, Entry
  <2> QED BY <1>1, <2>4, <2>5, TextsAssumption
<1>3. ~TsconfigSupported(tree)
  BY <1>1, <1>2 DEF TsconfigSupported, Entry
<1> QED BY <1>3 DEF Supported

\* The chain grows by one file.
LEMMA ReadTsconfigRight ==
  ASSUME TypeOK, ChainTyped, TscRight, ReadTsconfig, exit' = "running"
  PROVE  TscRight'
<1>1. /\ pc = "chain" /\ next # None /\ next \notin ChainPaths
      /\ Entry(next) = "file" /\ tree.text[next] # Broken
      /\ chain' = Append(chain, [path |-> next, text |-> tree.text[next]])
      /\ next' = tree.text[next].extends
      /\ UNCHANGED <<tree, pc, exit, aliases>>
  BY DEF ReadTsconfig, Fail
<1>2. ChainRight /\ Entry(RootTsconfig) # "missing" /\ aliases = {}
  BY <1>1 DEF TscRight
<1>3. Len(chain) \in Nat /\ DOMAIN chain = 1..Len(chain) /\ next \in Tsconfigs
  BY <1>1 DEF ChainTyped, TypeOK
<1> DEFINE n == Len(chain) + 1
<1>4. /\ DOMAIN chain' = 1..n /\ Len(chain') = n /\ chain' # <<>>
      /\ \A k \in 1..Len(chain) : chain'[k] = chain[k]
      /\ chain'[n] = [path |-> next, text |-> tree.text[next]]
  BY <1>1, <1>3 DEF ChainTyped
<1>5. n \in Nat /\ n \notin DOMAIN chain /\ DOMAIN chain' = DOMAIN chain \union {n}
  BY <1>3, <1>4
<1> HIDE DEF n
<1>6. ASSUME NEW k \in DOMAIN chain'
      PROVE  /\ chain'[k].path \in Tsconfigs /\ tree'.entry[chain'[k].path] = "file"
             /\ chain'[k].text = tree'.text[chain'[k].path] /\ chain'[k].text # Broken
  <2>1. CASE k = n
    BY <1>1, <1>3, <1>4, <2>1 DEF Entry
  <2>2. CASE k \in DOMAIN chain
    BY <1>1, <1>2, <1>3, <1>4, <2>2 DEF ChainRight, Entry
  <2> QED BY <1>5, <2>1, <2>2
<1>7. ASSUME NEW j \in DOMAIN chain', NEW k \in DOMAIN chain', chain'[j].path = chain'[k].path
      PROVE  j = k
  BY <1>1, <1>2, <1>3, <1>4, <1>5, <1>7 DEF ChainRight, ChainPaths
<1>8. chain'[1].path = RootTsconfig
  <2>1. CASE Len(chain) = 0
    <3>1. chain = <<>> /\ n = 1
      BY <2>1, <1>3 DEF ChainTyped, n
    <3> QED BY <1>2, <1>4, <3>1 DEF ChainRight
  <2>2. CASE Len(chain) # 0
    BY <1>2, <1>3, <1>4, <2>2 DEF ChainRight
  <2> QED BY <2>1, <2>2
<1>9. ASSUME NEW k \in DOMAIN chain'
      PROVE  chain'[k].text.extends = IF k = Len(chain') THEN next' ELSE chain'[k + 1].path
  <2>1. CASE k = n
    BY <1>1, <1>4, <2>1
  <2>2. CASE k \in DOMAIN chain /\ k = Len(chain)
    <3>1. chain'[k].text.extends = next /\ k # n /\ k + 1 = n
      BY <1>2, <1>3, <1>4, <1>5, <2>2 DEF ChainRight, n
    <3> QED BY <1>4, <3>1
  <2>3. CASE k \in DOMAIN chain /\ k # Len(chain)
    <3>1. k + 1 \in DOMAIN chain /\ k # n
      BY <1>3, <1>5, <2>3
    <3> QED BY <1>2, <1>3, <1>4, <2>3, <3>1 DEF ChainRight
  <2> QED BY <1>5, <2>1, <2>2, <2>3
<1>10. ChainRight'
  BY <1>4, <1>6, <1>7, <1>8, <1>9 DEF ChainRight, Entry
<1> QED BY <1>1, <1>2, <1>10 DEF TscRight, Early, Entry, TypeOK

\* What is read has the type of the file of some tree.
LEMMA ReadTsconfigTyped ==
  ASSUME TypeOK, ChainTyped, ReadTsconfig
  PROVE  ChainTyped'
<1>1. CASE exit' # "running"
  BY <1>1 DEF ReadTsconfig, Fail, tsc, ChainTyped, TypeOK
<1>2. CASE exit' = "running"
  <2>1. chain' = Append(chain, [path |-> next, text |-> tree.text[next]]) /\ next \in Tsconfigs
    BY <1>2 DEF ReadTsconfig, Fail, TypeOK
  <2>2. [path |-> next, text |-> tree.text[next]] \in
          [path : Tsconfigs, text : {t.text[p] : t \in Checkouts, p \in Tsconfigs}]
    BY <2>1 DEF TypeOK
  <2> QED BY <2>1, <2>2 DEF ChainTyped
<1> QED BY <1>1, <1>2

\* What has been read is the chain of the tree when nothing is left to read.
ReadPaths == [k \in 1..Len(chain) |-> chain[k].path]
ReadIsTree ==
  \A k \in 1..Len(chain) : ReadPaths[k] = chain[k].path /\ chain[k].text = tree.text[ReadPaths[k]]

\* Then the tree has this chain and no other.
LEMMA ChainComplete ==
  ASSUME TypeOK, ChainTyped, ChainRight, next = None
  PROVE  /\ Chains(tree) = {ReadPaths}
         /\ Len(chain) \in Nat \ {0} /\ DOMAIN chain = 1..Len(chain)
         /\ Len(ReadPaths) = Len(chain) /\ DOMAIN ReadPaths = 1..Len(chain)
         /\ ReadIsTree
<1> USE DEF ReadIsTree
<1> DEFINE n == Len(chain)
<1>1. n \in Nat /\ DOMAIN chain = 1..n
  BY DEF ChainTyped
<1>2. n # 0
  <2> SUFFICES ASSUME n = 0 PROVE FALSE
    OBVIOUS
  <2>1. chain = <<>>
    BY DEF ChainTyped
  <2> QED BY <2>1, PathsAssumption DEF ChainRight
<1>3. ReadPaths \in [1..n -> Tsconfigs]
  BY <1>1 DEF ReadPaths, ChainRight
<1>4. Len(ReadPaths) = n
  BY <1>1, <1>3
<1>5. \A k \in 1..n : ReadPaths[k] = chain[k].path /\ chain[k].text = tree.text[ReadPaths[k]]
  BY <1>1 DEF ReadPaths, ChainRight
<1> HIDE DEF n
<1>6. n <= Cardinality(Tsconfigs) /\ Cardinality(Tsconfigs) \in Nat
  <2>1. IsFiniteSet(Tsconfigs)
    BY PathsAssumption, FS_Subset
  <2>2. ReadPaths \in Injection(1..n, Tsconfigs)
    BY <1>1, <1>3, <1>5 DEF Injection, IsInjective, ChainRight
  <2>3. Cardinality(1..n) <= Cardinality(Tsconfigs)
    BY <2>1, <2>2, FS_Injection
  <2>4. Cardinality(1..n) = n
    BY <1>1, <1>2, FS_Interval
  <2> QED BY <2>1, <2>3, <2>4, FS_CardinalityType
<1>7. IsChain(tree, ReadPaths)
  <2>1. ReadPaths[1] = RootTsconfig
    <3>1. 1 \in 1..n /\ chain # <<>>
      BY <1>1, <1>2 DEF n
    <3> QED BY <1>5, <3>1 DEF ChainRight
  <2>2. \A j, k \in 1..n : ReadPaths[j] = ReadPaths[k] => j = k
    BY <1>1, <1>5 DEF ChainRight
  <2>3. \A k \in 1..n : tree.entry[ReadPaths[k]] = "file" /\ tree.text[ReadPaths[k]] # Broken
    BY <1>1, <1>5 DEF ChainRight, Entry
  <2>4. ASSUME NEW k \in 1..n
        PROVE  tree.text[ReadPaths[k]].extends = IF k = n THEN None ELSE ReadPaths[k + 1]
    <3>1. chain[k].text.extends = IF k = n THEN None ELSE chain[k + 1].path
      BY <1>1, <2>4 DEF ChainRight, n
    <3>2. k # n => k + 1 \in 1..n
      BY <1>1
    <3> QED BY <1>5, <3>1, <3>2
  <2>5. DOMAIN ReadPaths = 1..n
    BY <1>3
  <2> QED BY <1>4, <2>1, <2>2, <2>3, <2>4, <2>5 DEF IsChain
<1>8. ReadPaths \in Chains(tree)
  <2>1. n \in 1..Cardinality(Tsconfigs)
    BY <1>1, <1>2, <1>6
  <2> QED BY <1>3, <1>7, <2>1 DEF Chains
<1>9. ASSUME NEW q \in Chains(tree) PROVE q = ReadPaths
  <2>1. /\ Len(q) \in Nat /\ DOMAIN q = 1..Len(q)
        /\ q \in Seq(Tsconfigs) /\ q = [k \in DOMAIN q |-> q[k]]
    BY ChainIsSeq
  <2>2. /\ Len(chain) <= Len(q)
        /\ \A k \in 1..n : q[k] = chain[k].path
        /\ next = IF Len(chain) = Len(q) THEN None ELSE q[Len(chain) + 1]
    BY ChainFollowed DEF n
  <2>3. n = Len(q)
    <3> SUFFICES ASSUME n # Len(q) PROVE FALSE
      OBVIOUS
    <3>0. \A m, l \in Nat : m <= l /\ m # l => m + 1 \in 1..l
      OBVIOUS
    <3>1. n + 1 \in 1..Len(q)
      BY <1>1, <2>1, <2>2, <3>0 DEF n
    <3>2. q[n + 1] \in Tsconfigs
      BY <2>1, <3>1
    <3> QED BY <2>2, <3>2, PathsAssumption DEF n
  <2> QED BY <1>3, <1>5, <2>1, <2>2, <2>3
<1> QED BY <1>1, <1>2, <1>3, <1>4, <1>5, <1>8, <1>9 DEF n

-----------------------------------------------------------------------------
(* the outcome of a scan: base directories and aliases *)

\* The files from one of the chain on that declare a base directory, and what they hand
\* on to it.
Declaring(k) == {j \in k..Len(chain) : Declares(j)}
HandedOn(k)  == IF Declaring(k) = {} THEN None ELSE OwnBase(Min(Declaring(k)))

\* A set of numbers that is not empty has a minimum.
LEMMA MinOfNumbers ==
  ASSUME NEW S \in SUBSET Nat, S # {}
  PROVE  Min(S) \in S
<1>1. PICK x \in S : \A y \in S : ~(<<y, x>> \in OpToRel(<, Nat))
  BY WFMin, NatLessThanWellFounded, Zenon
<1>2. ASSUME NEW y \in S PROVE x <= y
  <2> SUFFICES ASSUME y < x PROVE FALSE
    OBVIOUS
  <2>1. <<y, x>> \in Nat \X Nat /\ <<y, x>>[1] < <<y, x>>[2]
    OBVIOUS
  <2> QED BY <1>1, <2>1, Zenon DEF OpToRel
<1> QED BY <1>1, <1>2, MinIs

\* What a file hands on is its own base directory, or else what the next one hands on.
LEMMA HandsOn ==
  ASSUME NEW k \in 1..Len(chain), Len(chain) \in Nat
  PROVE  HandedOn(k) = IF Declares(k) THEN OwnBase(k)
                       ELSE IF k = Len(chain) THEN None ELSE HandedOn(k + 1)
<1>1. CASE Declares(k)
  <2>1. /\ k \in Declaring(k) /\ \A j \in Declaring(k) : k <= j
        /\ Declaring(k) \in SUBSET Nat
    BY <1>1 DEF Declaring
  <2>2. Min(Declaring(k)) = k
    BY <2>1, MinIs
  <2> QED BY <1>1, <2>1, <2>2 DEF HandedOn
<1>2. CASE ~Declares(k)
  <2>1. /\ k..Len(chain) = {k} \union ((k + 1)..Len(chain))
        /\ k = Len(chain) => (k + 1)..Len(chain) = {}
    OBVIOUS
  <2>2. Declaring(k) = Declaring(k + 1) /\ (k = Len(chain) => Declaring(k) = {})
    BY <1>2, <2>1 DEF Declaring
  <2> QED BY <1>2, <2>2 DEF HandedOn
<1> QED BY <1>1, <1>2

\* computeEffectiveBaseUrls hands on the nearest base directory declared.
LEMMA DeclaredIs ==
  ASSUME Len(chain) \in Nat
  PROVE  \A k \in 1..Len(chain) : Declared[k] = HandedOn(k)
<1> DEFINE n == Len(chain)
           Handed(f) == [k \in 1..n |-> IF Declares(k) THEN OwnBase(k)
                                        ELSE IF k = n THEN None ELSE f[k + 1]]
           h == [k \in 1..n |-> HandedOn(k)]
           d == CHOOSE f : f = Handed(f)
<1>1. h = Handed(h)
  <2>1. \A k \in 1..n : k # n => k + 1 \in 1..n
    OBVIOUS
  <2>2. \A k \in 1..n : h[k] = Handed(h)[k]
    BY <2>1, HandsOn
  <2> QED BY <2>2
<1>2. d = Handed(d)
  <2> HIDE DEF Handed, h
  <2> QED BY <1>1, Zenon
<1>3. Declared = d
  BY DEF Declared
<1> HIDE DEF d
<1>4. \A k \in 1..n : d[k] = IF Declares(k) THEN OwnBase(k) ELSE IF k = n THEN None ELSE d[k + 1]
  BY <1>2
<1> DEFINE N == {m \in Nat : n - m \in 1..n => d[n - m] = HandedOn(n - m)}
<1>5. 0 \in N
  <2>1. n \in 1..n => d[n] = HandedOn(n)
    BY <1>4, HandsOn
  <2>2. n - 0 = n
    OBVIOUS
  <2> QED BY <2>1, <2>2
<1>6. ASSUME NEW m \in Nat, m \in N PROVE m + 1 \in N
  <2> DEFINE k == n - (m + 1)
  <2> SUFFICES ASSUME k \in 1..n PROVE d[k] = HandedOn(k)
    OBVIOUS
  <2>1. k + 1 = n - m /\ k # n /\ k + 1 \in 1..n
    OBVIOUS
  <2>2. d[k + 1] = HandedOn(k + 1)
    BY <1>6, <2>1
  <2> HIDE DEF k
  <2> QED BY <1>4, <2>1, <2>2, HandsOn
<1>7. Nat \subseteq N
  <2> HIDE DEF N
  <2> QED BY <1>5, <1>6, InductionOverNat
<1>8. ASSUME NEW k \in 1..n PROVE d[k] = HandedOn(k)
  <2>1. n - k \in Nat /\ n - (n - k) = k
    OBVIOUS
  <2>2. n - (n - k) \in 1..n => d[n - (n - k)] = HandedOn(n - (n - k))
    BY <1>7, <2>1
  <2> QED BY <2>1, <2>2
<1> QED BY <1>3, <1>8

\* The base directory of a file of the chain is what the contract says, when the ones
\* declared are in the repository.
LEMMA EffectiveBaseIs ==
  ASSUME TypeOK, ChainTyped, ChainRight, next = None,
         \A j \in DOMAIN chain : Declares(j) => OwnBase(j) # None,
         NEW k \in 1..Len(chain)
  PROVE  EffectiveBase(k) = BaseOf(tree, ReadPaths, k)
<1> USE DEF ReadIsTree
<1>1. /\ Len(chain) \in Nat /\ DOMAIN chain = 1..Len(chain) /\ Len(ReadPaths) = Len(chain)
      /\ ReadIsTree
  BY ChainComplete
<1>2. \A j \in k..Len(chain) : j \in 1..Len(chain)
  BY <1>1
<1>3. {j \in k..Len(ReadPaths) : tree.text[ReadPaths[j]].baseUrl # None} = Declaring(k)
  BY <1>1, <1>2 DEF Declaring, Declares
<1>4. BaseOf(tree, ReadPaths, k) =
        IF Declaring(k) = {} THEN DirOf[ReadPaths[k]]
        ELSE Below[<<DirOf[ReadPaths[Min(Declaring(k))]],
                      tree.text[ReadPaths[Min(Declaring(k))]].baseUrl>>]
  BY <1>3 DEF BaseOf
<1>5. Declared[k] = HandedOn(k)
  BY <1>1, DeclaredIs
<1>6. CASE Declaring(k) = {}
  BY <1>1, <1>4, <1>5, <1>6 DEF EffectiveBase, HandedOn
<1>7. CASE Declaring(k) # {}
  <2>1. Min(Declaring(k)) \in Declaring(k)
    <3>1. Declaring(k) \in SUBSET Nat
      BY <1>2 DEF Declaring
    <3> QED BY <1>7, <3>1, MinOfNumbers
  <2>2. PICK m : m = Min(Declaring(k))
    OBVIOUS
  <2>3. m \in 1..Len(chain) /\ Declares(m) /\ OwnBase(m) # None
    BY <1>1, <1>2, <2>1, <2>2 DEF Declaring
  <2>4. BaseOf(tree, ReadPaths, k) = OwnBase(m)
    BY <1>1, <1>4, <1>7, <2>2, <2>3 DEF OwnBase
  <2>5. Declared[k] = OwnBase(m)
    BY <1>5, <1>7, <2>2 DEF HandedOn
  <2> QED BY <2>3, <2>4, <2>5 DEF EffectiveBase
<1> QED BY <1>6, <1>7

\* The aliases that the paths of a file give below its base directory.
AliasesBelow(base, paths) ==
  {[prefix |-> x[1], target |-> Below[<<base, x[2]>>],
    public |-> Below[<<base, x[2]>>] \in PublicDirs] : x \in paths}

\* An alias leads where the path it is made from leads.
LEMMA TargetsBelow ==
  ASSUME NEW base, NEW paths, NEW bad
  PROVE  (\E a \in AliasesBelow(base, paths) : a.target \in bad) <=>
            \E x \in paths : Below[<<base, x[2]>>] \in bad
<1> DEFINE alias(x) == [prefix |-> x[1], target |-> Below[<<base, x[2]>>],
                        public |-> Below[<<base, x[2]>>] \in PublicDirs]
<1>1. AliasesBelow(base, paths) = {alias(x) : x \in paths}
  BY DEF AliasesBelow
<1>2. \A x : alias(x).target = Below[<<base, x[2]>>]
  OBVIOUS
<1> HIDE DEF alias
<1> QED BY <1>1, <1>2

\* Files with paths are the same for the code and the contract, and so are the targets.
LEMMA TargetsAre ==
  ASSUME TypeOK, ChainTyped, ChainRight, next = None,
         \A j \in DOMAIN chain : Declares(j) => OwnBase(j) # None
  PROVE  /\ {k \in DOMAIN chain : chain[k].text.paths # None} = WithPaths(tree, ReadPaths)
         /\ \A k \in DOMAIN chain :
              AliasesFrom(k) = AliasesBelow(BaseOf(tree, ReadPaths, k), tree.text[ReadPaths[k]].paths)
<1> USE DEF ReadIsTree
<1>1. /\ DOMAIN chain = 1..Len(chain) /\ DOMAIN ReadPaths = 1..Len(chain)
      /\ ReadIsTree
  BY ChainComplete
<1>2. \A k \in DOMAIN chain : EffectiveBase(k) = BaseOf(tree, ReadPaths, k)
  BY <1>1, EffectiveBaseIs
<1>3. {k \in DOMAIN chain : chain[k].text.paths # None} = WithPaths(tree, ReadPaths)
  BY <1>1 DEF WithPaths
<1>4. ASSUME NEW k \in DOMAIN chain
      PROVE  AliasesFrom(k) = AliasesBelow(BaseOf(tree, ReadPaths, k), tree.text[ReadPaths[k]].paths)
  <2>1. AliasesFrom(k) = AliasesBelow(EffectiveBase(k), chain[k].text.paths)
    BY DEF AliasesFrom, AliasesBelow
  <2> QED BY <1>1, <1>2, <2>1
<1> QED BY <1>3, <1>4

\* A base directory or target outside the repository, or the root, is in the chain of the tree.
LEMMA NormalizeReason ==
  ASSUME TypeOK, ChainTyped, TscRight, NormalizeAliases, exit' # "running"
  PROVE  ~Supported(tree)
<1> USE DEF ReadIsTree
<1> DEFINE providers == {k \in DOMAIN chain : chain[k].text.paths # None}
           bad == \E k \in DOMAIN chain : Declares(k) /\ OwnBase(k) = None
<1>1. /\ ChainRight /\ next = None /\ Entry(RootTsconfig) # "missing"
      /\ bad \/ \E k \in providers : \E a \in AliasesFrom(k) : a.target \in {None, RootDir}
  BY DEF NormalizeAliases, TscRight, TypeOK
<1>2. Chains(tree) = {ReadPaths} /\ DOMAIN chain = 1..Len(chain) /\ DOMAIN ReadPaths = 1..Len(chain)
      /\ ReadIsTree
  BY <1>1, ChainComplete
<1>3. ~ChainSupported(tree, ReadPaths)
  <2>1. CASE bad
    BY <1>2, <2>1 DEF ChainSupported, Declares, OwnBase
  <2>2. CASE ~bad
    <3>1. /\ providers = WithPaths(tree, ReadPaths)
          /\ \A k \in DOMAIN chain :
              AliasesFrom(k) = AliasesBelow(BaseOf(tree, ReadPaths, k), tree.text[ReadPaths[k]].paths)
      BY <1>1, <2>2, TargetsAre
    <3>2. PICK k \in providers : \E a \in AliasesFrom(k) : a.target \in {None, RootDir}
      BY <1>1, <2>2
    <3>3. PICK x \in tree.text[ReadPaths[k]].paths :
            Below[<<BaseOf(tree, ReadPaths, k), x[2]>>] \in {None, RootDir}
      BY <3>1, <3>2, TargetsBelow
    <3> QED BY <3>1, <3>3 DEF ChainSupported
  <2> QED BY <2>1, <2>2
<1>4. ~TsconfigSupported(tree)
  BY <1>1, <1>2, <1>3 DEF TsconfigSupported, Entry
<1> QED BY <1>4 DEF Supported

\* The aliases are those of the contract when every base directory and target is supported.
LEMMA NormalizeRight ==
  ASSUME TypeOK, ChainTyped, TscRight, NormalizeAliases, exit' = "running"
  PROVE  TscRight'
<1> USE DEF ReadIsTree
<1> DEFINE providers == {k \in DOMAIN chain : chain[k].text.paths # None}
<1>1. /\ pc = "chain" /\ next = None /\ pc' = "product_read"
      /\ \A k \in DOMAIN chain : Declares(k) => OwnBase(k) # None
      /\ \A k \in providers : \A a \in AliasesFrom(k) : a.target \notin {None, RootDir}
      /\ aliases' = IF providers = {} THEN {} ELSE AliasesFrom(Min(providers))
      /\ UNCHANGED <<tree, exit>>
  BY DEF NormalizeAliases, Fail
<1>2. ChainRight /\ Entry(RootTsconfig) # "missing"
  BY <1>1 DEF TscRight
<1>3. /\ Chains(tree) = {ReadPaths}
      /\ DOMAIN chain = 1..Len(chain) /\ DOMAIN ReadPaths = 1..Len(chain)
      /\ Len(chain) \in Nat
      /\ ReadIsTree
  BY <1>1, <1>2, ChainComplete
<1>4. /\ providers = WithPaths(tree, ReadPaths)
      /\ \A k \in DOMAIN chain :
           AliasesFrom(k) = AliasesBelow(BaseOf(tree, ReadPaths, k), tree.text[ReadPaths[k]].paths)
  BY <1>1, <1>2, TargetsAre
<1>5. ChainSupported(tree, ReadPaths)
  <2>1. \A k \in DOMAIN ReadPaths : tree.text[ReadPaths[k]].baseUrl # None =>
          Below[<<DirOf[ReadPaths[k]], tree.text[ReadPaths[k]].baseUrl>>] # None
    BY <1>1, <1>3 DEF Declares, OwnBase
  <2>2. ASSUME NEW k \in providers, NEW x \in tree.text[ReadPaths[k]].paths
        PROVE  Below[<<BaseOf(tree, ReadPaths, k), x[2]>>] \notin {None, RootDir}
    <3>1. \A a \in AliasesFrom(k) : a.target \notin {None, RootDir}
      BY <1>1
    <3>2. ~ \E a \in AliasesBelow(BaseOf(tree, ReadPaths, k), tree.text[ReadPaths[k]].paths) :
                 a.target \in {None, RootDir}
      BY <1>4, <3>1
    <3> QED BY <3>2, TargetsBelow
  <2> QED BY <1>4, <2>1, <2>2 DEF ChainSupported
<1>6. TsconfigSupported(tree)
  BY <1>3, <1>5 DEF TsconfigSupported
<1>7. (CHOOSE c \in Chains(tree) : TRUE) = ReadPaths
  BY <1>3
<1>8. providers # {} => Min(providers) \in DOMAIN chain
  <2> SUFFICES ASSUME providers # {} PROVE Min(providers) \in providers
    OBVIOUS
  <2>1. providers \subseteq Nat
    BY <1>3
  <2> HIDE DEF providers
  <2> QED BY <2>1, MinOfNumbers
<1>9. aliases' = AliasesOf(tree)
  <2>1. CASE providers = {}
    BY <1>1, <1>2, <1>4, <1>7, <2>1 DEF AliasesOf, Entry
  <2>2. CASE providers # {}
    <3>1. aliases' = AliasesBelow(BaseOf(tree, ReadPaths, Min(providers)),
                                  tree.text[ReadPaths[Min(providers)]].paths)
      BY <1>1, <1>4, <1>8, <2>2
    <3> HIDE DEF providers
    <3> QED BY <1>2, <1>4, <1>7, <2>2, <3>1 DEF AliasesOf, AliasesBelow, Entry
  <2> QED BY <2>1, <2>2
<1>10. AliasesOf(tree)' = AliasesOf(tree) /\ TsconfigSupported(tree)' = TsconfigSupported(tree)
  BY <1>1
<1> QED BY <1>1, <1>6, <1>9, <1>10 DEF TscRight, Early, TypeOK

-----------------------------------------------------------------------------
(* the outcome of a scan: imports *)

\* A nonempty set has a minimal member, in any well-founded order.
LEMMA MinimalMember ==
  ASSUME NEW all, NEW order, IsWellFoundedOn(order, all), NEW set, set \subseteq all, set # {}
  PROVE  \E x \in set : \A y \in set : ~(<<y, x>> \in order)
  BY WFMin

\* A path of the product that cannot be inspected, or one above it, is met by the walk.
LEMMA DeniedReason ==
  ASSUME NEW t \in Checkouts, NEW p, InProductScope(p), t.entry[p] = "denied"
  PROVE  ~Supported(t)
<1> DEFINE S == {q \in {p} \union Above[p] : q \in Under(ProductRoot) /\ t.entry[q] = "denied"}
           A == {Above[q] : q \in S}
<1>1. p \in Paths /\ p \in S /\ Above[p] \subseteq Paths /\ p \notin Ignored
  BY PathsAssumption DEF InProductScope, Under
<1>2. PICK q \in S : \A r \in S : ~(<<Above[r], Above[q]>> \in StrictSubsetOrdering(Paths))
  <2>1. S \subseteq Paths /\ S # {}
    BY <1>1
  <2>2. A \subseteq FiniteSubsetsOf(Paths) /\ A # {}
    <3>1. \A q \in S : Above[q] \in SUBSET Paths
      BY <2>1, PathsAssumption
    <3> HIDE DEF S
    <3> QED BY <2>1, <3>1, FS_FiniteSubsetsOfFinite, PathsAssumption
  <2>3. IsWellFoundedOn(StrictSubsetOrdering(Paths), FiniteSubsetsOf(Paths))
    BY PathsAssumption, FS_StrictSubsetOrderingWellFounded
  <2> HIDE DEF A
  <2>4. \E x \in A : \A y \in A : ~(<<y, x>> \in StrictSubsetOrdering(Paths))
    BY <2>2, <2>3, MinimalMember
  <2> HIDE DEF S
  <2> QED BY <2>4 DEF A
<1>3. /\ q \in Paths \ Ignored /\ q \in Under(ProductRoot) /\ t.entry[q] = "denied"
      /\ Above[q] \subseteq {p} \union Above[p]
  BY <1>1, PathsAssumption
<1>4. ASSUME NEW r \in Above[q] \intersect Under(ProductRoot) PROVE t.entry[r] = "dir"
  <2>1. r \in Paths /\ t.entry[r] \in {"dir", "denied"}
    BY <1>3, PathsAssumption, EntriesAssumption
  <2>2. t.entry[r] # "denied"
    <3> SUFFICES ASSUME t.entry[r] = "denied" PROVE FALSE
      OBVIOUS
    <3>1. r \in S
      BY <1>3
    <3>2. /\ Above[r] \subseteq Above[q] /\ r \notin Above[r]
          /\ Above[r] \subseteq Paths /\ Above[q] \subseteq Paths
      BY <1>3, <2>1, PathsAssumption
    <3>3. /\ <<Above[r], Above[q]>> \in (SUBSET Paths) \X (SUBSET Paths)
          /\ <<Above[r], Above[q]>>[1] \subseteq <<Above[r], Above[q]>>[2]
          /\ <<Above[r], Above[q]>>[1] # <<Above[r], Above[q]>>[2]
      BY <3>2
    <3> HIDE DEF S
    <3>4. <<Above[r], Above[q]>> \in StrictSubsetOrdering(Paths)
      BY <3>3, Zenon DEF StrictSubsetOrdering
    <3> QED BY <1>2, <3>1, <3>4
  <2> QED BY <2>1, <2>2
<1>5. q \in ProductTree(t)
  BY <1>3, <1>4 DEF ProductTree, WalkOf
<1> QED BY <1>3, <1>5 DEF Supported

\* Once the product files are read, their static imports are those of the tree.
LEMMA ImportsAre ==
  ASSUME TypeOK, Right, TscRight, ImportsRight, pc = "resolve" \/ exit = "ok",
         NEW f, NEW i, i \in Import
  PROVE  <<f, i>> \in StaticImportsOf(tree) <=> <<f, i>> \in StaticImports
<1>1. aliases = AliasesOf(tree) /\ product = ProductFilesOf(tree)
      /\ \A p \in product : imports[p] = LocalOf(p)
  BY DEF TscRight, ImportsRight, Right, ProductRight, Discovered
<1>2. <<f, i>> \in StaticImports <=> f \in product /\ i \in imports[f] /\ i.syntax = "static"
  BY DEF StaticImports
<1>3. \A p, j : <<f, i>> = <<p, j>> <=> f = p /\ i = j
  OBVIOUS
<1>4. \A p : <<f, i>> \in LocalImports(p, tree.text[p], AliasesOf(tree)) <=>
               f = p /\ i \in LocalOf(f)
  BY <1>1, <1>3 DEF LocalImports, LocalOf
<1>5. <<f, i>> \in StaticImportsOf(tree) <=>
        f \in product /\ i \in LocalOf(f) /\ i.syntax = "static"
  BY <1>1, <1>4 DEF StaticImportsOf, LocalImportsOf
<1> QED BY <1>1, <1>2, <1>5

\* A test of a candidate fails only in a tree that is not supported.
LEMMA TryReason ==
  ASSUME LInv, Right, VInv, TscRight, ImportsRight, Try, exit' # "running"
  PROVE  ~Supported(tree)
<1>1. PICK x, i, p, k : x = resolving /\ i = x[2] /\ p = Candidate.path /\ k = tried + 1
  OBVIOUS
<1>2. /\ pc = "resolve" /\ x # None /\ tried < Len(Cs(i)) /\ p = Cs(i)[k].path
      /\ p \notin DOMAIN cache /\ p # None /\ Entry(p) = "denied"
  BY <1>1 DEF Try, Candidate, Current, Cs, LInv, TypeOK
<1>3. x \in StaticImports /\ i \in Import /\ x = <<x[1], i>>
  BY <1>1, <1>2, ImportPairs DEF VInv, ResolveRight, LInv
<1>4. x \in StaticImportsOf(tree) /\ aliases = AliasesOf(tree)
  BY <1>2, <1>3, ImportsAre DEF LInv, TscRight
<1>5. k \in DOMAIN Cs(i) /\ tried \in Nat /\ k \in Nat /\ DOMAIN Cs(i) \subseteq Nat
      /\ (\A j \in Nat : j >= 1 /\ j < k => j \in 1..tried)
      /\ \A j \in DOMAIN Cs(i) : j >= 1
  BY <1>1, <1>2, <1>3, CandidatesDomain DEF VInv, LoopRight, Cs
<1>6. ASSUME NEW j \in DOMAIN Cs(i), Cs(i)[j].path \in Present(tree), IsTarget(Cs(i)[j]), ~(k < j)
      PROVE  ~Supported(tree)
  <2>1. CASE j = k
    BY <1>2, <1>6, <2>1, DeniedReason DEF IsTarget, LInv, TypeOK, Entry
  <2>2. CASE j # k
    <3>1. j \in 1..tried
      BY <1>5, <1>6, <2>2
    <3>2. Asked(Cs(i)[j]) /\ NoTarget(i, j)
      BY <1>1, <1>2, <3>1 DEF VInv, LoopRight
    <3>3. Cs(i)[j].path # None /\ Entry(Cs(i)[j].path) # "missing"
      BY <1>6, PathsAssumption DEF Present, Entry
    <3>4. Cs(i)[j].path \in Known
      BY <3>2, <3>3 DEF Asked, Known, Right, CacheRight
    <3> QED BY <1>6, <3>2, <3>4 DEF NoTarget
  <2> QED BY <2>1, <2>2
<1>7. TestFails(tree, i) \/ ~Supported(tree)
  BY <1>2, <1>4, <1>5, <1>6 DEF TestFails, Cs, Entry
<1>8. Supported(tree) => ~TestFails(tree, x[2])
  BY <1>4 DEF Supported
<1> QED BY <1>1, <1>7, <1>8

\* A settled import has no candidate that cannot be tested before its target.
LEMMA SettledTests ==
  ASSUME Right, Tested, aliases = AliasesOf(tree), NEW i \in Import, Settled(i)
  PROVE  ~TestFails(tree, i)
<1>1. Cs(i) = Candidates(i, AliasesOf(tree)) /\ DOMAIN Cs(i) \subseteq Nat
  BY CandidatesDomain DEF Cs
<1>2. \A k \in DOMAIN Cs(i) :
        Asked(Cs(i)[k]) => ~(Cs(i)[k].path # None /\ tree.entry[Cs(i)[k].path] = "denied")
  BY DEF Asked, Tested, Entry
<1>3. CASE Exhausted(i)
  BY <1>1, <1>2, <1>3 DEF Exhausted, TestFails
<1>4. ASSUME NEW n \in Nat, TargetAt(i, n) PROVE ~TestFails(tree, i)
  <2>1. /\ n \in DOMAIN Cs(i) /\ Cs(i)[n].path \in Known /\ IsTarget(Cs(i)[n])
        /\ \A k \in DOMAIN Cs(i) : k < n => Asked(Cs(i)[k])
    BY <1>4 DEF TargetAt
  <2>2. Cs(i)[n].path \in Present(tree) /\ Asked(Cs(i)[n])
    BY <2>1 DEF Known, Asked, Right, CacheRight, Present, Entry, IsTarget, InProductScope, Under
  <2>3. ASSUME NEW k \in DOMAIN Cs(i), Cs(i)[k].path # None, tree.entry[Cs(i)[k].path] = "denied"
        PROVE  ~(k < n)
    BY <1>2, <2>1, <2>3
  <2>4. \A k \in DOMAIN Cs(i) :
          Cs(i)[k].path # None /\ tree.entry[Cs(i)[k].path] = "denied" => ~(k < n)
    BY <2>3
  <2> QED BY <1>1, <2>1, <2>2, <2>4 DEF TestFails
<1> QED BY <1>3, <1>4 DEF Settled

-----------------------------------------------------------------------------
(* the outcome of a scan: the steps *)

BeforeImports == Early \union {"product_walk", "tsconfig", "chain"}

\* Everything that is known of an undisturbed scan that runs.
Going == LInv /\ Right /\ VInv /\ ChainTyped /\ OutcomeRight /\ exit = "running" /\ pc # "done"

\* A scan may fail when the tree is not supported.
LEMMA FailsOutcome ==
  ASSUME Going, pc # "config", Fail("unsupported"), ~Supported(tree)
  PROVE  OutcomeRight'
BY DEF Going, Fail, OutcomeRight, ExitRight

\* The configuration stays supported, however the scan goes on.
LEMMA GoesOn ==
  ASSUME Going, pc # "config", exit' \in {"running", "ok"}, tree' = tree, Alright'
  PROVE  OutcomeRight'
BY DEF Going, OutcomeRight, ExitRight

\* Before the product files are read nothing is said of their imports.
LEMMA Unread ==
  ASSUME pc' \in BeforeImports, exit' = "running"
  PROVE  ImportsRight'
BY DEF ImportsRight, BeforeImports, Early

\* tsconfig.json waits for the walks to end.
LEMMA TscWaits ==
  ASSUME TscRight, pc \in Early \union {"product_walk"}, exit' = "running",
         pc' \in Early \union {"product_walk", "tsconfig"}, UNCHANGED <<tree, chain, next, aliases>>
  PROVE  TscRight'
BY DEF TscRight, Early

\* After tsconfig.json the aliases stay.
LEMMA TscOver ==
  ASSUME TscRight, pc \in {"product_read", "resolve"},
         pc' \in {"product_read", "resolve", "done"}, UNCHANGED <<tree, chain, next, aliases>>
  PROVE  TscRight'
BY DEF TscRight, Early

\* A step of the walks keeps the rest.
LEMMA WalkOutcome ==
  ASSUME Going, pc # "config", pc \in Early \union {"product_walk"},
         exit' = "running", pc' \in Early \union {"product_walk", "tsconfig"},
         SeenRight' /\ CoverRight' /\ TextsRight', UNCHANGED <<tree, chain, next, aliases, cache>>
  PROVE  OutcomeRight'
<1>1. TscRight' /\ ImportsRight'
  BY TscWaits, Unread DEF Going, OutcomeRight, Alright, BeforeImports
<1>2. Tested'
  BY DEF Going, OutcomeRight, Alright, Tested, Entry
<1> QED BY <1>1, <1>2, GoesOn DEF Alright

\* So does a step on tsconfig.json.
LEMMA TsconfigOutcome ==
  ASSUME Going, pc \in {"tsconfig", "chain"}, exit' = "running",
         pc' \in {"tsconfig", "chain", "product_read"}, TscRight',
         UNCHANGED <<tree, seen, here, found, product, cache, imports>>
  PROVE  OutcomeRight'
<1> USE DEF Going, OutcomeRight, Alright
<1>1. SeenRight' /\ CoverRight'
  BY WalksOver DEF Discovered
<1>2. found = product
  BY DEF TextsRight
<1>3. TextsRight'
  BY <1>2 DEF TextsRight, Early, Discovered
<1>4. ImportsRight'
  BY <1>2 DEF ImportsRight
<1>5. Tested'
  BY DEF Tested, Entry
<1> QED BY <1>1, <1>3, <1>4, <1>5, GoesOn

\* The configuration decides on exit code 2.
LEMMA LoadConfigOutcome ==
  ASSUME Going, LoadConfig
  PROVE  OutcomeRight'
<1> USE DEF Going
<1>1. CASE ~ConfigSupported(tree)
  BY <1>1 DEF LoadConfig, Fail, OutcomeRight, ExitRight
<1>2. CASE ConfigSupported(tree)
  <2>1. /\ pc = "config" /\ pc' = "spec_walk" /\ exit' = "running"
        /\ UNCHANGED <<tree, roots, pending, here, seen, found, chain, next, aliases, cache>>
    BY <1>2 DEF LoadConfig, walk, tsc, graph, resolve
  <2>2. SeenRight' /\ CoverRight' /\ TextsRight'
    BY <2>1, WalksWait DEF LInv, OutcomeRight, Alright, Early
  <2>3. TscRight' /\ ImportsRight'
    BY <2>1, TscWaits, Unread DEF OutcomeRight, Alright, BeforeImports, Early
  <2>4. Tested'
    BY <2>1 DEF OutcomeRight, Alright, Tested, Entry
  <2>5. ExitRight'
    BY <1>2, <2>1 DEF ExitRight
  <2> QED BY <2>2, <2>3, <2>4, <2>5 DEF OutcomeRight, Alright
<1> QED BY <1>1, <1>2

\* Each step of the walks keeps the outcome right.
LEMMA WalksOutcome ==
  ASSUME Going, NEW p \in Paths,
         \/ \E root \in SpecRoots : StartSpecRoot(root)
         \/ Refuse(p) \/ Inspect(p) \/ ReadSpec(p)
         \/ Enumerate \/ ReadSpecs \/ IndexSpecs \/ EndDiscovery
  PROVE  OutcomeRight'
<1> USE DEF Going, OutcomeRight, Alright, walk, specs, tsc, graph, resolve
<1>0. /\ pc # "config" /\ ConfigSupported(tree) /\ TypeOK /\ pc \in Early \union {"product_walk"}
  <2>1. pc # "config" /\ pc \in Early \union {"product_walk"}
    BY DEF StartSpecRoot, Refuse, Inspect, ReadSpec, Enumerate, ReadSpecs, IndexSpecs,
           EndDiscovery,
           Walked, Walking, Early
  <2> QED BY <2>1 DEF ExitRight, LInv
<1>1. ASSUME NEW root \in SpecRoots, StartSpecRoot(root) PROVE OutcomeRight'
  <2>1. UNCHANGED <<tree, pc, exit, chain, next, aliases, cache>>
    BY <1>1 DEF StartSpecRoot
  <2> HIDE DEF Going, OutcomeRight, Alright
  <2>2. SeenRight' /\ CoverRight' /\ TextsRight'
    BY <1>0, <1>1, StartSpecRootWalks DEF Going, OutcomeRight, Alright
  <2> QED BY <1>0, <2>1, <2>2, WalkOutcome DEF Going
<1>2. CASE Refuse(p)
  <2>1. Fail("unsupported") /\ ~Supported(tree)
    BY <1>2, RefuseReason DEF Refuse
  <2> QED BY <1>0, <2>1, FailsOutcome
<1>3. CASE Inspect(p)
  <2>1. UNCHANGED <<tree, pc, exit, chain, next, aliases, cache>>
    BY <1>3 DEF Inspect
  <2>2. SeenRight' /\ CoverRight' /\ TextsRight'
    BY <1>0, <1>3, InspectWalks
  <2> HIDE DEF OutcomeRight, Alright
  <2> QED BY <1>0, <2>1, <2>2, WalkOutcome
<1>4. CASE ReadSpec(p)
  <2>1. CASE exit' # "running"
    <3>1. Fail("unsupported") /\ ~Supported(tree)
      BY <1>4, <2>1, ReadReason DEF ReadSpec
    <3> QED BY <1>0, <3>1, FailsOutcome
  <2>2. CASE exit' = "running"
    <3>1. UNCHANGED <<tree, chain, next, aliases, cache>> /\ pc' \in Early
      BY <1>4, <2>2 DEF ReadSpec, Fail, Early
    <3>2. SeenRight' /\ CoverRight' /\ TextsRight'
      BY <1>0, <1>4, <2>2, ReadSpecWalks
    <3> HIDE DEF OutcomeRight, Alright
    <3> QED BY <1>0, <2>2, <3>1, <3>2, WalkOutcome
  <2> QED BY <2>1, <2>2
<1>5. CASE Enumerate
  <2>1. CASE exit' # "running"
    <3>1. Fail("unsupported") /\ ~Supported(tree)
      BY <1>5, <2>1, EnumerateReason DEF Enumerate
    <3> QED BY <1>0, <3>1, FailsOutcome
  <2>2. CASE exit' = "running"
    <3>1. UNCHANGED <<tree, pc, chain, next, aliases, cache>>
      BY <1>5, <2>2 DEF Enumerate, Fail
    <3>2. SeenRight' /\ CoverRight' /\ TextsRight'
      BY <1>0, <1>5, <2>2, EnumerateWalks
    <3> HIDE DEF OutcomeRight, Alright
    <3> QED BY <1>0, <2>2, <3>1, <3>2, WalkOutcome
  <2> QED BY <2>1, <2>2
<1>6. CASE ReadSpecs
  <2>1. /\ UNCHANGED <<tree, exit, roots, pending, here, seen, found, chain, next, aliases, cache>>
        /\ pc' \in Early /\ pc \in Early /\ here = None
    BY <1>6 DEF ReadSpecs, Early, Walked, Walking
  <2>2. SeenRight' /\ CoverRight' /\ TextsRight'
    BY <1>0, <2>1, WalksWait
  <2> HIDE DEF OutcomeRight, Alright
  <2> QED BY <1>0, <2>1, <2>2, WalkOutcome
<1>7. CASE IndexSpecs
  <2>1. CASE exit' # "running"
    <3>1. Fail("unsupported") /\ ~Supported(tree)
      BY <1>7, <2>1, IndexSpecsReason DEF IndexSpecs
    <3> QED BY <1>0, <3>1, FailsOutcome
  <2>2. CASE exit' = "running"
    <3>1. UNCHANGED <<tree, chain, next, aliases, cache>> /\ pc' = "product_walk"
      BY <1>7, <2>2 DEF IndexSpecs, Fail
    <3>2. SeenRight' /\ CoverRight' /\ TextsRight'
      BY <1>0, <1>7, <2>2, IndexSpecsWalks
    <3> HIDE DEF OutcomeRight, Alright
    <3> QED BY <1>0, <2>2, <3>1, <3>2, WalkOutcome
  <2> QED BY <2>1, <2>2
<1>8. CASE EndDiscovery
  <2>1. UNCHANGED <<tree, exit, chain, next, aliases, cache>> /\ pc' = "tsconfig"
    BY <1>8 DEF EndDiscovery
  <2>2. SeenRight' /\ CoverRight' /\ TextsRight'
    BY <1>0, <1>8, EndDiscoveryWalks
  <2> HIDE DEF OutcomeRight, Alright
  <2> QED BY <1>0, <2>1, <2>2, WalkOutcome
<1> QED BY <1>1, <1>2, <1>3, <1>4, <1>5, <1>6, <1>7, <1>8

\* Each step on tsconfig.json does.
LEMMA TsconfigStepsOutcome ==
  ASSUME Going, LookForTsconfig \/ ReadTsconfig \/ NormalizeAliases
  PROVE  OutcomeRight'
<1>0. /\ pc \in {"tsconfig", "chain"} /\ TypeOK /\ ChainTyped /\ TscRight
      /\ exit' # "running" => Fail("unsupported")
      /\ exit' = "running" =>
           /\ UNCHANGED <<tree, seen, here, found, product, cache, imports>>
           /\ pc' \in {"tsconfig", "chain", "product_read"}
  BY DEF Going, LInv, OutcomeRight, Alright, LookForTsconfig, ReadTsconfig, NormalizeAliases,
         walk, graph, resolve, Fail
<1>1. CASE exit' = "running"
  <2>1. TscRight'
    BY <1>0, <1>1, LookForTsconfigRight, ReadTsconfigRight, NormalizeRight
  <2> QED BY <1>0, <1>1, <2>1, TsconfigOutcome
<1>2. CASE exit' # "running"
  <2>1. ~Supported(tree)
    BY <1>0, <1>2, LookForTsconfigReason, ReadTsconfigReason, NormalizeReason
  <2> QED BY <1>0, <1>2, <2>1, FailsOutcome
<1> QED BY <1>1, <1>2

\* So does the reading of a product file.
LEMMA ReadProductOutcome ==
  ASSUME Going, NEW f \in Paths, ReadProduct(f)
  PROVE  OutcomeRight'
<1>1. CASE exit' # "running"
  <2>1. Fail("unsupported") /\ ~Supported(tree) /\ pc # "config"
    BY <1>1, ReadReason DEF ReadProduct, Going
  <2> QED BY <2>1, FailsOutcome
<1>2. CASE exit' = "running"
  <2> USE DEF Going, OutcomeRight, Alright
  <2>1. /\ pc = "product_read" /\ f \in found /\ found' = found \ {f} /\ tree.text[f] # Broken
        /\ imports' = [imports EXCEPT ![f] = LocalOf(f)]
        /\ UNCHANGED <<tree, exit, pc, seen, here, product, chain, next, aliases, cache>>
    BY <1>2 DEF ReadProduct, Readable, Fail, specs, tsc, LocalOf
  <2>2. SeenRight' /\ CoverRight' /\ TscRight'
    BY <2>1, WalksOver, TscOver DEF Discovered
  <2>3. TextsRight'
    BY <2>1 DEF TextsRight, Early, Discovered
  <2>4. ImportsRight'
    <3>1. \A p \in Paths : imports'[p] = IF p = f THEN LocalOf(f) ELSE imports[p]
      BY <2>1 DEF VInv, GraphTyped
    <3>2. \A p : LocalOf(p)' = LocalOf(p)
      BY <2>1 DEF LocalOf
    <3>3. product \subseteq Paths
      BY DEF LInv, TypeOK
    <3> QED BY <2>1, <3>1, <3>2, <3>3 DEF ImportsRight
  <2>5. Tested'
    BY <2>1 DEF Tested, Entry
  <2> QED BY <2>1, <2>2, <2>3, <2>4, <2>5, GoesOn
<1> QED BY <1>1, <1>2

\* The steps of the resolution learn nothing but which candidates exist.
LEMMA ResolvingOutcome ==
  ASSUME Going, pc \in {"product_read", "resolve"}, exit' \in {"running", "ok"},
         pc = "product_read" => found = {}, exit' = "running" => pc' = "resolve",
         exit' = "ok" => pc' = "done" /\ pc = "resolve",
         UNCHANGED <<tree, seen, here, found, product, chain, next, aliases, imports>>, Tested'
  PROVE  OutcomeRight'
<1> USE DEF Going, OutcomeRight, Alright
<1>1. SeenRight' /\ CoverRight' /\ TscRight'
  BY WalksOver, TscOver DEF Discovered
<1>2. TextsRight'
  BY DEF TextsRight, Early, Discovered
<1>3. ImportsRight'
  BY DEF ImportsRight, LocalOf
<1> QED BY <1>1, <1>2, <1>3, GoesOn

\* And each step of the resolution.
LEMMA ResolutionOutcome ==
  ASSUME Going, StartResolving \/ (\E x \in left : Resolve(x)) \/ Try \/ GiveUp \/ Finish
  PROVE  OutcomeRight'
<1> USE DEF walk, specs, tsc, graph, resolve
<1>0. Tested /\ Right /\ TypeOK
  BY DEF Going, OutcomeRight, Alright, LInv
<1>1. CASE StartResolving
  <2>1. \A p \in product : Entry(p) = "file"
    BY <1>0, <1>1 DEF StartResolving, Right, ProductRight, Discovered, ProductFilesOf, Entry
  <2>2. Tested'
    BY <1>1, <2>1 DEF StartResolving, Tested, Entry
  <2> QED BY <1>1, <2>2, ResolvingOutcome DEF StartResolving, Going
<1>2. CASE (\E x \in left : Resolve(x)) \/ GiveUp \/ Finish
  <2>1. Tested'
    BY <1>0, <1>2 DEF Resolve, GiveUp, Finish, Tested, Entry
  <2> QED BY <1>2, <2>1, ResolvingOutcome DEF Resolve, GiveUp, Finish, Going
<1>3. CASE Try
  <2>1. CASE exit' # "running"
    <3>1. Fail("unsupported") /\ pc # "config"
      BY <1>3, <2>1 DEF Try, Going
    <3>2. ~Supported(tree)
      BY <1>3, <2>1, TryReason DEF Going, OutcomeRight, Alright
    <3> QED BY <3>1, <3>2, FailsOutcome
  <2>2. CASE exit' = "running"
    <3>1. PICK p : p = Candidate.path
      OBVIOUS
    <3>2. /\ pc = "resolve" /\ (p \notin DOMAIN cache /\ p # None => Entry(p) # "denied")
          /\ DOMAIN cache' \subseteq DOMAIN cache \union ({p} \ {None})
          /\ UNCHANGED <<tree, pc, exit, walk, product, tsc, imports>>
      <4>1. ~Fail("unsupported")
        BY <2>2 DEF Fail
      <4> QED BY <1>3, <3>1, <4>1 DEF Try
    <3>3. Tested'
      BY <1>0, <3>2 DEF Tested, Entry
    <3> QED BY <2>2, <3>2, <3>3, ResolvingOutcome
  <2> QED BY <2>1, <2>2
<1> QED BY <1>1, <1>2, <1>3

\* Nobody changes the tree: each step of the scan keeps the outcome right.
LEMMA StepOutcome ==
  ASSUME Going, Step
  PROVE  OutcomeRight'
<1>1. ProductRoot \in Paths
  BY PathsAssumption
<1> QED BY <1>1, LoadConfigOutcome, WalksOutcome, TsconfigStepsOutcome, ReadProductOutcome,
           ResolutionOutcome DEF Step

\* The chain has its type whatever happens to the tree.
LEMMA NextChainTyped ==
  ASSUME TypeOK, ChainTyped, [Next]_vars
  PROVE  ChainTyped'
<1>1. CASE ReadTsconfig
  BY <1>1, ReadTsconfigTyped
<1>2. CASE ~ReadTsconfig
  <2>1. chain' = chain
    BY <1>2 DEF Next, Step, vars, scan, walk, specs, tsc, graph, resolve, Fail, Checkout,
                LoadConfig, StartSpecRoot,
           Refuse, Inspect, ReadSpec, ReadProduct, Enumerate,
           ReadSpecs, IndexSpecs, EndDiscovery, LookForTsconfig, NormalizeAliases,
           StartResolving, Resolve, Try, GiveUp, Finish
  <2> QED BY <2>1 DEF ChainTyped
<1> QED BY <1>1, <1>2

\* At the start everything is still to be done.
LEMMA InitOutcome == Init => OutcomeRight /\ ChainTyped
<1> SUFFICES ASSUME Init PROVE OutcomeRight /\ ChainTyped
  OBVIOUS
<1> USE DEF Init
<1>1. ExitRight /\ ChainTyped
  BY DEF ExitRight, ChainTyped
<1>2. SeenRight
  BY DEF SeenRight, Entry
<1>3. CoverRight /\ TextsRight
  BY DEF CoverRight, TextsRight, InRoots, SpecTree, SpecFilesOf, WalkOf, Discovered
<1>4. TscRight /\ ImportsRight /\ Tested
  BY DEF TscRight, ImportsRight, Tested
<1> QED BY <1>1, <1>2, <1>3, <1>4 DEF OutcomeRight, Alright

\* The invariant is inductive: once the tree has changed the outcome is out of the question.
LEMMA NextOutcome == OInv /\ LInv' /\ VInv' /\ [Next]_vars => OInv'
<1> SUFFICES ASSUME OInv, LInv', VInv', [Next]_vars PROVE OInv'
  OBVIOUS
<1> USE DEF OInv
<1>1. ChainTyped'
  BY NextChainTyped DEF LInv
<1>2. ASSUME Undisturbed' PROVE OutcomeRight'
  <2>1. Undisturbed /\ Right /\ OutcomeRight
    <3>1. checkouts' \in {checkouts, checkouts + 1} /\ checkouts \in Nat
      BY ScanAssumption DEF LInv, TypeOK, Next, Step, vars, scan, walk, specs, tsc, graph,
                            resolve, Fail, Checkout, LoadConfig, StartSpecRoot,
           Refuse, Inspect, ReadSpec, ReadProduct, Enumerate,
           ReadSpecs, IndexSpecs, EndDiscovery, LookForTsconfig, ReadTsconfig, NormalizeAliases,
           StartResolving, Resolve, Try, GiveUp, Finish
    <3>2. Undisturbed
      BY <1>2, <3>1 DEF Undisturbed
    <3> QED BY <3>2 DEF LInv
  <2>2. CASE Step
    <3>1. exit = "running" /\ pc # "done"
      <4>1. pc # "done"
        BY <2>2 DEF Step, LoadConfig, StartSpecRoot,
           Refuse, Inspect, ReadSpec, ReadProduct, Enumerate, Walking, Walked,
           ReadSpecs, IndexSpecs, EndDiscovery, LookForTsconfig, ReadTsconfig, NormalizeAliases,
           StartResolving, Resolve, Try, GiveUp, Finish
      <4> QED BY <4>1 DEF LInv, TypeOK
    <3> QED BY <2>1, <2>2, <3>1, StepOutcome DEF Going
  <2>3. CASE Checkout
    BY <1>2, <2>1, <2>3 DEF Checkout, Undisturbed, LInv, TypeOK
  <2>4. CASE UNCHANGED vars
    <3> USE <2>4 DEF vars, scan, walk, specs, tsc, graph, resolve
    <3>1. UNCHANGED <<tree, pc, exit, roots, pending, here, seen, found, product, chain, next,
                      aliases, imports, cache>>
      OBVIOUS
    <3>2. SeenRight' = SeenRight /\ CoverRight' = CoverRight /\ TextsRight' = TextsRight
      BY <3>1 DEF SeenRight, CoverRight, TextsRight, ToInspect, InRoots, OnTheWay, Entry
    <3>3. /\ TscRight' = TscRight /\ ImportsRight' = ImportsRight
          /\ Tested' = Tested /\ ExitRight' = ExitRight
      BY <3>1 DEF TscRight, ChainRight, ImportsRight, LocalOf, Tested, ExitRight, Entry
    <3> QED BY <2>1, <3>1, <3>2, <3>3 DEF OutcomeRight, Alright
  <2> QED BY <2>2, <2>3, <2>4 DEF Next
<1> QED BY <1>1, <1>2

-----------------------------------------------------------------------------
(* the outcome of a scan: the theorem *)

\* What a scan knows at its end is what the contract asks.
LEMMA OutcomeHolds == OInv => OutcomeExact
<1> SUFFICES ASSUME OInv, pc = "done", Undisturbed
             PROVE  /\ exit = IF ~ConfigSupported(tree) THEN "config"
                              ELSE IF Supported(tree) THEN "ok" ELSE "unsupported"
                    /\ exit = "ok" => aliases = AliasesOf(tree)
  BY DEF OutcomeExact
<1>1. /\ exit \in {"ok", "config", "unsupported"} /\ TypeOK /\ Right /\ VInv /\ ExitRight
      /\ exit = "ok" => Alright
  BY DEF OInv, LInv, TypeOK, Outcomes, OutcomeRight
<1>2. CASE exit # "ok"
  BY <1>1, <1>2 DEF ExitRight
<1>3. CASE exit = "ok"
  <2>1. ConfigSupported(tree) /\ aliases = AliasesOf(tree) /\ TsconfigSupported(tree)
    BY <1>1, <1>3 DEF ExitRight, Alright, TscRight
  <2>2. seen = Inspected(tree) /\ here \notin seen
    BY <1>1, <1>3, PathsAssumption DEF Alright, SeenRight, CoverRight, Inspected, TypeOK
  <2>3. /\ \A p \in Inspected(tree) : tree.entry[p] \in {"dir", "file"}
        /\ \A p, q \in Inspected(tree) : LowerCase[p] = LowerCase[q] => p = q
        /\ \A p \in Inspected(tree) : tree.entry[p] = "dir" =>
             \A q \in OddNames : Parent[q] = p => tree.entry[q] = "missing"
    BY <1>1, <1>3, <2>2 DEF Alright, SeenRight, Entry
  <2>4. \A p \in SpecFilesOf(tree) \union ProductFilesOf(tree) : tree.text[p] # Broken
    BY <1>1, <1>3 DEF Alright, TextsRight, Right, ProductRight
  <2>5. OneActive(OccurrencesOf(tree))
    BY <1>1, <1>3 DEF Right, AnchorsRight
  <2>6. ASSUME NEW x \in StaticImportsOf(tree) PROVE ~TestFails(tree, x[2])
    <3>0. PICK f \in ProductFilesOf(tree) : \E i \in tree.text[f] : x = <<f, i>>
      BY DEF StaticImportsOf, LocalImportsOf, LocalImports
    <3>1. PICK i \in tree.text[f] : x = <<f, i>>
      BY <3>0
    <3>2. i \in Import
      BY <1>1, <2>4, <3>1, TextsAssumption DEF ProductFilesOf, TypeOK
    <3>3. x \in StaticImports
      BY <1>1, <1>3, <3>1, <3>2, ImportsAre DEF Alright
    <3>4. x \in Resolved
      BY <1>1, <1>3, <3>3, ImportPairs DEF VInv, ResolveRight, Resolved
    <3>5. Settled(i)
      BY <1>1, <1>3, <3>1, <3>4 DEF VInv, ResolveRight
    <3> QED BY <1>1, <1>3, <2>1, <3>1, <3>2, <3>5, SettledTests DEF Alright
  <2>7. Supported(tree)
    BY <2>1, <2>3, <2>4, <2>5, <2>6 DEF Supported, Inspected
  <2> QED BY <1>3, <2>1, <2>7
<1> QED BY <1>2, <1>3

\* For every set of trees and every configuration: on a tree nobody changes a scan succeeds
\* exactly when contract 12.3 calls the tree supported, and then with the aliases of the
\* extends chain.
THEOREM ScanOutcomeIsExact == Spec => []OutcomeExact
<1>1. Init => OInv
  BY InitLInv, InitView, InitOutcome DEF OInv
<1>2. OInv /\ [Next]_vars => OInv'
  <2>1. LInv /\ [Next]_vars => LInv'
    BY NextLInv
  <2>2. LInv /\ LInv' => TypeOK /\ TypeOK'
    BY DEF LInv
  <2> QED BY <2>1, <2>2, NextView, NextOutcome DEF OInv
<1> QED BY <1>1, <1>2, OutcomeHolds, PTL DEF Spec

-----------------------------------------------------------------------------
(* the graph of a scan *)

\* Only product files have edges.
EdgesInside == \A f \in Paths : edges[f] # {} => f \in product

LEMMA NextEdgesInside == EdgesInside /\ VInv /\ TypeOK /\ [Next]_vars => EdgesInside'
<1> SUFFICES ASSUME EdgesInside, VInv, TypeOK, [Next]_vars PROVE EdgesInside'
  OBVIOUS
<1>1. CASE Try
  <2>1. CASE UNCHANGED edges
    BY <1>1, <2>1 DEF Try, Fail, EdgesInside
  <2>2. CASE ~UNCHANGED edges
    <3>1. /\ pc = "resolve" /\ resolving # None /\ product' = product
          /\ \E p : edges' = [edges EXCEPT ![resolving[1]] = @ \union {p}]
      BY <1>1, <2>2 DEF Try, Fail, graph, resolve, specs, tsc
    <3>2. resolving[1] \in product
      BY <3>1 DEF VInv, ResolveRight, StaticImports
    <3>3. edges \in [Paths -> SUBSET Paths] /\ product \subseteq Paths
      BY DEF TypeOK
    <3> QED BY <3>1, <3>2, <3>3 DEF EdgesInside
  <2> QED BY <2>1, <2>2
<1>2. CASE EndDiscovery
  <2>1. \A f \in Paths : edges[f] = {}
    BY <1>2 DEF EndDiscovery, VInv, ReadRight, BeforeGraph, Blank
  <2> QED BY <1>2, <2>1 DEF EndDiscovery, EdgesInside, graph
<1>3. CASE UNCHANGED <<edges, product>>
  BY <1>3 DEF EdgesInside
<1>4. Try \/ EndDiscovery \/ UNCHANGED <<edges, product>>
  <2>1. CASE UNCHANGED vars
    BY <2>1 DEF vars, scan, graph
  <2>2. CASE Checkout
    BY <2>2 DEF Checkout, scan, graph
  <2>3. CASE LoadConfig \/ Enumerate \/ ReadSpecs \/ IndexSpecs \/ LookForTsconfig
    BY <2>3 DEF LoadConfig, Enumerate, ReadSpecs, IndexSpecs, LookForTsconfig, Fail, graph
  <2>4. CASE ReadTsconfig \/ NormalizeAliases \/ StartResolving \/ GiveUp \/ Finish
    BY <2>4 DEF ReadTsconfig, NormalizeAliases, StartResolving, GiveUp, Finish, Fail, graph
  <2>5. ASSUME NEW p \in Paths, Refuse(p) \/ Inspect(p) \/ ReadSpec(p) \/ ReadProduct(p)
        PROVE  UNCHANGED <<edges, product>>
    BY <2>5 DEF Refuse, Inspect, ReadSpec, ReadProduct, Fail, graph
  <2>6. ASSUME NEW root \in SpecRoots, StartSpecRoot(root) PROVE UNCHANGED <<edges, product>>
    BY <2>6 DEF StartSpecRoot, graph
  <2>7. ASSUME NEW x \in left, Resolve(x) PROVE UNCHANGED <<edges, product>>
    BY <2>7 DEF Resolve
  <2> QED BY <2>1, <2>2, <2>3, <2>4, <2>5, <2>6, <2>7 DEF Next, Step
<1> QED BY <1>1, <1>2, <1>3, <1>4

\* What a settled import has come to is what the tree makes of it.
LEMMA SettledResult ==
  ASSUME CacheRight, Undisturbed, aliases = AliasesOf(tree), None \notin DOMAIN cache,
         NEW i \in Import, Settled(i)
  PROVE  Result(i) = ResultIn(tree, i)
<1> DEFINE cs == Candidates(i, aliases)
           present == Existing(tree, i)
<1>1. Cs(i) = cs /\ Result(i) = Classified(i, aliases, Known)
      /\ ResultIn(tree, i) = Classified(i, aliases, present)
  BY DEF Cs, Result, ResultIn
<1>2. /\ None \notin Known /\ None \notin present
      /\ \A k \in DOMAIN cs : cs[k].path \in present <=>
           cs[k].path # None /\ Entry(cs[k].path) # "missing"
  BY DEF Known, Existing, CandidatePaths, Entry
<1> HIDE DEF present
<1>3. ASSUME NEW k \in DOMAIN cs, Asked(cs[k]) PROVE cs[k].path \in present <=> cs[k].path \in Known
  BY <1>2, <1>3 DEF Asked, Known, CacheRight
<1>4. CASE Exhausted(i)
  <2>1. {k \in DOMAIN cs : cs[k].path \in Known} = {k \in DOMAIN cs : cs[k].path \in present}
    BY <1>1, <1>3, <1>4 DEF Exhausted
  <2> HIDE DEF cs
  <2>2. Classified(i, aliases, Known) = Classified(i, aliases, present)
    BY <2>1 DEF Classified, cs
  <2> QED BY <1>1, <2>2
<1>5. ASSUME NEW n \in Nat, TargetAt(i, n) PROVE Result(i) = ResultIn(tree, i)
  <2>1. /\ n \in DOMAIN cs /\ cs[n].path \in Known /\ IsTarget(cs[n])
        /\ \A k \in DOMAIN cs : k < n => Asked(cs[k]) /\ ~(cs[k].path \in Known /\ IsTarget(cs[k]))
    BY <1>1, <1>5 DEF TargetAt, NoTarget
  <2>2. cs[n].path \in present
    BY <1>2, <1>3, <2>1 DEF Known, CacheRight
  <2>3. \A k \in DOMAIN cs : k < n => ~(cs[k].path \in present /\ IsTarget(cs[k]))
    BY <1>3, <2>1
  <2>4. Classified(i, aliases, Known) = <<"target", cs[n].path>>
    BY <1>2, <2>1, FirstTarget
  <2>5. Classified(i, aliases, present) = <<"target", cs[n].path>>
    BY <1>2, <2>1, <2>2, <2>3, FirstTarget
  <2> QED BY <1>1, <2>4, <2>5
<1> QED BY <1>4, <1>5 DEF Settled

LEMMA GraphHolds == OInv /\ EdgesInside => GraphExact
<1> SUFFICES ASSUME OInv, EdgesInside, exit = "ok", Undisturbed
             PROVE  edges = EdgesOf(tree) /\ graphFindings = GraphFindingsOf(tree)
  BY DEF GraphExact
<1>1. /\ TypeOK /\ Right /\ VInv /\ Alright
      /\ None \notin DOMAIN cache /\ aliases = AliasesOf(tree) /\ product = ProductFilesOf(tree)
      /\ \A f \in product : imports[f] = LocalOf(f)
  BY DEF OInv, LInv, OutcomeRight, Alright, TscRight, Right, ProductRight, ImportsRight, VInv,
         GraphTyped
<1>2. \A f \in product : imports[f] \subseteq Import
  BY <1>1 DEF VInv, GraphTyped, TypeOK
<1>3. LocalImportsOf(tree) = {x \in product \X Import : x[2] \in imports[x[1]]}
  <2>1. \A x : x \in LocalImportsOf(tree) <=>
                 \E f \in product : \E i \in imports[f] : x = <<f, i>>
    BY <1>1 DEF LocalImportsOf, LocalImports, LocalOf
  <2> QED BY <1>2, <2>1
<1>4. StaticImportsOf(tree) = StaticImports
      /\ CallsOf(tree) = {y \in product \X Import : y[2] \in imports[y[1]] /\ y[2].syntax = "call"}
  BY <1>3 DEF StaticImportsOf, CallsOf, StaticImports
<1>5. Resolved = StaticImports
  <2>1. None \notin StaticImports
    BY <1>1, ImportPairs
  <2> QED BY <1>1, <2>1 DEF VInv, ResolveRight, Resolved
<1>6. \A x \in StaticImports : x[2] \in Import /\ Settled(x[2])
  BY <1>1, <1>5 DEF VInv, ResolveRight, StaticImports
<1>7. \A x \in StaticImports : Result(x[2]) = ResultIn(tree, x[2])
  BY <1>1, <1>6, SettledResult DEF Right
<1>8. ASSUME NEW f \in Paths PROVE edges[f] = EdgesOf(tree)[f]
  <2>1. EdgesOf(tree)[f] =
          {ResultIn(tree, x[2])[2] :
             x \in {y \in StaticImports : y[1] = f /\ ResultIn(tree, y[2])[1] = "target"}}
    BY <1>4 DEF EdgesOf
  <2>2. EdgesOf(tree)[f] = EdgesFrom(f)
    BY <1>5, <1>7, <2>1 DEF EdgesFrom
  <2>3. CASE f \in product
    BY <1>1, <2>2, <2>3 DEF VInv, ResolveRight
  <2>4. CASE f \notin product
    <3>1. EdgesFrom(f) = {}
      BY <1>5, <2>4 DEF EdgesFrom, StaticImports
    <3> QED BY <2>2, <2>4, <3>1 DEF EdgesInside
  <2> QED BY <2>3, <2>4
<1>9. edges = EdgesOf(tree)
  BY <1>1, <1>8 DEF TypeOK, EdgesOf
<1>10. FindingsFrom = {<<x[1], ResultIn(tree, x[2])>> :
                         x \in {y \in StaticImports : ResultIn(tree, y[2])[1] # "target"}}
  BY <1>5, <1>7 DEF FindingsFrom
<1>11. graphFindings = CallFindings \union FindingsFrom
  BY <1>1 DEF VInv, ResolveRight
<1>12. GraphFindingsOf(tree) = FindingsFrom \union CallFindings
  BY <1>4, <1>10 DEF GraphFindingsOf, CallFindings
<1> QED BY <1>9, <1>11, <1>12

LEMMA InitGraph == Init => OInv /\ EdgesInside
BY InitLInv, InitView, InitOutcome DEF OInv, EdgesInside, Init

LEMMA NextGraph == OInv /\ EdgesInside /\ [Next]_vars => (OInv /\ EdgesInside)'
<1>1. LInv /\ [Next]_vars => LInv'
  BY NextLInv
<1>2. LInv /\ LInv' => TypeOK /\ TypeOK'
  BY DEF LInv
<1> QED BY <1>1, <1>2, NextView, NextOutcome, NextEdgesInside DEF OInv

\* For every set of trees and every configuration, and in whatever order imports are
\* resolved: what a scan of a tree nobody changes hands to the engine is the graph that
\* contract 10.2 gives for that tree, edge by edge and finding by finding.
THEOREM GraphIsOfTree == Spec => []GraphExact
BY InitGraph, NextGraph, GraphHolds, PTL DEF Spec

-----------------------------------------------------------------------------
(* the whole run: the engine on what was read *)

Proved == INSTANCE ScanEngineProofs
            WITH Files <- Paths, Inputs <- EngineInputs, input <- EngineInput, pc <- part

\* The engine has done nothing before it is called, and once it is called the scan of the
\* tree is over and the invariant of the engine holds of its own variables.
NotCalled ==
  /\ part = "idle" /\ todo = {} /\ state = [a \in Anchors |-> "none"]
  /\ current = None /\ queued = {} /\ reached = {}
  /\ reachedBy = [a \in Anchors |-> {}]
  /\ observed = [a \in Anchors |-> "none"]
  /\ covering = [f \in Paths |-> {}]
  /\ metrics = [a \in Anchors |-> Engine!NoMetrics]
  /\ summary = Engine!NoSummary
  /\ findings = {}
Called == part # "idle" /\ exit = "ok" /\ Proved!AInv

RunInv == OInv /\ EdgesInside /\ mappings \in Mappings /\ (NotCalled \/ Called)

\* The sets the engine works on are finite, as its proofs assume.
LEMMA FiniteForEngine == ASSUME NEW S, IsFiniteSet(S) PROVE Proved!IsFiniteSet(S)
BY DEF IsFiniteSet, Proved!IsFiniteSet

LEMMA EngineAssumption == Proved!InputsAssumption
<1>1. EngineInputs \subseteq Proved!InputType
  BY DEF Proved!InputType, EngineInputs, Stores
<1> QED BY <1>1, FiniteForEngine, PathsAssumption, RunAssumption

\* The engine of the module is the one of its proofs.
LEMMA SameSize == ASSUME NEW S PROVE Engine!Cardinality(S) = Proved!Cardinality(S)
BY DEF Engine!Cardinality, Proved!Cardinality

LEMMA SameMetrics ==
  /\ \A a \in Anchors : Engine!AnchorMetrics(a) = Proved!AnchorMetrics(a)
  /\ Engine!Summary = Proved!Summary
<1>1. /\ Engine!Stored = Proved!Stored /\ Engine!Usable = Proved!Usable
      /\ Engine!NoMetrics = Proved!NoMetrics
  BY DEF Engine!Stored, Proved!Stored, Engine!Usable, Proved!Usable, Engine!NoMetrics,
         Proved!NoMetrics
<1>2. \A f : Engine!Covering(f) = Proved!Covering(f)
  BY DEF Engine!Covering, Proved!Covering
<1>3. \A a \in Anchors : Engine!AnchorMetrics(a) = Proved!AnchorMetrics(a)
  BY <1>1, <1>2, SameSize DEF Engine!AnchorMetrics, Proved!AnchorMetrics
<1>4. Engine!Summary = Proved!Summary
  BY <1>1, <1>2, SameSize DEF Engine!Summary, Proved!Summary
<1> QED BY <1>3, <1>4

LEMMA SameEngine == Engine!Next => Proved!Next
<1>1. /\ Engine!Stored = Proved!Stored /\ Engine!Active = Proved!Active
      /\ Engine!Observed = Proved!Observed /\ Engine!Usable = Proved!Usable
  BY DEF Engine!Stored, Proved!Stored, Engine!Active, Proved!Active, Engine!Observed,
         Proved!Observed, Engine!Usable, Proved!Usable
<1>2. \A a \in Anchors : Engine!Stale(a) => Proved!Stale(a)
  BY <1>1
     DEF Engine!Stale, Proved!Stale, Engine!walk, Proved!walk, Engine!results,
         Proved!results
<1>3. \A a \in Anchors : Engine!Invalid(a) => Proved!Invalid(a)
  BY <1>1
     DEF Engine!Invalid, Proved!Invalid, Engine!walk, Proved!walk, Engine!results,
         Proved!results
<1>4. \A a \in Anchors : Engine!Reach(a) => Proved!Reach(a)
  BY <1>1
     DEF Engine!Reach, Proved!Reach, Engine!results, Proved!results
<1>5. \A f \in Paths : Engine!Visit(f) => Proved!Visit(f)
  BY DEF Engine!Visit, Proved!Visit, Engine!Targets, Proved!Targets, Engine!results,
         Proved!results
<1>6. Engine!Reached => Proved!Reached
  BY DEF Engine!Reached, Proved!Reached, Engine!walk, Proved!walk, Engine!results,
         Proved!results
<1>7. Engine!Observe => Proved!Observe
  BY <1>1
     DEF Engine!Observe, Proved!Observe, Engine!MappingState, Proved!MappingState,
         Engine!walk, Proved!walk
<1>8. Engine!Cover => Proved!Cover
  BY <1>1, SameMetrics
     DEF Engine!Cover, Proved!Cover, Engine!Covering, Proved!Covering,
         Engine!NoMetrics, Proved!NoMetrics, Engine!walk, Proved!walk
<1>9. Engine!Conclude => Proved!Conclude
  BY <1>1
     DEF Engine!Conclude, Proved!Conclude, Engine!Untraced, Proved!Untraced,
         Engine!analysisHealth, Proved!analysisHealth, Engine!Degrading,
         Proved!Degrading, Engine!walk, Proved!walk, Engine!results,
         Proved!results
<1> QED BY <1>2, <1>3, <1>4, <1>5, <1>6, <1>7, <1>8, <1>9 DEF Engine!Next, Proved!Next

\* A scan that is over does not go on, and nobody changes its tree.
LEMMA OverIsOver == TypeOK /\ exit = "ok" => ~Next
BY DEF TypeOK, Next, Step, Checkout, LoadConfig, StartSpecRoot, Walking, Refuse, Inspect,
       Enumerate, Walked, ReadSpecs, ReadSpec, IndexSpecs, EndDiscovery, LookForTsconfig,
       ReadTsconfig, NormalizeAliases, ReadProduct, StartResolving, Resolve, Try, GiveUp,
       Finish, Outcomes

\* What a scan that went well hands over is an input of the engine.
LEMMA HandsOverInput ==
  ASSUME OInv, exit = "ok", mappings \in Mappings
  PROVE  EngineInput \in EngineInputs
<1>1. TypeOK /\ VInv
  BY DEF OInv, LInv
<1>2. \A x \in graphFindings : x[1] \in Paths
  <2>1. graphFindings = CallFindings \union FindingsFrom /\ product \subseteq Paths
    BY <1>1 DEF VInv, ResolveRight, TypeOK
  <2>2. \A x \in Resolved : x[1] \in product
    BY <1>1, ImportPairs DEF Resolved
  <2> QED BY <2>1, <2>2 DEF CallFindings, FindingsFrom
<1>3. mappings \in Stores
  BY RunAssumption
<1> QED BY <1>1, <1>2, <1>3 DEF EngineInput, EngineInputs, TypeOK

LEMMA StartsEngine == Proved!Init => Proved!AInv
BY Proved!InitAInv, EngineAssumption

LEMMA KeepsEngine == Proved!AInv /\ [Proved!Next]_(Proved!vars) => Proved!AInv'
BY Proved!NextAInv, EngineAssumption

\* The call sets the engine going from an initial state of it.
LEMMA CallsEngine ==
  ASSUME RunInv, CallEngine
  PROVE  Proved!Init'
<1>1. EngineInput \in EngineInputs /\ EngineInput' = EngineInput
  BY HandsOverInput DEF RunInv, CallEngine, EngineInput, vars, scan, specs, graph
<1>2. EngineInputs \subseteq Proved!InputType /\ EngineInput.mappings = mappings
  BY DEF Proved!InputType, EngineInputs, Stores, EngineInput
<1>3. NotCalled
  BY DEF RunInv, CallEngine, Called
<1>4. Proved!NoMetrics = Engine!NoMetrics /\ Proved!NoSummary = Engine!NoSummary
  BY DEF Proved!NoMetrics, Engine!NoMetrics, Proved!NoSummary, Engine!NoSummary
<1> QED BY <1>1, <1>2, <1>3, <1>4 DEF CallEngine, NotCalled, Proved!Init, Proved!Stored

LEMMA InitRun == RunInit => RunInv
BY InitGraph DEF RunInit, RunInv, NotCalled

LEMMA NextRun == RunInv /\ [RunNext]_<<vars, mappings, engine>> => RunInv'
<1>1. [RunNext]_<<vars, mappings, engine>> => [Next]_vars /\ mappings' = mappings
  BY DEF RunNext, ReadTree, CallEngine, Compute
<1>2. ASSUME RunInv, ReadTree PROVE (NotCalled \/ Called)'
  <2>1. ~Called
    BY <1>2, OverIsOver DEF RunInv, OInv, LInv, Called, ReadTree
  <2> QED BY <1>2, <2>1 DEF RunInv, ReadTree, NotCalled, engine
<1>3. RunInv /\ CallEngine => Proved!AInv'
  <2>1. RunInv /\ CallEngine => Proved!Init'
    BY CallsEngine
  <2> QED BY <2>1, StartsEngine, PTL
<1>4. RunInv /\ CallEngine => (part # "idle" /\ exit = "ok")'
  BY DEF CallEngine, vars, scan
<1>5. ASSUME RunInv, Compute PROVE Called'
  <2>1. Called /\ [Proved!Next]_(Proved!vars)
    BY <1>5, SameEngine DEF RunInv, Compute, NotCalled
  <2>2. part' # "idle"
    BY <1>5, <2>1 DEF Compute, Engine!Next, Engine!Stale, Engine!Invalid, Engine!Reach,
         Engine!Visit, Engine!Reached, Engine!Observe, Engine!Cover, Engine!Conclude
  <2> QED BY <1>5, <2>1, <2>2, KeepsEngine DEF Called, Compute, vars, scan
<1>6. ASSUME RunInv, UNCHANGED <<vars, mappings, engine>> PROVE (NotCalled \/ Called)'
  <2>1. CASE NotCalled
    BY <1>6, <2>1 DEF NotCalled, engine
  <2>2. CASE Called
    <3>1. UNCHANGED Proved!vars
      BY <1>6 DEF Proved!vars, Proved!walk, Proved!results, engine, EngineInput, vars, scan,
                  specs, graph
    <3> QED BY <1>6, <2>2, <3>1, KeepsEngine DEF Called, engine, vars, scan
  <2> QED BY <1>6, <2>1, <2>2 DEF RunInv
<1>7. RunInv /\ [RunNext]_<<vars, mappings, engine>> => (NotCalled \/ Called)'
  BY <1>2, <1>3, <1>4, <1>5, <1>6 DEF RunNext, Called
<1>8. RunInv /\ [RunNext]_<<vars, mappings, engine>> => (OInv /\ EdgesInside)'
  BY <1>1, NextGraph DEF RunInv
<1> QED BY <1>1, <1>7, <1>8 DEF RunInv

\* What is handed over of a tree nobody changes is what the contract says of the tree.
LEMMA HandsOverTree ==
  ASSUME RunInv, exit = "ok", Undisturbed
  PROVE  /\ EngineInput.mappings = mappings
         /\ EngineInput.status = IndexOf(OccurrencesOf(tree))
         /\ EngineInput.product = ProductFilesOf(tree)
         /\ EngineInput.edges = EdgesOf(tree)
         /\ EngineInput.graphFindings = {<<"static_edge", x[1]>> : x \in GraphFindingsOf(tree)}
<1>1. /\ product = ProductFilesOf(tree) /\ index = IndexOf(OccurrencesOf(tree))
  BY DEF RunInv, OInv, LInv, Right, ProductRight, AnchorsRight
<1>2. edges = EdgesOf(tree) /\ graphFindings = GraphFindingsOf(tree)
  BY GraphHolds DEF RunInv, GraphExact
<1> QED BY <1>1, <1>2 DEF EngineInput

\* The smallest closed set around the seeds is the same among all paths as among the
\* product files.
LEMMA LedToReachable ==
  ASSUME RunInv, exit = "ok", Undisturbed, NEW seeds \in SUBSET ProductFilesOf(tree)
  PROVE  Proved!ReachableFrom(seeds) = LedTo(tree, seeds)
<1> DEFINE files == ProductFilesOf(tree)
           next1(f) == EdgesOf(tree)[f] \intersect files
           closed(set) == \A g \in set : next1(g) \subseteq set
<1>1. files \subseteq Paths
  BY DEF ProductFilesOf, ProductTree, WalkOf, Under
<1>2. Proved!ReachableFrom(seeds) =
        {f \in Paths : \A set \in SUBSET Paths : (seeds \subseteq set /\ closed(set)) => f \in set}
  BY HandsOverTree DEF Proved!ReachableFrom, Proved!Closed
<1>3. LedTo(tree, seeds) =
        {f \in files : \A set \in SUBSET files : (seeds \subseteq set /\ closed(set)) => f \in set}
  BY DEF LedTo
<1>4. closed(files)
  OBVIOUS
<1>5. \A set : closed(set) => closed(set \intersect files)
  OBVIOUS
<1> HIDE DEF closed, files
<1>6. ASSUME NEW f \in Proved!ReachableFrom(seeds) PROVE f \in LedTo(tree, seeds)
  <2>1. \A set \in SUBSET Paths : (seeds \subseteq set /\ closed(set)) => f \in set
    BY <1>2, <1>6
  <2>2. f \in files
    BY <1>1, <1>4, <2>1 DEF files
  <2> QED BY <1>1, <1>3, <2>1, <2>2
<1>7. ASSUME NEW f \in LedTo(tree, seeds) PROVE f \in Proved!ReachableFrom(seeds)
  <2>1. f \in files
        /\ \A set \in SUBSET files : (seeds \subseteq set /\ closed(set)) => f \in set
    BY <1>3, <1>7
  <2>2. ASSUME NEW set \in SUBSET Paths, seeds \subseteq set, closed(set) PROVE f \in set
    <3>1. seeds \subseteq set \intersect files /\ closed(set \intersect files)
      BY <1>5, <2>2 DEF files
    <3> QED BY <2>1, <3>1
  <2> QED BY <1>1, <1>2, <2>1, <2>2
<1> QED BY <1>6, <1>7

LEMMA ReportHolds == RunInv => ReportExact
<1> SUFFICES ASSUME RunInv, part = "done", Undisturbed PROVE
      LET by == [a \in Anchors |->
                   IF a \in CountingIn(tree, mappings) THEN LedTo(tree, mappings[a]) ELSE {}]
      IN  /\ reachedBy = by
          /\ \A f \in ProductFilesOf(tree) : covering[f] = {a \in Anchors : f \in by[a]}
          /\ findings = FindingsOf(tree, mappings)
  BY DEF ReportExact
<1> DEFINE by == [a \in Anchors |->
                    IF a \in CountingIn(tree, mappings) THEN LedTo(tree, mappings[a]) ELSE {}]
           counting == CountingIn(tree, mappings)
           files == ProductFilesOf(tree)
           graph1 == {<<"static_edge", x[1]>> : x \in GraphFindingsOf(tree)}
           status == IndexOf(OccurrencesOf(tree))
           stored == {a \in Anchors : mappings[a] # None}
           traced == UNION {LedTo(tree, mappings[a]) : a \in counting}
           sound  == /\ GraphFindingsOf(tree) = {}
                     /\ stored = counting /\ ActiveIn(tree) = counting /\ counting # {}
<1>1. exit = "ok" /\ Proved!AInv
  BY DEF RunInv, NotCalled, Called
<1>2. /\ EngineInput.mappings = mappings /\ EngineInput.product = files
      /\ EngineInput.status = IndexOf(OccurrencesOf(tree)) /\ EngineInput.graphFindings = graph1
  BY <1>1, HandsOverTree
<1>3. Proved!CountingMappings = counting
  BY <1>2 DEF Proved!CountingMappings, CountingIn, ActiveIn
<1>4. \A a \in counting : mappings[a] \in SUBSET files
  BY DEF CountingIn
<1>5. \A a \in counting : Proved!ReachableFrom(mappings[a]) = LedTo(tree, mappings[a])
  BY <1>1, <1>4, LedToReachable
<1>6. /\ reachedBy = [a \in Anchors |-> IF a \in counting
                                        THEN Proved!ReachableFrom(mappings[a]) ELSE {}]
      /\ \A f \in files : covering[f] = {a \in Anchors : f \in reachedBy[a]}
  BY <1>1, <1>2, <1>3, EngineAssumption, Proved!ReportReached
<1>7. reachedBy = by
  BY <1>5, <1>6
<1>8. Proved!TracingAllowed <=> sound
  <2>1. graph1 = {} <=> GraphFindingsOf(tree) = {}
    OBVIOUS
  <2> HIDE DEF graph1, counting
  <2>2. counting \subseteq Anchors
    BY DEF CountingIn, ActiveIn, counting
  <2> QED BY <1>2, <1>3, <2>1, <2>2 DEF Proved!TracingAllowed, ActiveIn
<1>9. \A f \in files : covering[f] = {} <=> f \notin traced
  <2>1. counting \subseteq Anchors
    BY DEF CountingIn, ActiveIn
  <2> QED BY <1>6, <1>7, <2>1
<1>10. findings =
         {<<"stale_mapping_anchor", a>> :
            a \in {b \in Anchors : mappings[b] # None /\ status[b] # "active"}}
         \union {<<"unmapped_anchor", a>> :
            a \in {b \in Anchors : mappings[b] = None /\ status[b] = "active"}}
         \union (UNION {{<<"broken_seed_path", a, f>> : f \in mappings[a] \ files} :
            a \in {b \in Anchors : mappings[b] # None /\ status[b] = "active"}})
         \union graph1
         \union {<<"untraced_product_file", f>> :
            f \in {g \in files : Proved!TracingAllowed /\ covering[g] = {}}}
  <2> HIDE DEF graph1, files, status
  <2> QED BY <1>1, <1>2, EngineAssumption, Proved!ReportFindings DEF status
<1>11. /\ {b \in Anchors : mappings[b] # None /\ status[b] # "active"} = stored \ ActiveIn(tree)
       /\ {b \in Anchors : mappings[b] = None /\ status[b] = "active"} = ActiveIn(tree) \ stored
       /\ {b \in Anchors : mappings[b] # None /\ status[b] = "active"} =
            stored \intersect ActiveIn(tree)
  BY DEF ActiveIn
<1>12. {g \in files : Proved!TracingAllowed /\ covering[g] = {}} =
         IF sound THEN files \ traced ELSE {}
  <2> HIDE DEF sound, traced, files
  <2> QED BY <1>8, <1>9
<1>13. findings = FindingsOf(tree, mappings)
  <2> HIDE DEF graph1, files, status, sound, traced, stored
  <2>1. findings =
          {<<"stale_mapping_anchor", a>> : a \in stored \ ActiveIn(tree)}
          \union {<<"unmapped_anchor", a>> : a \in ActiveIn(tree) \ stored}
          \union (UNION {{<<"broken_seed_path", a, f>> : f \in mappings[a] \ files} :
                           a \in stored \intersect ActiveIn(tree)})
          \union graph1
          \union {<<"untraced_product_file", f>> : f \in IF sound THEN files \ traced ELSE {}}
    BY <1>10, <1>11, <1>12
  <2> QED BY <2>1 DEF FindingsOf, graph1, files, sound, traced, stored
<1> QED BY <1>6, <1>7, <1>13

\* The reads of a whole run are those of LiveScan, so that what is proved of its specification
\* holds of a run too: the engine changes nothing that was read.
THEOREM RunReads == RunSpec => Spec
<1>1. RunInit => Init
  BY DEF RunInit
<1>2. [RunNext]_<<vars, mappings, engine>> => [Next]_vars
  BY DEF RunNext, ReadTree, CallEngine, Compute
<1> QED BY <1>1, <1>2, PTL DEF RunSpec, Spec

\* From the tree to the report, for every set of trees, every configuration and all stored
\* mappings: what a scan of a tree nobody changes reports is what the contract gives for that
\* tree and those mappings, and nothing of it depends on the order of the work.
THEOREM ReportIsOfTree == RunSpec => []ReportExact
BY InitRun, NextRun, ReportHolds, PTL DEF RunSpec

=============================================================================
