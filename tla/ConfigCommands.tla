-------------------------- MODULE ConfigCommands --------------------------
(***************************************************************************)
(* The two commands that write anchormap.yaml, init and map, run by        *)
(* several anchormap processes over one checkout that its user edits.      *)
(*                                                                         *)
(* map is a read-modify-write over the file system: it loads the           *)
(* configuration, stats the seeds, indexes the specs, discovers the        *)
(* product files, builds the graph, and then replaces anchormap.yaml with  *)
(* the configuration it loaded plus one mapping.  Each of these reads is a *)
(* step of its own here, so edits and other commands may fall in between.  *)
(* The write itself is one step that happens or does not: that is what     *)
(* ConfigWrite is proved to implement.                                     *)
(***************************************************************************)
EXTENDS Naturals, FiniteSets, Sequences, SequencesExt

CONSTANTS
  Procs,       \* the commands that are run, one per process
  Anchors,     \* anchor ids
  Files,       \* paths that may be given as --seed
  Requests,    \* the command lines considered, see RequestType
  Checkouts,   \* the states of the working tree considered, see CheckoutType
  Configs,     \* the hand-written configurations considered
  MaxEdits,    \* bound on the edits of the user
  Exclusive,   \* TRUE: nothing else happens while a command runs
  Absent,      \* no anchormap.yaml
  Invalid,     \* an anchormap.yaml that loadConfig rejects
  None         \* no mapping for an anchor

ASSUME MaxEditsAssumption == MaxEdits \in Nat
ASSUME ExclusiveAssumption == Exclusive \in BOOLEAN

VARIABLES
  config,      \* anchormap.yaml: Absent, Invalid, or the mappings it holds
  checkout,    \* specs, product files and roots on disk
  request,     \* the command line of each process
  pc,          \* the next step of each process
  loaded,      \* the configuration map loaded
  code,        \* the exit code, once done
  vouched,     \* history: the mappings a user asked for on valid grounds
  edits        \* how many edits the user has made

vars == <<config, checkout, request, pc, loaded, code, vouched, edits>>

Mappings == [Anchors -> ((SUBSET Files) \ {{}}) \union {None}]

RequestType ==
  [kind : {"init"}] \union
  [kind : {"map"}, anchor : Anchors, seeds : Seq(Files), replace : BOOLEAN]

\* roots: product_root and the spec_roots are directories.  index: the specs
\* can be read and no anchor is declared twice.  tree: whether the product files
\* can be discovered, and then read and parsed into the graph.
CheckoutType ==
  [roots : BOOLEAN,
   index : BOOLEAN,
   specs : [Anchors -> {"active", "draft", "missing"}],
   files : [Files -> {"file", "missing", "inaccessible"}],
   tree  : {"ok", "undiscoverable", "unparsable"}]

ASSUME RequestsAssumption ==
  /\ Requests \subseteq RequestType
  /\ \A r \in Requests : r.kind = "map" => r.seeds # <<>> /\ IsInjective(r.seeds)

\* A seed that cannot be stat'ed lies in a directory discovery cannot enter.
ASSUME CheckoutsAssumption ==
  /\ Checkouts \subseteq CheckoutType
  /\ \A c \in Checkouts : c.tree # "undiscoverable" =>
                             \A f \in Files : c.files[f] # "inaccessible"
ASSUME ConfigsAssumption ==
  /\ Configs \subseteq Mappings \union {Absent, Invalid}
  /\ Absent \notin Mappings /\ Invalid \notin Mappings

InitSteps == {"lstat", "roots"}
MapSteps  == {"load", "seeds", "index", "discover", "graph"}
Busy(p)   == pc[p] \in InitSteps \union MapSteps \union {"write"}

SeedSet(r) == ToSet(r.seeds)

MappingsOf(c) == IF c \in {Absent, Invalid} THEN {}
                 ELSE {<<a, c[a]>> : a \in {b \in Anchors : c[b] # None}}

TypeOK ==
  /\ config \in Mappings \union {Absent, Invalid}
  /\ checkout \in Checkouts
  /\ request \in [Procs -> Requests \union {None}]
  /\ \A p \in Procs : pc[p] # "idle" => request[p] \in Requests
  /\ pc \in [Procs -> InitSteps \union MapSteps \union {"idle", "write", "done"}]
  /\ loaded \in [Procs -> Mappings \union {Absent}]
  /\ code \in [Procs -> 0 .. 4]
  /\ vouched \subseteq Anchors \X (SUBSET Files)
  /\ edits \in 0 .. MaxEdits

Init ==
  /\ config \in Configs
  /\ checkout \in Checkouts
  /\ request = [p \in Procs |-> None]
  /\ pc = [p \in Procs |-> "idle"]
  /\ loaded = [p \in Procs |-> Absent]
  /\ code = [p \in Procs |-> 0]
  /\ vouched = MappingsOf(config)
  /\ edits = 0

Alone == Exclusive => \A q \in Procs : ~Busy(q)

\* A user runs a command.  Arguments that do not parse never get this far.
Start(p, r) ==
  /\ pc[p] = "idle"
  /\ Alone
  /\ request' = [request EXCEPT ![p] = r]
  /\ pc' = [pc EXCEPT ![p] = IF r.kind = "init" THEN "lstat" ELSE "load"]
  /\ UNCHANGED <<config, checkout, loaded, code, vouched, edits>>

Continue(p, step) ==
  /\ pc' = [pc EXCEPT ![p] = step]
  /\ UNCHANGED <<config, checkout, request, loaded, code, vouched, edits>>

Exit(p, c) ==
  /\ pc' = [pc EXCEPT ![p] = "done"]
  /\ code' = [code EXCEPT ![p] = c]
  /\ UNCHANGED <<config, checkout, request, loaded, vouched, edits>>

-----------------------------------------------------------------------------
(* init *)

\* Mutation: an anchormap.yaml that does not load does not count.
InitLstatLoading(p) ==
  /\ pc[p] = "lstat"
  /\ IF config \in {Absent, Invalid} THEN Continue(p, "roots") ELSE Exit(p, 4)

\* validateConfigDoesNotExist: whatever is at the path, valid or not.
InitLstat(p) ==
  /\ pc[p] = "lstat"
  /\ IF config = Absent THEN Continue(p, "roots") ELSE Exit(p, 4)

\* --root and every --spec-root must be directories.
InitRoots(p) ==
  /\ pc[p] = "roots"
  /\ IF checkout.roots THEN Continue(p, "write") ELSE Exit(p, 4)

-----------------------------------------------------------------------------
(* map *)

\* loadConfig, which also stats the roots, then the guard of --replace.
MapLoad(p) ==
  /\ pc[p] = "load"
  /\ IF config \in {Absent, Invalid} \/ ~checkout.roots
     THEN Exit(p, 2)
     ELSE IF config[request[p].anchor] # None /\ ~request[p].replace
     THEN Exit(p, 4)
     ELSE /\ pc' = [pc EXCEPT ![p] = "seeds"]
          /\ loaded' = [loaded EXCEPT ![p] = config]
          /\ UNCHANGED <<config, checkout, request, code, vouched, edits>>

\* Mutation: a seed that cannot be stat'ed is a usage error like a missing one.
SeedVerdictUsage(seeds, files) ==
  IF \E i \in DOMAIN seeds : files[seeds[i]] # "file" THEN 4 ELSE 0

\* validateMapSeedPreconditions: the seeds in the order of the command line,
\* the first that is not a file decides.
SeedVerdict(seeds, files) ==
  LET bad == {i \in DOMAIN seeds : files[seeds[i]] # "file"}
  IN  IF bad = {} THEN 0
      ELSE LET first == CHOOSE i \in bad : \A j \in bad : i <= j
           IN  IF files[seeds[first]] = "inaccessible" THEN 3 ELSE 4

MapSeeds(p) ==
  /\ pc[p] = "seeds"
  /\ LET verdict == SeedVerdict(request[p].seeds, checkout.files)
     IN  IF verdict = 0 THEN Continue(p, "index") ELSE Exit(p, verdict)

\* Mutation: a draft anchor will do.
MapIndexDraft(p) ==
  /\ pc[p] = "index"
  /\ IF ~checkout.index
     THEN Exit(p, 3)
     ELSE IF checkout.specs[request[p].anchor] = "missing"
     THEN Exit(p, 4)
     ELSE /\ pc' = [pc EXCEPT ![p] = "discover"]
          /\ vouched' = vouched \union {<<request[p].anchor, SeedSet(request[p])>>}
          /\ UNCHANGED <<config, checkout, request, loaded, code, edits>>

\* buildSpecIndex, then the anchor must be active: a draft is not enough.
MapIndex(p) ==
  /\ pc[p] = "index"
  /\ IF ~checkout.index
     THEN Exit(p, 3)
     ELSE IF checkout.specs[request[p].anchor] # "active"
     THEN Exit(p, 4)
     ELSE /\ pc' = [pc EXCEPT ![p] = "discover"]
          /\ vouched' = vouched \union {<<request[p].anchor, SeedSet(request[p])>>}
          /\ UNCHANGED <<config, checkout, request, loaded, code, edits>>

\* discoverProductFiles, then every seed must be among them.
MapDiscover(p) ==
  /\ pc[p] = "discover"
  /\ IF checkout.tree = "undiscoverable"
     THEN Exit(p, 3)
     ELSE IF \E f \in SeedSet(request[p]) : checkout.files[f] # "file"
     THEN Exit(p, 4)
     ELSE Continue(p, "graph")

\* loadLocalAliases and buildProductGraph: all that is left to go wrong before
\* the write.
MapGraph(p) ==
  /\ pc[p] = "graph"
  /\ IF checkout.tree = "ok" THEN Continue(p, "write") ELSE Exit(p, 3)

-----------------------------------------------------------------------------

\* Mutations: map drops the other mappings, adds to a mapping instead of replacing
\* it, or leaves out the seeds that another anchor has.
NewConfigDropping(p) ==
  [a \in Anchors |-> IF request[p].kind = "map" /\ a = request[p].anchor
                     THEN SeedSet(request[p]) ELSE None]

NewConfigAppending(p) ==
  IF request[p].kind = "init"
  THEN [a \in Anchors |-> None]
  ELSE [loaded[p] EXCEPT ![request[p].anchor] =
          SeedSet(request[p]) \union (IF @ = None THEN {} ELSE @)]

\* The configuration a command writes: an empty one, or the one it loaded with
\* the mapping of its anchor replaced (buildConfigWithMappedSeedFiles).
NewConfig(p) ==
  IF request[p].kind = "init"
  THEN [a \in Anchors |-> None]
  ELSE [loaded[p] EXCEPT ![request[p].anchor] = SeedSet(request[p])]

Commit(p) ==
  /\ pc[p] = "write"
  /\ config' = NewConfig(p)
  /\ pc' = [pc EXCEPT ![p] = "done"]
  /\ code' = [code EXCEPT ![p] = 0]
  /\ UNCHANGED <<checkout, request, loaded, vouched, edits>>

\* WriteError or InternalError of writeConfigAtomic.
WriteFails(p) ==
  /\ pc[p] = "write"
  /\ Exit(p, 1)

-----------------------------------------------------------------------------
(* the user's editor *)

EditCheckout ==
  /\ edits < MaxEdits
  /\ Alone
  /\ checkout' \in Checkouts \ {checkout}
  /\ edits' = edits + 1
  /\ UNCHANGED <<config, request, pc, loaded, code, vouched>>

EditConfig ==
  /\ edits < MaxEdits
  /\ Alone
  /\ config' \in Configs \ {config}
  /\ vouched' = vouched \union MappingsOf(config')
  /\ edits' = edits + 1
  /\ UNCHANGED <<checkout, request, pc, loaded, code>>

Command(p) ==
  \/ InitLstat(p) \/ InitRoots(p)
  \/ MapLoad(p) \/ MapSeeds(p) \/ MapIndex(p) \/ MapDiscover(p) \/ MapGraph(p)
  \/ Commit(p) \/ WriteFails(p)

Next ==
  \/ \E p \in Procs : (\E r \in Requests : Start(p, r)) \/ Command(p)
  \/ EditCheckout
  \/ EditConfig

Spec == Init /\ [][Next]_vars

-----------------------------------------------------------------------------
(* correctness *)

Commits(p) == pc[p] = "write" /\ pc'[p] = "done" /\ code'[p] = 0
Ends(p)    == pc[p] # "done" /\ pc'[p] = "done"

\* map replaces the mapping of its anchor in the anchormap.yaml that is there
\* when it writes, and no other mapping ("aucun autre mapping n'est modifie").
MapTouchesItsAnchorOnly ==
  [][\A p \in Procs : Commits(p) /\ request[p].kind = "map" =>
       /\ config \in Mappings
       /\ config' = [config EXCEPT ![request[p].anchor] = SeedSet(request[p])]]_vars

\* Without --replace, map never takes the place of an existing mapping.
MapReplacesOnRequest ==
  [][\A p \in Procs : Commits(p) /\ request[p].kind = "map" /\ ~request[p].replace =>
       config \in Mappings /\ config[request[p].anchor] = None]_vars

\* init is create-only: there was no anchormap.yaml when it wrote one.
InitCreatesOnly ==
  [][\A p \in Procs : Commits(p) /\ request[p].kind = "init" => config = Absent]_vars

\* What map writes is sound for the checkout it is written to: the anchor is
\* active, the seeds are product files, and scan has something to analyse.
MapWritesSoundMapping ==
  [][\A p \in Procs : Commits(p) /\ request[p].kind = "map" =>
       /\ checkout.roots /\ checkout.index /\ checkout.tree = "ok"
       /\ checkout.specs[request[p].anchor] = "active"
       /\ \A f \in SeedSet(request[p]) : checkout.files[f] = "file"]_vars

\* The exit codes the failing conditions of the moment call for.
Reasons(p) ==
  LET r == request[p] IN
  IF r.kind = "init"
  THEN {c \in {4} : config # Absent \/ ~checkout.roots}
  ELSE {c \in {2} : config \in {Absent, Invalid} \/ ~checkout.roots}
       \union
       {c \in {3} : \/ ~checkout.index \/ checkout.tree # "ok"
                    \/ \E f \in SeedSet(r) : checkout.files[f] = "inaccessible"}
       \union
       {c \in {4} : \/ \E f \in SeedSet(r) : checkout.files[f] = "missing"
                    \/ checkout.specs[r.anchor] # "active"
                    \/ config \in Mappings /\ config[r.anchor] # None /\ ~r.replace}

\* A command ends with a code that a failing condition calls for; it exits 0, or
\* gets as far as a failing write, only when there is none.
ExitCodeJustified ==
  [][\A p \in Procs : Ends(p) =>
       IF Reasons(p) = {} THEN code'[p] \in {0, 1} ELSE code'[p] \in Reasons(p)]_vars

\* With commands and edits interleaved in any way, a mapping in anchormap.yaml is
\* one a user wrote by hand, or asked map for while its anchor was active: races
\* lose mappings, or bring old ones back, but make none up.
MappingsVouched == MappingsOf(config) \subseteq vouched

\* The contract's "the order of the options has no effect on the result", for
\* the --seed options of a map that has come to check its seeds.
OptionOrderIrrelevant ==
  \A p \in Procs : pc[p] = "seeds" =>
    SeedVerdict(request[p].seeds, checkout.files) =
    SeedVerdict(Reverse(request[p].seeds), checkout.files)
=============================================================================
