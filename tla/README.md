# anchormap: models and proofs

`anchormap` is a local, deterministic TypeScript CLI. It reads spec anchors from
Markdown and YAML files, the mappings `anchor -> seed files` from
`anchormap.yaml`, and the TypeScript import graph, and tells which product files
each anchor reaches. This directory holds TLA+ models of the parts of it that
are hard to test, TLC runs over small instances, and TLAPS proofs for every
value of the constants.

Everything runs from this directory:

    tlc -workers 2 -config MCConfigWrite.cfg MCConfigWrite     # a run
    tlapm ConfigWriteProofs.tla                                # the proofs

`PROJECT.json` lists the components, the runs, the mutants that show that each
property can fail, the source lines behind every definition, the hazards, the
findings and the theorems.

## 1. Inventory

### Components

| component (under `src/src/`) | state it keeps | operations | hard behaviour |
|---|---|---|---|
| writer of `anchormap.yaml`, `infra/config-io.ts` `writeConfigAtomic` | the file, its temp file, a descriptor | reserve, write, fsync, close, rename, cleanup | crash or power loss between two steps; failing cleanup; two writers; temp names at their limit |
| loader, `infra/config-io.ts` `loadConfig` | none | read, decode, validate, freeze mappings | none beyond one read |
| `init`, `map`, `cli/commands.ts` + `cli/command-preconditions.ts` | the loaded configuration, until it is written back | check, load, validate, index, discover, parse, write | read-modify-write without a lock; checks that are stale when used; which of several errors wins |
| scan engine, `domain/scan-engine.ts` | mapping states, queue and reached files, findings | stale/invalid/usable, reach, cover, metrics, untraced | cyclic graphs; agreement of states, findings, counters and health |
| spec index, `infra/spec-index.ts` | occurrences by anchor, case index | index the files of `spec_roots`, drafts, duplicates | duplicate and case collisions across walks, draft against active |
| product discovery, `infra/product-files.ts` | pending directories, found files, case index | walk `product_root` | ignore roots, symlinks, a tree that changes under the walk |
| TypeScript graph, `infra/ts-graph.ts` | cache of candidates, edges, findings | parse, classify and resolve specifiers | candidate order, out of scope targets, existence asked at different moments |
| tsconfig aliases, `infra/tsconfig-io.ts` | the `extends` chain | load, inherit, match | cyclic chains, `baseUrl` and `paths` from different files |
| `scaffold`, `infra/scaffold.ts` | the new spec file | collect exports, disambiguate, create-only write | write in place, failing cleanup, colliding generated ids |
| policy, diff, explain, `domain/*-engine.ts` | none | evaluate, compare, explain | percentages at a boundary; files and anchors that come and go between two scans; paths in cyclic graphs |
| artifact readers, `infra/artifact-*.ts`, `policy-io.ts`, `metadata-io.ts` | none | read and validate JSON and YAML | hand-written schemas that must accept all the renderers write; artifacts of an earlier release, edited ones |
| report, bundle, renderers, `domain/*-model.ts`, `render/` | none | aggregate, digest, format | fields that are lost on the way from a view to its JSON |
| arguments, `cli/command-args.ts` | none | parse | eight hand-written loops in which the order of the options must not matter |
| fixture harness, `harness/` | run directory, sandbox, child process, timer, capture files, records | select, reserve, copy, spawn, time out, settle, judge, clean up, record | the close, the error and the timeout of a child race; two runners race for a run directory; failing cleanup |
| release scripts, `scripts/` | | | build tooling, outside the program |

Components interact by calls and by the file system only. `runLiveScan` chains
loader, spec index, discovery, aliases, graph and scan engine; `map` runs the
same chain and then the writer; `check`, `diff`, `explain`, `report` and
`bundle` read the JSON artifacts earlier commands printed. There is no shared
memory and no thread: concurrency is between processes, that is several
anchormap commands, the user's editor, and the kernel, over one working tree.
Only the harness has callbacks (events of a child process, and a timer).

### What makes each component correct

- writer: `anchormap.yaml` is always one complete configuration, after a power
  loss too; an attempt that fails never shows; a WriteError leaves nothing; no
  temp file of another process is touched; every attempt ends.
- `init` and `map`: what is written is sound for the checkout and changes one
  mapping only; `init` creates, and never replaces; the exit code is one the
  failing conditions call for.
- scan engine: the reached files are exactly the reachable ones; each anchor is
  accounted for once; a file is called untraced by the rule of contract 9.3.6
  only; counters agree.
- spec index, discovery, graph and aliases: on a tree nobody changes the outcome,
  the files, the anchors, the aliases and what each import becomes are those of
  the contract; on one that changes, all imports are resolved against one view
  of it; walks and chains end.
- scaffold: create-only; a run leaves the files of others alone; whatever part of
  its output is there, no anchor becomes active by it; ids are given out once, and
  a second run has nothing to add.
- artifacts: what one command writes the others read back unchanged; a check fails
  exactly when the policy is violated; a diff, added to its base, gives its head; an
  explanation is a shortest chain of imports; the order of the options has no effect.
- harness: a fixture passes only on what its command really did, a record names
  what really failed, what stays behind has its reason, two runners never share a directory,
  exit code 0 means that all that was asked for passed, and every runner ends.

## 2. Plan

Done, in this order: `ConfigWrite` with its abstract specification `ConfigStore`
(the only state the program keeps), `ConfigCommands` (which takes the write as
one step, as `ConfigStore` allows), `ScanEngine`, `Scaffold`, `ScaffoldAnchors`,
`RepoTree` with `LiveScan` (all of a scan before the engine), the proofs of these
six, `FixtureCatalog` with `FixtureRun` (the harness) and its proofs, `ScanArtifacts`,
`ArtifactEngines`, `CommandLine` and `ArtifactCommands` (what happens to a scan once
it is made), and the proofs about its policy, diff and explain engines, about what it
writes and about the parsers.

Last, `RunLiveScan`: `LiveScan` and `ScanEngine` as one specification of `runLiveScan`,
the inputs of the engine being a state function of the scan of the tree, and the theorem
that the report is a function of the tree and the mappings.

Bounds stay as in section 3: two actors, three files, two anchors, at most one
event of each kind of failure per actor. Theorems come with each module.

| module | extends | models |
|---|---|---|
| `ConfigStore`, `ConfigWrite` | | the promise of the writer, and the writer |
| `ConfigCommands` | | `init` and `map` |
| `ScanEngine` | | the engine, step by step |
| `RepoTree`, `LiveScan` | `LiveScan` extends `RepoTree` | the reads of a scan |
| `RunLiveScan` | `LiveScan`, with an `INSTANCE` of `ScanEngine` | a scan from the tree to the report |
| `Scaffold`, `ScaffoldAnchors` | | the command with its output; the ids it gives out |
| `FixtureCatalog`, `FixtureRun` | `FixtureRun` extends `FixtureCatalog` | what a fixture is and how it is judged; the runner, its children and their files |
| `ScanArtifacts` | | the closed schemas of the artifacts and their JSON renderers |
| `ArtifactEngines` | `ScanArtifacts` | scan view, policy, diff, explain, report and bundle as functions |
| `CommandLine` | | the argument parsers |
| `ArtifactCommands` | `ArtifactEngines`, `CommandLine` | the six commands that make and read artifacts, and their user |
| `*Proofs` | the module they are about, `TLAPS` | section 4 |

## 3. Modules and runs

### ConfigStore, ConfigWrite: the writer

`ConfigStore` promises: the store is replaced by one complete configuration in
one step, `ok` is reported only after that step, a failed attempt has not made
it, and a power loss may only bring back a configuration that was once there.

`ConfigWrite` is `writeConfigAtomic` (`infra/config-io.ts`), one action per
system call. A file is the attempt that created it together with the number of
units of its content that are in the file (`length`) and on disk (`synced`); the
directory is `target` and `temps`, and `disk` is what a power loss gives back.
`pc`, `counter`, `fd` and `cleanupFailure` are the locals of the function.

| action | code |
|---|---|
| `Reserve`, `Collide`, `ReserveFails` | `reserveTempFile`: `O_EXCL`, EEXIST takes the next of the candidates, anything else ends |
| `Write`, `Fsync`, `Close`, `CloseFails`, `Rename`, `Return` | the `try` block; a failed close may still release the descriptor |
| `StepFails` | any call throws before the rename |
| `CleanupClose`, `CleanupUnlink`, `CleanupCheck` | `cleanupReservedTempFile`, with its three failures |
| `Kill`, `FlushBytes`, `FlushDirectory`, `PowerLoss` | the world: a killed process, write-back, a restart |

The disk model: bytes reach the disk by `fsync` or at any time on their own; the
directory is written back as a whole, in order (a journalled file system). It is
the weakest model under which rename-after-fsync is the usual recipe.

Runs: `config_write` (two attempts with the same process id, two candidates, a
left-over temp file, two write units) checks the safety properties and
`ImplementsStore`, which contains that the target is one complete configuration. Two attempts are enough for every pair of
steps to interleave; with two candidates and a left-over file, exhaustion
happens; two units make a torn file possible. The same process id for both is
the harder case: it makes them race for the same temp names.
It also checks that every attempt ends.
A close that fails and has released the descriptor is closed again by the cleanup, so the
attempt may end in InternalError although nothing stays: the code allows it and no property
forbids it. `WriteErrorMeansClean` and `FailedNeverVisible` hold of such attempts too.

Fairness: weak fairness of each attempt's own steps. The function is
straight-line synchronous code, so the only thing that stops it is the death of
the process (`Kill`, `PowerLoss`), which ends it too. The kernel's write-back has
no fairness: nothing may depend on it.

### ConfigCommands: init and map

State: `config` (what `anchormap.yaml` holds), `checkout` (what the reads of the
working tree return), and per process the command line, the step, the loaded
configuration and the exit code. The action `MapLoad` is `loadConfig` and the
`--replace` guard, `MapSeeds` `validateMapSeedPreconditions`, `MapIndex`
`buildSpecIndex` and the test that the anchor is active, `MapDiscover`
`discoverProductFiles` and the test that the seeds are in it, `MapGraph` the
graph; `InitLstat` and `InitRoots` are the two checks of `init`. `Commit` is the
single step `ConfigStore` allows, `WriteFails` the exit code 1.
`EditCheckout` and `EditConfig` are the user's edits, `MaxEdits` of them.
`Exclusive` chooses whether anything may happen while a command runs.

A checkout says only what the commands can tell apart: whether roots, specs and
product files can be read and whether an anchor or a seed is there. The
`tsconfig` step of `map` is part of `MapGraph`: both end with 3.

| run | instance | shows |
|---|---|---|
| `commands_one` | one process, every checkout, configuration and command line over two anchors and two files | soundness of what is written; one mapping changes; create-only; the exit code |
| `commands_raced` | two processes and two edits, interleaved | no mapping is made up |
| `commands_lost_update`, `commands_option_order` | as above | findings, section 5 |

Only `commands_raced` and `commands_lost_update` exercise the races. What `commands_one`
checks (the soundness of what is written, create-only, the one mapping that changes, the
exit code) is about a command that nothing interrupts: none of it is promised, and some of
it is false, when something does.

A command that nothing interrupts sees one checkout and one configuration, and
`commands_one` takes all of them, so that a second command or an edit before it
would add nothing. Two anchors are needed for "no other mapping", two files for the order of the
seeds, two processes or one process and one edit for a race. The raced runs take
fewer checkouts (`MCRacedCheckouts`): those that differ in one thing a command
checks.

### ScanEngine

`runScanEngine`: `Stale`, `Invalid` and `Reach` are the branches of the loop
over the stored mappings, `Visit` and `Reached` the loop of
`calculateReachedFiles`, `Observe` the loop over the observed anchors, `Cover`
`buildTraceabilityMetrics`, `Conclude` `untracedProductFileFindings` and the
health. The engine walks sorted lists and its results are sets; the model takes
mappings and queued files in any order, so the runs also show that the order
does not matter. A target of an edge need not be a product file: the graph keeps
any existing path of a supported name in the product scope, a directory called
`x.ts` too, and `calculateReachedFiles` drops it (`Targets`). Findings of the
graph are one kind here, since the engine only asks whether they degrade.

The run `scan` takes two families of inputs: every graph over three files (cycles,
self loops, all 512 edge sets) with one mapping, a path of three files being the
shortest in which one hop is not enough; and two anchors in every state (active,
draft, missing; mapped or not; seeds whole or broken), on a few graphs, with and
without a finding of the graph. `ScanEnds` assumes weak
fairness of `Next`: the engine is one synchronous call.

### RepoTree, LiveScan

`LiveScan` is `runLiveScan` (`cli/commands.ts`) up to the engine: `loadConfig`,
`buildSpecIndex`, `discoverProductFiles`, `loadLocalAliases` and
`buildProductGraph`, one step per call of the file system. The tree may turn into
another one between any two steps (`Checkout`): nothing locks it, and a scan of a
large repository takes seconds.

`RepoTree` holds what does not change: the paths and what the code computes from
their text (parent, lower case form, extension, the path that a specifier and a
suffix give) as constant functions, the candidates of an import, and the contract
as operators over one tree: `ProductFilesOf`, `OccurrencesOf`, `AliasesOf`,
`Classified`, `EdgesOf`, `GraphFindingsOf`, `Supported`. A tree gives each path an entry (what `lstat` and
`stat` return) and each file its text, which is no more than the anchors, the
imports or the three fields of a tsconfig it holds, or `Broken`. A link leads to a
file and a dirlink to an empty directory: enough to see that the walks refuse
both, while the existence checks and the check of the roots go through them.

| state | code |
|---|---|
| `roots`, `pending`, `here`, `found` | the loops of `buildSpecIndex`, `discoverSpecFiles`, `discoverProductFiles` |
| `seen` | `inspectedPathCaseIndex`, one for all walks |
| `occurrences`, `index` | `anchorOccurrences`, `indexAnchorOccurrences` |
| `chain`, `next`, `aliases` | `files` and `currentPath` of `readTsconfigChain`, `resolutionAliases` |
| `imports`, `left`, `resolving`, `tried`, `firstOut`, `firstUnsupported`, `cache` | `parsedFiles`, the loops of `resolveSupportedStaticEdges` and of `resolveSupportedStaticEdge` with its locals, `candidateExistenceCache` |
| `edges`, `graphFindings` | what the engine is given |

| action | code |
|---|---|
| `LoadConfig` | `loadConfig`, in one step |
| `StartSpecRoot`, `Inspect`, `Refuse`, `Enumerate` | the walks: `lstat`, the case index, `readdir` |
| `ReadSpecs`, `ReadSpec`, `IndexSpecs` | the files of one root, then the index |
| `EndDiscovery`, `LookForTsconfig`, `ReadTsconfig`, `NormalizeAliases` | `loadLocalAliases` |
| `ReadProduct`, `StartResolving`, `Resolve`, `Try`, `GiveUp`, `Finish` | `buildProductGraph`; `Try` is one turn of the loop over the candidates |
| `Checkout` | the user |

The code walks, reads and resolves in sorted order. The model takes any order,
so the run also shows that nothing but the wording of the error depends on
it. The three first reads of the configuration and its roots are one step.

The run is `live_scan`, described with `RunLiveScan`, which it goes on to.

### RunLiveScan

All of `runLiveScan`: a step is one of `LiveScan`, the call of `runScanEngine`
(`CallEngine`), or one of `ScanEngine` on its own variables. The input of the engine is
not a variable here but the state function `EngineInput`: the mappings of the configuration
with `index`, `product`, `edges` and the importers of `graphFindings`, as the call in
`cli/commands.ts` passes them. The module writes out what the contract promises of the whole
command, over a tree and the stored mappings: `LedTo` (9.3.5), `CountingIn` (6.11) and
`FindingsOf` (11.4, 9.3.6), which use none of the engine's variables.

The run `live_scan` starts on each of 45 trees over 20 paths and lets it turn once
into any other, before the engine is called. 19 are supported: nested directories, an ignored directory that
files import, a directory with the name of a product file, drafts of active
anchors, aliases inside and outside `product_root`, `baseUrl` and `paths` from
different files of the chain, and four in which nothing degrades the scan but the
specs, so that untraced files are reported. The others each have one thing that is not:
a link, a case collision within a walk and between a spec root and an ignored
root, a file that does not parse, a candidate that cannot be tested, a cycle of
extends, an alias that leaves the repository. One change is enough for two reads to
disagree. A walk meets at most three levels, and a chain at most two files, the
shortest with inheritance and with a cycle. One anchor has two seeds, the second a product
file of some of the trees only, and the other no mapping: with the trees in which they are
active, drafts or nowhere, all five kinds of findings occur. Two mappings that
count at once, and those of other shapes, are in the runs of `ScanEngine`. Everything but `OneView` and
`RunEnds` is about a tree that has not changed: no document says what a
scan of a changing tree reports.

Fairness: weak fairness of `OneCall`, every step but a change of the tree, since a run is
one synchronous call. The user has none.

### Scaffold

A run of `scaffold`, from `runScaffoldCommand` to the system calls of
`writeScaffoldOutputCreateOnly`, against other runs, their left-overs and the
user. The output is created under its final name and filled in place, so that
every prefix of it is a spec file to whoever indexes the specs then.

A file of a run is what the run that made it has written so far: whether the draft
marker is in it (`draft`), the last complete section (`upto`) and the id that a
heading cut in its middle reads as (`cut`; `CutsOf` says which ids that may be,
among them the id of another export that is a prefix of this one). `specs` is the
set of active anchors of all other specs. `pc`, `observed`, `plan`, `fd` and
`cleanupFailure` are the locals of the run.

| action | code |
|---|---|
| `Start`, `Check` | dispatch; `loadConfig`, `validateScaffoldOutputPreconditions` |
| `Index`, `Build` | `buildSpecIndex`; `discoverProductFiles`, `buildScaffoldMarkdown` |
| `Open`, `OpenFails` | `openExclusive`, with `created` still false when it throws |
| `Write`, `Fsync`, `Close`, `CloseFails`, `StepFails` | the `try` block; a write may be short |
| `CleanupClose`, `CleanupUnlink` | `cleanupFailedScaffoldWrite` |
| `Kill`, `Edit`, `Publish`, `Remove`, `Create` | the world; the user publishes a file by taking the marker out |

Abstractions: the spec index is read in one step; the errors of the loader and of
the readers of other files are a nondeterministic `Refuse`; a write makes
progress, since `writeAll` loops for ever on writes of zero bytes (a hazard, and
unlike `config-io`); there is no power loss, since the write in place
promises nothing across one; the user edits the specs only while no run is under way.

The run `scaffold` takes two runs, two outputs, two exports one of whose ids is a
prefix of the other, and two edits (both outputs published, which is what it takes
for an anchor to be active twice). Overlapping runs are the point of
`OthersOutputsUntouched`: the other run makes the output between the check and the open,
and the cleanup unlinks by name. `IndexNeverBreaks` is about the behaviours in
which no two runs overlap; the others are those of `scaffold_raced`, a finding.

### ScaffoldAnchors

The ids themselves: `Group`, `Ordinal` and `FinalId` are
`disambiguateScaffoldAnchorCollisions`, `Unobserved` and `Kept` the two filters
on observed anchors, `Outcome` the errors of `validateScaffoldCandidates`. An
export is its base id, its kind and its place in the sorted order; an id is a
sequence of segments, and the suffix of a kind is a segment like any other, so
that a base may look like one. The specs grow by what a run writes, and
`EditCode` replaces the code by any other. `scaffold_anchors` takes up to three
exports (the smallest group with two of a kind and one of another, or two of a
kind and a base that looks like a suffix) with every set of observed ids.

### FixtureCatalog, FixtureRun

The harness that runs the fixtures of the repository (`harness/`).
`FixtureCatalog` holds what does not change: what makes a manifest valid
(`ShapeValid`, `LauncherValid`, `validateManifestSemantics` with its six kinds of
command, `validateFixtureArtifacts`), which fixtures a selection takes and when it
is refused (`SelectionFails`), the oracles (`FirstFailure`, in the order they are
asserted) and what a phase trace says (`resolveLastFailedPhase`).

`FixtureRun` is a number of runners over the directory of the runs. Each goes
through its fixtures in order; the command of a fixture is a process of its own.

| action | code |
|---|---|
| `Select`, `ListRuns`, `Reserve` | `selectFixtureEntries`; `allocateNextRunDirectoryName`; `mkdir`, and the next number when the directory exists by now |
| `Load`, `Materialize`, `Prepare`, `Spawn` | the manifest; the copy of the repository; trace directory and preload; `spawn`, which fails with an event or throws |
| `ReadOutput`, `Timeout`, `ErrorEvent`, `CloseEvent` | the callbacks; `Settle` is `settle`, where the first one decides |
| `Judge`, `Cleanup`, `Record`, `Summarise` | snapshot and oracles; `disposeSandbox`; `result.json`; the summary and the exit code |
| `ChildWrites`, `ChildMutates`, `ChildTraces`, `ChildEnds` | the command: it writes to its pipes, changes its sandbox, writes its trace in two steps and ends, or never does |
| `Interrupt` | the runner is killed |

`child` is what the process did, `call` what `executeFixtureCommand` has seen of
it; the properties compare the two. Output that was written and not read yet is the
difference between `child[r].out` and `call[r].out`. `faults` counts the failures of
the file system and of `spawn`, `MaxFaults` of them.

`settle` removes the directory of the trace and that of the preload, and both calls may
fail. A trace directory that stays is ignored ("best-effort",
`disposeFixturePhaseTraceCapture`), so a fixture may pass and leave it; a preload that
stays is an exception in a callback, which nobody catches, and the runner is gone with
exit code 1 before it records anything. When the spawn throws, or the preparation fails
half way, `settle` is never called and the directories stay. `CleanedUp` says just that:
of a recorded fixture no process and no timer is left; a sandbox only if the record names
a failure; a preload only if the command could not be started; and nothing at all, the
directory of the trace included, unless some call failed.

Abstractions: chunks of output are values, and a pattern is the set of outputs it
matches; a fixture whose marker needs a tree that some file systems cannot hold (two
names that differ in case) is taken as one that can be materialised, as on Linux; one
fault may leave both temporary directories of a command; nobody removes run
directories meanwhile; the command starts no process that keeps its pipes open after
it has ended. The trace loader that tests inject is not used by the runner.

The run `fixture_run` takes a runner that goes through families of two fixtures (a
scan with a golden output, one that needs a preload, a scaffold with expected files,
one whose manifest is refused), while another one competes for the same run
directory, two chunks of output, one fault and a kill anywhere. Two chunks are what
it takes for the first to be read and the second to be in the pipe when the process
is gone; two fixtures for one to see what another left. One runner at a time has
children, since runners share nothing but the run directories.

Fairness: weak fairness of each runner's own steps and of its callbacks. The
event loop of a live process goes on, a timer that is armed fires, and a pipe whose
only writer is gone comes to its end. The command has none: that a runner ends is due
to the timer.

### ScanArtifacts, ArtifactEngines, CommandLine, ArtifactCommands

What becomes of a scan: `scan --json`, `check`, `diff`, `explain`, `report` and
`bundle`, which hand artifacts to each other through files.

`ScanArtifacts` holds the readers (`IsScan`, `IsPolicyResult`, `IsDiff`,
`IsMetadata`, `IsPolicy`: the closed schemas with their versions and enumerations)
and the renderers (`RenderScan`, ...: which fields are written, by name). A JSON
object is a function from its keys; `Wrong` stands for any value that fits no field.
`ArtifactEngines` has the functions between them: `ScanOf`, the view of a finished
scan in canonical order; `evaluatePolicy`; `diffScanResults`; `explainAnchor` and
`explainFile`; `buildSuggestedActions`; `buildArtifactBundle`. `CommandLine` is the
parsers, over tokens.

`ArtifactCommands` composes them. A command is one step, since it is one synchronous
call that writes all of its output or none; the shell empties the file its output is
sent to before it starts, so that a command that reads it finds nothing there. Between
two commands the user may change the project (to any of its other states, which is
what `init`, `map` and `scaffold` amount to here), edit an artifact, or write it in
another layout.

| state | meaning |
|---|---|
| `project` | what a scan would see, or the exit code it ends with |
| `file` | what each artifact file holds: JSON in canonical form, in another layout, or none |
| `written` | the view whose rendering a file holds as long as nobody edits it |
| `outcome` | the arguments as parsed, the exit code and the JSON of the last command |

Abstractions: anchors, paths and texts are numbers in their canonical order, so that
sorting is real and the comparison of bytes is not modelled. What is sorted is said by
its ranks (`Sorted`, `OrderedBy`: each element stands after those that come before it,
equal ones as they came) and what is filtered by its places (`Select`), which define
the same lists as `SortSeq` and `SelectSeq` and can be reasoned about. A JSON object has
finitely many keys (`IsObject`). A digest is the bytes it is of; the grammars of JSON and YAML and the escaping of strings are left out; the
outputs for people are one value that is no JSON.

The run `artifact_commands` has three states of a project: one that scans clean, with
two chains of imports that end in the same file; one with another scope, every kind of
finding and files that are covered by another anchor or by none; and one that cannot
be scanned. It starts with a base that a release before schema 5 made. Three steps
change files or the project: a change, a new scan and an edit of either scan before a
diff; or a scan, a check and a diff before a bundle. One edit may damage or rewrite any
part of an artifact. Every command line of `MCArgLists` may be given at any point; they
hold options in different orders, missing, repeated and without their value. The prompt
may be the last state, hence no deadlock check.

`WhatIsWrittenIsRead` is about artifacts that nobody edited; `GateExact`, `DiffReconstructs`
and the reading of damaged files are about edited ones too. `GateExact` counts the
coverage from the files of the scan, not from its summary, and compares before
rounding: that a percentage rounded down meets an integer threshold exactly when the
quotient does is what it shows. `DiffReconstructs` says of two scans, whoever wrote them,
that the diff added to its base gives its head (`DiffRight`): the anchors, mappings, files
and findings, their states, the covered files, the covering anchors and the imports of each
file. The seeds, the reached files and the place of an anchor are no part of a diff
(`diff-engine.ts` does not compare them), so neither the diff nor the property tells of
their changes. The totals are those of the lists where the tool vouches for both scans,
since their counters are then its own. `ExplainShortest` says that a path is a shortest
one, and not which of several of the same length the canonical order picks.

## 4. Theorems

All theorems are about `Spec` with no bound on the constants beyond the named
assumptions, which TLC evaluates in the runs.

`ConfigWriteProofs` (from `PidAssumption`, `CandidatesAssumption`,
`SizeAssumption`, `FilesAssumption`). No property is inductive alone: that the
target is complete follows from what the attempt that is about to rename has
done. `IInv` says where an attempt must be for a temp path to name its file
(`TempsHeld`, `TempsOwned`), how many bytes are in the file and on disk at each
step (`BytesInOrder`), and that only an attempt past its rename is in the target,
now or on disk (`CommittedDurable`). Each action has a lemma. From `IInv`:
`TypeCorrect`, `NeverTorn` for the target now and `NeverTornByPowerLoss` for the target a
restart would bring back, `FailureInvisible`, `WriteErrorClean`,
`ForeignUntouched`, and `Refinement`: the writer implements `ConfigStore`, each
step being a step of the store or a stutter.

`ConfigCommandsProofs`. `TInv` gives the types with where each process can be for
its command line. `VInv` adds that every configuration a process holds, and the
mapping it plans to add once its anchor was found active, are vouched for; hence
`NothingInvented`, for every interleaving. `XInv` is for `Exclusive`: one command
at a time is busy, and what it has checked so far still holds (`ChecksHold`);
hence the five theorems about commands that run alone. For `AloneExitCodeJustified` an
exit with a code needs a failing condition of that code (`ExitHasReason`) and the write
needs that no condition fails (`WriteHasNoReason`); the code of the seeds is that of the
first bad one, which the least of a set of places gives (`LeastOf`).

`ScanEngineProofs`. `RInv` says that the queue is between the seeds and the
reachable files and that the targets of a reached file are queued; when the queue
is empty the reached set is closed, so it is the smallest closed set. `AInv` ties
the states, the observed states and the findings together. Hence `ReachesExactly`
for every graph of any size, `AccountsForAnchors` and `TracesByTheRule`. `MInv` says
that the counters are those of the walks from the time they are taken. `CountersAgree`
then compares sums over the anchors with sizes of sets of files: a fold over a finite set
is what it is on every smaller set plus one element (`SumExists`, `TotalUnique`,
`TotalShared`), and a covered file is counted once by its only anchor or at least twice by
several.

`LiveScanProofs` (from `PathsAssumption`, `EntriesAssumption`, `TextsAssumption`,
`ScanAssumption`) has five parts. `LInv` is the types and, as long as the tree has not
changed, `Right`: a file of a walk that has not been found yet lies at or below a pending
path or below the directory to enumerate (`OnTheWay`; `WayDown` gives the child
that the next `readdir` finds), nothing is pending that the walk should not meet,
and what earlier parts have concluded stays true. Hence `FindsProductFiles`,
`IndexesAnchors` and `CacheIsView`, for every tree.

`KeepsOneView` is for a tree that changes at any time. An import is `Settled` when its
candidates have all been asked about, or those up to the first target; `Stable` says that
its result then outlives everything the cache may still learn. `VInv` says that the graph
is exactly the results of the resolved imports, all settled, together with the calls, and,
inside the loop over the candidates, that `firstOut` and `firstUnsupported` are the first
of the candidates tried so far.

`ScanOutcomeIsExact`: a scan of a tree nobody changes ends with the exit code that the
contract gives for that tree, on every tree. `OInv` joins the two invariants with
`OutcomeRight`: a scan that ended early has its reason in the tree (`ExitRight`), and as
long as it runs, and when it ends well, `Alright` holds of all it has done: what it has
enumerated and read so far could be read (`SeenRight`, `TextsRight`), whatever it has not
seen is still to come (`CoverRight`), the chain of tsconfig files is a prefix of the one
in the tree and its aliases are those of the contract (`TscRight`), the imports are those
of the files (`ImportsRight`), and no candidate asked about was denied (`Tested`). TLC
checked `OutcomeRight` as an invariant of the run `live_scan` before it was proved. Three
arguments carry it. The chain that the contract defines by recursion is the one read, by
induction on its length; the base directory that a config hands on to those that extend
it, by induction from the end of the chain. And that a candidate is denied exactly if the
walk of the product tree would have failed is shown by the topmost denied path above it:
the directories above that one are entered, so the walk meets it.

`GraphIsOfTree`: on such a tree the edges and the findings are those of contract 10.2, in
whatever order the imports are resolved. With the aliases and the imports right (`OInv`)
and the cache true of the tree, a settled import has the result that the paths of the tree
give it: either all its candidates have been asked, or the first target has, and no
candidate before it is one (`SettledResult`). At the end every import is resolved, and a
file outside the product has no edges (`EdgesInside`). With `FindsProductFiles` and
`IndexesAnchors`, all that the engine is handed is thus a function of the tree.

`RunReads`: the reads of a whole run of `RunLiveScan` are behaviours of `LiveScan`, so all of
this holds of a run, which is what `live_scan` checks. `ReportIsOfTree` puts the engine on top, for every set of stored mappings (`RunAssumption`:
finitely many anchors,
and mappings as `loadConfig` accepts them). `RunInv` is the invariant of
`LiveScan` with the alternative that the engine has not been called (`NotCalled`), or that
the scan of the tree is over and the invariant `AInv` of `ScanEngineProofs` holds of the
engine's variables (`Called`); that module is instantiated with the refinement mapping of
the model (`Proved`), its assumption follows from those of the tree (`EngineAssumption`),
and its lemmas on initial states and steps are used as they stand. A scan that is over
leaves the tree alone and nobody changes it any more (`OverIsOver`), so the input of the
engine stays what it was when it was called (`HandsOverInput`, `CallsEngine`). In the end
`ReportReached` and `ReportFindings`, of `ScanEngineProofs`, give the report as a function
of the input, `HandsOverTree` gives the input as a function of the tree, and what is
reachable among all paths is reachable among the product files (`LedToReachable`).

`ScaffoldProofs`. `SInv` is the types with `Placed` (a run that holds a descriptor
is the maker of the file at its output, and no other file is its own) and
`Filled` (what is in the file is between nothing and the plan, and the marker
is there before the first anchor is). Hence `WriteErrorGone`, `OkComplete`,
`OutputsUntouched` and `ActiveKept`. `EInv` is for behaviours without overlapping
runs: the plans of the runs whose files are there do not meet, since the later run
has seen all that is left of the earlier one; hence `AloneIndexable`.

`ScaffoldAnchorsProofs`, for any number of exports. `AInv` says what the specs
hold after each outcome. The proof of `CollidesAcrossBasesOnly` is that ordinals
count a finite set of places, so that two exports of a kind in a group get
different ones.

`FixtureRunProofs` (from `CatalogAssumption`, `CommandsAssumption`), for any number of
runners and fixtures. `PhaseInv` says in which phases a command may exist and that its
call has settled before anything is judged; with it the callbacks that come late find
nothing to do (`Quiet`). `VerdictInv` carries what the oracles saw, of a command that
was read to its end, from the judge to the record; `Oracles` and `Promises` turn it
into what a pass means, by the manifest's kind of command. `OwnersInv` gives a run
directory one owner, whose remaining fixtures have no result there, so that a record
never replaces one; `ResultsInv` gives the fixtures that are done their results. Hence
`ResultsAreKept`, `VerdictsAreJustified`, `PassesAreObserved`
and `ExitZeroIsEarned`. `LeftInv` says of every phase which temporary directories there
may be, and what must have failed for one to be there after `settle`; hence
`RunnersCleanUp`. `FixtureRunTypeCorrect` adds `NumbersInv`: some number bounds
those of the run directories there are, so that the highest of a label exists and the
next one is a number.

`ArtifactProofs` (from `ArtifactsAssumption`, `CommandsAssumption`, `ProjectsAssumption`),
for every project, policy, edit and history of the files. `CInv` says that the scans the
tool vouches for count right; of the others the program believes what their summary says,
and so do the properties. `ChecksAreExact`: an element of a finite set in a strict order
is at its rank (`Ranks`, `InRankFacts`), so sorting and filtering keep the number of
violations; for a whole limit, `c * 100 \div n < t` exactly if `c * 100 < t * n`; the four
kinds of violation are there exactly when the policy says so, and the exit code follows
from the order of the handler's checks. `DiffsAccountForAll`: a sorted set lists its set;
a record of a change is there once for each key whose values differ; findings are
compared as tuples of numbers whose lexicographic order is strict and total
(`TupleOrder`), so ordering them loses and doubles none; and the covered files of both
scans fall into the parts that the diff lists, over which they are counted
(`CoverageAdds`).

`ArtifactsAreReadBack` has two halves. The readers accept what the commands make: the scan
of any project (`ScanRead`), the result of any policy on a scan that is accepted
(`CheckRead`) and the difference of any two accepted scans (`DiffRead`) have the fields,
the types, the order and the counters that `IsScan`, `IsPolicyResult` and `IsDiff` ask
for. And what is accepted is written as it is: the writers pick fields that an exact
object has anyway (`ScanSame`, `PolicyResultSame`, `DiffSame`). `RInv` joins `CInv` with
`Kept`, by which an artifact that nobody touched is in its file as it was printed and is
acceptable to its reader; it is needed because a check or a diff is acceptable only if the
scans it read were, whoever wrote those. `DigestsMatch` is the part about the bundle. The
theorem has one hypothesis, `WrongIsNoFunction`: `Wrong`, the value that stands where
something of another type is asked for, is no list and no object. That is what it means,
but a quantifier over all sets is not for TLC to evaluate, so it is a hypothesis and no
`ASSUME`; the model value of the run satisfies it.

`ExplanationsAreShortest`. The second part of `CInv` (`Explains`) says of the scans the
tool vouches for that what an anchor reaches is in every set of files that has its seeds
and is closed under the imports the scan lists; it follows from the turns of
`ReachedFrom`, by induction on their number (`ReachedBy`). `Walked` is the invariant of
the breadth-first walk of an explanation: the queue lists the files that have a path, in
the order of the lengths of these paths; what the files looked at import has a path at
most one longer; and nothing in the queue is more than one farther than the next file to
look at. A turn keeps it (`TurnKeepsWalked`). There are as many turns as files that can be
queued, so at the end all of the queue has been looked at, and along any path of n files
the length found grows by at most one with each of them. A file that is reached therefore
has a path, and none is shorter.

`OptionsOrderIsFree`, for every list of arguments. The parsers are loops, and the
property has none, so the proof goes through what the loop makes of the arguments from the
k-th on, written without recursion (`ReadFrom`): refused unless every argument fits
(`Fits`: an option, a flag without a value behind it, or the value of the option right
before it; nothing twice that may not be), and otherwise each option with the values behind
the places it stands at, in the order of those (`Meant`). `ReadFrom` satisfies the equation
of the loop (`ReadIsLoop`): at a place where the loop takes one or two arguments, that
place comes before all others of the same option, so it is the first in their sorted list
and shifts the rest by one (`SortedWithFirst`, `ReadWithOne`). The equation has one
solution only, by induction on the arguments that are left (`LoopIsUnique`); so the
function that `Parsed` chooses is `ReadFrom` (`ParsedIsRead`). `FitsIsWellFormed` and
`ReadMeans` turn that into the words of the property, and a lemma per command shows that
what the parser requires after its loop, and what the validation of paths, anchor and
seeds adds, is `Accepted`. The hypothesis `RefusedIsNoFunction` is of the same kind as
`WrongIsNoFunction`: `Refused` is no function from options to values.
`CommandsAssumption` says that arguments are sequences of strings, as `process.argv` is.

Induction. No theorem of the libraries that takes an operator as a parameter can be used
here. Where an argument is by induction it is stated of a set (the numbers, or the
subsets of a finite set, for which the claim holds) and refuted at a minimal element
outside it, which `NatLessThanWellFounded`, `FS_StrictSubsetOrderingWellFounded` and
`WFMin` give. Recursion that is defined through `SortSeq`, `SelectSeq` or `:>` stays
opaque to the prover, which is why the model does without them where it is proved about.

The type invariants are theorems only, and so are `NeverTorn`, `AnchorsExact`,
`ViewOfTree`, `MapReplacesOnRequest` and `EveryExportRepresented`: what they say is proved for every instance, and no run repeats it.

Model-checked only: liveness (`EveryAttemptEnds`, `ScanEnds`, `RunEnds`, `EveryRunnerEnds`),
which is out of the prover's reach, and the runs that find violations. Every other property
that a run checks is a theorem.

## 5. Findings

All are disagreements between the documentation and what the code does.

- `commands_lost_update`: two overlapping `map` commands, or a `map` and an edit:
  the later write removes the mapping of the earlier one (contract.md:846). Run
  alone, `map` keeps the rule, and this is proved.
- `commands_option_order`: the first bad `--seed` decides between the exit codes
  3 and 4, so the order of the options has an effect (contract.md:717).
- `scaffold_raced`: of two overlapping runs with different outputs the later one
  gives out anchors that the output of the earlier one already holds
  (contract.md:983). Once both are published no command can index the specs.

Of the same kind as the first, and without a run of its own: two overlapping `init`
commands. The second replaces what is there by then, though `init` is create-only
(contract.md:784); `InitCreatesOnly` is checked and proved for commands that run alone.

Contract.md:725 and :731 say that no temp file, and no output of `scaffold`, outlives
a non-zero exit. Neither writer can keep that when the unlink of its cleanup
fails; both then return InternalError. What holds, and is checked and proved, is
that a WriteError leaves nothing (`WriteErrorMeansClean`, `WriteErrorMeansGone`),
and that a left-over output of `scaffold` makes no anchor active.

## 6. Not modelled

- YAML, Markdown and JSON grammars, the TypeScript parser, the spelling of paths and
  anchor ids, the comparison of strings by their UTF-8 bytes, the escaping of strings:
  sequential code over text, which ordinary tests reach.
- The outputs for people and for other tools (human, Markdown, JUnit, SARIF): layout.
  What a report is made of is in `Report`, and no property is about it.
- Release scripts (`scripts/`): the release gate and its aggregator check reports that
  other tools wrote, once and in a fixed order. They are no part of the program and keep
  nothing between two checks.
- Crashes and power loss outside `writeConfigAtomic`: nothing else the program writes
  is promised to survive one. A killed `scaffold` and a killed runner are modelled.
- Performance budgets and the benchmark harness.
