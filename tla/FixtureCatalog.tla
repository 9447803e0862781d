--------------------------- MODULE FixtureCatalog ---------------------------
(***************************************************************************)
(* What a fixture is to the harness (src/harness): a directory with a      *)
(* manifest, the repository it starts from and the outputs it expects; and *)
(* the oracles that judge what a command did against it.                   *)
(*                                                                         *)
(* A manifest is a record.  Outputs are sequences of chunks, file contents *)
(* are values, a tree is a function from paths (sequences of names) to     *)
(* entries.                                                                *)
(***************************************************************************)
EXTENDS Naturals, Sequences, SequencesExt

CONSTANTS
  Catalog,    \* the directories below fixtures/, by family, then by name
  NoValue     \* an option that is not given, an oracle without a value

Entries == ToSet(Catalog)

\* A tree gives each of its paths an entry, which is no more than its kind and bytes.
IsTree(t) ==
  /\ t = [p \in DOMAIN t |-> t[p]]
  /\ \A p \in DOMAIN t : t[p] = [kind |-> t[p].kind, bytes |-> t[p].bytes]

\* No two directories have the same name in the same family.
ASSUME CatalogAssumption ==
  /\ Catalog \in Seq(Entries) /\ NoValue \notin Entries
  /\ \A i, j \in DOMAIN Catalog :
       Catalog[i].family = Catalog[j].family /\ Catalog[i].id = Catalog[j].id => i = j
  /\ \A d \in Entries : IsTree(d.tree) /\ d.manifest.command \in Seq(STRING)

-----------------------------------------------------------------------------
(* Manifests.                                                              *)

StdoutKinds     == {"ignored", "empty", "exact", "golden"}
StderrKinds     == {"ignored", "empty", "contains", "pattern"}
FilesystemKinds == {"no_mutation", "expected_files"}

ExitCodes == 0..5

NeedsValue(kind) == kind \in {"exact", "contains", "pattern"}

ValuedAsDeclared(oracle) == NeedsValue(oracle.kind) <=> (oracle.value # NoValue)

\* The names of a path that stays below the fixture's repository.
IsRelativePath(path) ==
  /\ path # <<>>
  /\ \A i \in DOMAIN path : path[i] \notin {"", ".", ".."}

FilesWellFormed(oracle) ==
  IF oracle.kind = "expected_files"
  THEN /\ oracle.files # <<>>
       /\ IsInjective(oracle.files)
       /\ \A i \in DOMAIN oracle.files : IsRelativePath(oracle.files[i])
  ELSE oracle.files = <<>>

\* The shape of every key; "keys" says whether the JSON parses into the known
\* keys, with stable identifiers and a cwd inside the repository.
ShapeValid(m) ==
  /\ m.keys
  /\ m.command # <<>>
  /\ m.exit_code \in ExitCodes
  /\ m.stdout.kind \in StdoutKinds /\ ValuedAsDeclared(m.stdout)
  /\ m.stderr.kind \in StderrKinds /\ ValuedAsDeclared(m.stderr)
  /\ m.filesystem.kind \in FilesystemKinds /\ FilesWellFormed(m.filesystem)

Subcommands == {"init", "map", "scan", "scaffold",
                "check", "diff", "explain", "report", "bundle"}
Wrappers == {"npm", "npx", "pnpm", "yarn", "bun", "bunx", "corepack",
             "sh", "bash", "zsh", "env"}
Dashed(token) == token \in {"--json", "--format", "--eval", "-e"}

\* The position of the subcommand: after the launcher, and after the script of node.
SubcommandAt(m) == IF m.command[1] = "node" THEN 3 ELSE 2

LauncherValid(m) ==
  IF m.command[1] = "node"
  THEN Len(m.command) >= 2 /\ ~Dashed(m.command[2])
  ELSE m.command[1] \notin Wrappers

detectSubcommand(m) ==
  LET i == SubcommandAt(m)
  IN  IF i \in DOMAIN m.command /\ m.command[i] \in Subcommands
      THEN m.command[i] ELSE "none"

Arguments(m) == SubSeq(m.command, SubcommandAt(m) + 1, Len(m.command))

hasImmediateScanJsonFlag(m) == Arguments(m) # <<>> /\ Arguments(m)[1] = "--json"

hasArtifactMachineOutput(m) ==
  LET args == Arguments(m)
  IN  IF detectSubcommand(m) = "report"
      THEN \E i \in 1..Len(args) - 1 :
             args[i] = "--format" /\ args[i + 1] \in {"markdown", "junit", "sarif"}
      ELSE Contains(args, "--json")

QuietStderr(m)  == m.stderr.kind \in {"ignored", "empty"}
GoldenStdout(m) == m.stdout.kind = "golden" /\ m.stderr.kind = "empty"
NoMutation(m)   == m.filesystem.kind = "no_mutation"

validateUsageErrorCommandSemantics(m) ==
  m.exit_code = 4 /\ m.stdout.kind = "empty" /\ QuietStderr(m) /\ NoMutation(m)

validateScanJsonSemantics(m) ==
  /\ NoMutation(m)
  /\ IF m.exit_code = 0 THEN GoldenStdout(m)
     ELSE m.stdout.kind = "empty" /\ QuietStderr(m)

validateHumanScanSemantics(m) ==
  m.stdout.kind = "ignored" /\ QuietStderr(m) /\ NoMutation(m)

validateHumanWriteCommandSemantics(m) ==
  /\ m.stdout.kind = "ignored" /\ QuietStderr(m)
  /\ m.exit_code = 0 <=> m.filesystem.kind = "expected_files"

validateArtifactCommandSemantics(m) ==
  /\ NoMutation(m)
  /\ m.exit_code = 5 => detectSubcommand(m) = "check"
  /\ IF m.exit_code \in {0, 5}
     THEN IF hasArtifactMachineOutput(m) THEN GoldenStdout(m)
          ELSE m.stdout.kind = "ignored" /\ QuietStderr(m)
     ELSE m.stdout.kind = "empty" /\ QuietStderr(m)

validateManifestSemantics(m) ==
  LET sub == detectSubcommand(m)
  IN  CASE sub = "none" -> validateUsageErrorCommandSemantics(m)
        [] sub = "scan" /\ hasImmediateScanJsonFlag(m) -> validateScanJsonSemantics(m)
        [] sub = "scan" /\ ~hasImmediateScanJsonFlag(m) -> validateHumanScanSemantics(m)
        [] sub \in {"init", "map", "scaffold"} -> validateHumanWriteCommandSemantics(m)
        [] OTHER -> validateArtifactCommandSemantics(m)

\* The companions of the manifest: an entry of the directory is "file", "dir",
\* "symlink" or "none".
validateFixtureArtifacts(d) ==
  /\ d.repo = "dir"
  /\ d.manifest.stdout.kind = "golden" => d.goldenFile = "file"
  /\ d.manifest.filesystem.kind = "expected_files" =>
       /\ d.expectedRepo = "dir"
       /\ \A i \in DOMAIN d.manifest.filesystem.files :
            d.manifest.filesystem.files[i] \in DOMAIN d.expected

ManifestValid(d) ==
  /\ ShapeValid(d.manifest) /\ LauncherValid(d.manifest)
  /\ validateManifestSemantics(d.manifest)
  /\ d.manifest.id = d.id /\ d.manifest.family = d.family
  /\ validateFixtureArtifacts(d)

-----------------------------------------------------------------------------
(* Selection.  A selection is [fixtureId, family, stdoutGoldenOnly].       *)

Runnable(d) == d.repo = "dir" /\ d.hasManifest

\* The directories the discovery looks at.
Considered(sel) ==
  {d \in Entries : /\ sel.family = NoValue \/ d.family = sel.family
                   /\ sel.fixtureId = NoValue \/ d.id = sel.fixtureId}

FamilyHasRunnableFixtures(d) == \E e \in Entries : e.family = d.family /\ e.repo = "dir"

\* A directory that only looks like a fixture is an error, unless it is without
\* a repository, in a family without any, and was not asked for.
Incomplete(d, sel) ==
  /\ ~Runnable(d)
  /\ d.repo = "dir" \/ d.hasManifest
  /\ d.repo = "dir" \/ d.family = sel.family \/ d.id = sel.fixtureId
       \/ FamilyHasRunnableFixtures(d)

\* The places in the catalogue of what is selected.
selectFixtureEntries(sel) ==
  {i \in DOMAIN Catalog : Catalog[i] \in Considered(sel) /\ Runnable(Catalog[i])}

\* Mutation: a selection that matches nothing is a run of nothing.
SelectionFailsIncomplete(sel) ==
  \/ sel.fixtureId # NoValue /\ sel.family # NoValue
  \/ \E d \in Considered(sel) : Incomplete(d, sel)

\* The selection is refused before anything runs.
SelectionFails(sel) ==
  LET chosen == selectFixtureEntries(sel)
  IN  \/ sel.fixtureId # NoValue /\ sel.family # NoValue
      \/ \E d \in Considered(sel) : Incomplete(d, sel)
      \/ chosen = {}
      \/ sel.fixtureId # NoValue /\ \E i, j \in chosen : i # j
      \/ sel.stdoutGoldenOnly /\ \/ \E i \in chosen : ~ManifestValid(Catalog[i])
                                 \/ \A i \in chosen : Catalog[i].manifest.stdout.kind # "golden"

runnableEntries(sel) ==
  {i \in selectFixtureEntries(sel) :
     sel.stdoutGoldenOnly => Catalog[i].manifest.stdout.kind = "golden"}

-----------------------------------------------------------------------------
(* Oracles.                                                                *)

ExpectedStdout(d) == CASE d.manifest.stdout.kind = "golden" -> d.golden
                       [] d.manifest.stdout.kind = "exact"  -> d.manifest.stdout.value
                       [] OTHER                             -> <<>>

StdoutAccepted(d, out) == d.manifest.stdout.kind = "ignored" \/ out = ExpectedStdout(d)

\* A pattern is the set of the texts it matches; one that does not compile has none.
StderrAccepted(d, err) ==
  CASE d.manifest.stderr.kind = "ignored"  -> TRUE
    [] d.manifest.stderr.kind = "empty"    -> err = <<>>
    [] d.manifest.stderr.kind = "contains" -> Contains(err, d.manifest.stderr.value)
    [] d.manifest.stderr.kind = "pattern"  -> err \in d.manifest.stderr.value

diffFilesystemSnapshots(before, after) ==
  LET both == DOMAIN before \intersect DOMAIN after
  IN  [added       |-> DOMAIN after \ DOMAIN before,
       removed     |-> DOMAIN before \ DOMAIN after,
       typeChanged |-> {p \in both : before[p].kind # after[p].kind},
       changed     |-> {p \in both : /\ before[p].kind = after[p].kind
                                     /\ before[p].bytes # after[p].bytes}]

Touched(diff) == diff.added \union diff.removed \union diff.typeChanged \union diff.changed

\* The declared files and the directories above them.
buildAllowedMutationPathSet(files) ==
  UNION {{SubSeq(files[i], 1, n) : n \in 1..Len(files[i])} : i \in DOMAIN files}

FilesystemAccepted(d, post, diff) ==
  IF d.manifest.filesystem.kind = "no_mutation"
  THEN Touched(diff) = {}
  ELSE LET files == d.manifest.filesystem.files
       IN  /\ Touched(diff) \subseteq buildAllowedMutationPathSet(files)
           /\ \A i \in DOMAIN files :
                /\ files[i] \in DOMAIN post
                /\ post[files[i]].kind = "file"
                /\ post[files[i]].bytes = d.expected[files[i]]

\* The first oracle that fails, in the order they are asserted.
FirstFailure(d, code, out, err, post, diff) ==
  CASE code # d.manifest.exit_code          -> "exit_code"
    [] ~StdoutAccepted(d, out)              -> "stdout"
    [] ~StderrAccepted(d, err)              -> "stderr"
    [] ~FilesystemAccepted(d, post, diff)   -> "filesystem"
    [] OTHER                                -> "none"

-----------------------------------------------------------------------------
(* Phase traces: sequences of events [phase, status].                      *)

Failures(events) == {i \in DOMAIN events : events[i].status = "fail" /\ events[i].phase # "exit"}

Recovered(events, i) ==
  \E j \in i + 1..Len(events) : events[j].phase = events[i].phase /\ events[j].status = "pass"

lastExitStatus(events) ==
  LET exits == {i \in DOMAIN events : events[i].phase = "exit"}
  IN  IF exits = {} THEN "none" ELSE events[Max(exits)].status

\* After a run that exited well only the phases that never passed again count.
resolveLastFailedPhase(events) ==
  LET counted == {i \in Failures(events) :
                    lastExitStatus(events) = "pass" => ~Recovered(events, i)}
  IN  IF counted # {} THEN events[Max(counted)].phase
      ELSE IF lastExitStatus(events) = "fail" THEN "exit" ELSE "none"
=============================================================================
