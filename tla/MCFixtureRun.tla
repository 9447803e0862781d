--------------------------- MODULE MCFixtureRun ---------------------------
(* A small catalogue for FixtureRun: fixtures of the kinds of command the  *)
(* harness tells apart, one with a manifest it refuses and one directory   *)
(* that is no fixture.                                                     *)
EXTENDS FixtureRun

CONSTANTS NONE, a, b, r1

File(v) == [kind |-> "file", bytes |-> v]
Dir     == [kind |-> "dir", bytes |-> a]

\* A repository with src and src/m; specs/n is made by scaffold.
RepoFile == <<"src", "m">>
NewFile  == <<"specs", "n">>
Repo     == (<<"src">> :> Dir) @@ (RepoFile :> File(a))
Written  == Repo @@ (<<"specs">> :> Dir) @@ (NewFile :> File(a))
Misfiled == Repo @@ (<<"specs">> :> Dir) @@ (NewFile :> File(b))
Altered  == [Written EXCEPT ![RepoFile] = File(b)]

NoFiles  == [kind |-> "no_mutation", files |-> <<>>]
NewFiles == [kind |-> "expected_files", files |-> << NewFile >>]
Plain(k) == [kind |-> k, value |-> NONE]

FamilyOf(id) == IF id \in {"preloaded", "scanned"} THEN "G" ELSE "F"
Manifest(id, command, code, out, err, fs) ==
  [keys |-> TRUE, id |-> id, family |-> FamilyOf(id), command |-> <<"node", "cli">> \o command,
   exit_code |-> code, stdout |-> Plain(out), stderr |-> Plain(err), filesystem |-> fs,
   marker |-> IF id = "preloaded" THEN "scan_engine_internal_error" ELSE "none"]
Directory(m) ==
  [id |-> m.id, family |-> m.family, repo |-> "dir", hasManifest |-> TRUE, manifest |-> m,
   goldenFile |-> "file", golden |-> <<a>>, expectedRepo |-> "dir",
   expected |-> NewFile :> a, tree |-> Repo]

ScanJson  == Directory(Manifest("scanned", <<"scan", "--json">>, 0, "golden", "empty", NoFiles))
Preloaded == Directory(Manifest("preloaded", <<"scan", "--json">>, 1, "empty", "ignored", NoFiles))
Scaffolds == Directory(Manifest("scaffolds", <<"scaffold">>, 0, "ignored", "empty", NewFiles))
\* A scan that would let anything through: the manifest is refused.
Loose     == Directory(Manifest("loose", <<"scan", "--json">>, 0, "ignored", "ignored", NoFiles))
Notes     == [Directory(Manifest("notes", <<"scan">>, 0, "ignored", "ignored", NoFiles))
                EXCEPT !.repo = "none", !.hasManifest = FALSE]

MCCatalog == <<Loose, Notes, Scaffolds, Preloaded, ScanJson>>

One(id)  == [fixtureId |-> id, family |-> NONE, stdoutGoldenOnly |-> FALSE]
Every(f) == [fixtureId |-> NONE, family |-> f, stdoutGoldenOnly |-> FALSE]
Goldens(s) == [s EXCEPT !.stdoutGoldenOnly = TRUE]

\* r1 goes through whole runs, r2 through one it is done with soon: it competes
\* for the run directory of the same selection, or of another.
MCSelections(r) ==
  IF r = r1 THEN {One("loose"), One("notes"), One("preloaded"), Every("F"),
                  Goldens(Every("F")), Goldens(Every("G")), Goldens(One("scaffolds"))}
  ELSE {One("loose")}

MCTreesAfter(d) == IF d = Scaffolds THEN {Written, Misfiled, Altered} ELSE {Altered}

MCTraces == { <<[phase |-> "render", status |-> "fail"], [phase |-> "exit", status |-> "fail"]>> }
=============================================================================
