----------------------------- MODULE FixtureRun -----------------------------
(***************************************************************************)
(* The fixture runner (src/harness/fixture-runner.ts, fixture-process.ts,  *)
(* fixture-sandbox.ts, fixture-run-artifacts.ts).  A runner selects        *)
(* fixtures, reserves a run directory that other runners compete for, and  *)
(* takes the fixtures one after the other: it copies the repository into a *)
(* sandbox, starts the command there, collects its output until it closes, *)
(* judges it, removes the sandbox and writes a record.                     *)
(*                                                                         *)
(* The command is a process of its own.  It writes, changes the tree and   *)
(* ends when it likes, or never; a timer kills it.  What it wrote may      *)
(* still be in the pipe when it is gone, and its events race the timer.    *)
(***************************************************************************)
EXTENDS FixtureCatalog

CONSTANTS
  Runners,           \* the runners, which share the directory of the runs
  Selections(_),     \* the selections a runner may be started with
  Outputs,           \* the chunks a command writes
  Codes,             \* the exit codes a command may end with
  MaxChunks,         \* bound on the chunks it writes
  TreesAfter(_),     \* the trees the command of a fixture may leave
  Traces,            \* the phase traces a command may write
  MaxFaults          \* bound on the failures of the file system and of spawn

ASSUME BoundsAssumption == MaxChunks \in Nat /\ MaxFaults \in Nat

ASSUME CommandsAssumption ==
  /\ NoValue \notin Nat /\ Codes \subseteq Nat
  /\ \A d \in Entries : \A t \in TreesAfter(d) : IsTree(t)

VARIABLES
  pc,         \* where each runner is
  sel,        \* its selection
  todo,       \* the places of the fixtures it has yet to run; the first is current
  runDir,     \* the number of the run directory it tries or has reserved
  runs,       \* the run directories there are, by label and number
  artifacts,  \* the result.json files, by run directory and fixture
  summaries,  \* the run directories with a run.json
  sandbox,    \* the sandbox of the current fixture
  child,      \* its command, the process
  call,       \* its command, as executeFixtureCommand sees it
  verdict,    \* what has failed for the current fixture, "none" so far
  records,    \* the records of the fixtures that are done
  exitCode,   \* the exit code of the runner
  faults      \* how many failures there were

shared == <<runs, artifacts, summaries>>
run    == <<sel, runDir, records, exitCode>>
vars   == <<pc, run, todo, shared, sandbox, child, call, verdict, faults>>

\* A process: the fixture it was started for, how it ended ("none", "failed" to
\* start, "exit" or "signal"), whether close was emitted, all it has written.
NoChild   == [of |-> NoValue, end |-> "none", code |-> 0, closed |-> FALSE,
              out |-> <<>>, err |-> <<>>, trace |-> "none", events |-> <<>>]
\* A call: what was read, the timer, the temporary directories, the trace's status.
NoCall    == [out |-> <<>>, err |-> <<>>, timer |-> "off", temps |-> {},
              settled |-> FALSE, traced |-> "none", exit |-> NoValue]
NoSandbox == [state |-> "none", pre |-> <<>>, tree |-> <<>>]

Ended == {"done", "killed"}

Fixture(r) == Catalog[Min(todo[r])]

\* renderSelectionLabel: the directory the runs of a selection go to.
Label(s) == <<s.stdoutGoldenOnly, IF s.fixtureId # NoValue THEN <<"fixture", s.fixtureId>>
                                  ELSE IF s.family # NoValue THEN <<"family", s.family>>
                                  ELSE <<"all">> >>
Run(r) == <<Label(sel[r]), runDir[r]>>

Fault   == faults < MaxFaults /\ faults' = faults + 1
NoFault == UNCHANGED faults

Goto(r, l)  == pc' = [pc EXCEPT ![r] = l]
Fails(r, v) == verdict' = [verdict EXCEPT ![r] = v]
Exits(r, c) == Goto(r, "done") /\ exitCode' = [exitCode EXCEPT ![r] = c]

Init ==
  /\ pc = [r \in Runners |-> "select"]
  /\ sel \in {s \in [Runners -> UNION {Selections(r) : r \in Runners}] :
                \A r \in Runners : s[r] \in Selections(r)}
  /\ todo = [r \in Runners |-> {}]
  /\ runDir = [r \in Runners |-> 0]
  /\ runs = {} /\ artifacts = <<>> /\ summaries = {}
  /\ sandbox = [r \in Runners |-> NoSandbox]
  /\ child = [r \in Runners |-> NoChild]
  /\ call = [r \in Runners |-> NoCall]
  /\ verdict = [r \in Runners |-> "none"]
  /\ records = [r \in Runners |-> <<>>]
  /\ exitCode = [r \in Runners |-> NoValue]
  /\ faults = 0

-----------------------------------------------------------------------------
(* The runner: selection and run directory.                                *)

\* parseFixtureRunnerArgs, discoverFixtureEntries, selectFixtureEntries
Select(r) ==
  /\ pc[r] = "select"
  /\ IF SelectionFails(sel[r])
     THEN Exits(r, 1) /\ UNCHANGED todo
     ELSE /\ Goto(r, "list") /\ UNCHANGED exitCode
          /\ todo' = [todo EXCEPT ![r] = runnableEntries(sel[r])]
  /\ UNCHANGED <<sel, runDir, records, shared, sandbox, child, call, verdict, faults>>

\* allocateNextRunDirectoryName: one more than the highest number there is.
ListRuns(r) ==
  /\ pc[r] = "list" /\ Goto(r, "reserve")
  /\ LET numbers == {d[2] : d \in {e \in runs : e[1] = Label(sel[r])}}
     IN  runDir' = [runDir EXCEPT ![r] = Max(numbers \union {0}) + 1]
  /\ UNCHANGED <<sel, records, exitCode, todo, shared, sandbox, child, call, verdict, faults>>

\* Mutation: a run directory that exists by now is taken.
ReserveAnyway(r) ==
  /\ pc[r] = "reserve" /\ Goto(r, "next") /\ NoFault
  /\ runs' = runs \union {Run(r)}
  /\ UNCHANGED <<runDir, exitCode, sel, records, todo, artifacts, summaries,
                 sandbox, child, call, verdict>>

\* reserveNextRunDirectory: mkdir, and the next number when it exists by now.
Reserve(r) ==
  /\ pc[r] = "reserve"
  /\ \/ /\ NoFault /\ Run(r) \in runs
        /\ runDir' = [runDir EXCEPT ![r] = @ + 1]
        /\ UNCHANGED <<pc, exitCode, runs>>
     \/ /\ NoFault /\ Run(r) \notin runs
        /\ runs' = runs \union {Run(r)} /\ Goto(r, "next")
        /\ UNCHANGED <<runDir, exitCode>>
     \/ /\ Fault /\ Exits(r, 1) /\ UNCHANGED <<runDir, runs>>
  /\ UNCHANGED <<sel, records, todo, artifacts, summaries, sandbox, child, call, verdict>>

-----------------------------------------------------------------------------
(* The runner: one fixture (runFixtureEntry).                              *)

Load(r) ==
  /\ pc[r] = "next" /\ todo[r] # {}
  /\ IF ManifestValid(Fixture(r))
     THEN Goto(r, "materialize") /\ Fails(r, "none")
     ELSE Goto(r, "cleanup") /\ Fails(r, "manifest")
  /\ sandbox' = [sandbox EXCEPT ![r] = NoSandbox]
  /\ child' = [child EXCEPT ![r] = NoChild]
  /\ call' = [call EXCEPT ![r] = NoCall]
  /\ UNCHANGED <<run, todo, shared, faults>>

\* materializeFixtureSandbox: a copy of the repository, gone again when it fails.
Materialize(r) ==
  /\ pc[r] = "materialize"
  /\ \/ /\ NoFault /\ Goto(r, "prepare") /\ UNCHANGED verdict
        /\ sandbox' = [sandbox EXCEPT ![r] =
             [state |-> "ready", pre |-> Fixture(r).tree, tree |-> Fixture(r).tree]]
     \/ Fault /\ Goto(r, "cleanup") /\ Fails(r, "sandbox") /\ UNCHANGED sandbox
  /\ UNCHANGED <<run, todo, shared, child, call>>

\* The markers that are injected by a module the command loads first.
PreloadMarkers == {"product_root_enumeration_failure", "map_write_before_rename_failure",
                   "scan_engine_internal_error"}
NeedsPreload(d) == d.manifest.marker \in PreloadMarkers

\* prepareFixturePhaseTraceCapture never throws, but may leave a directory that the
\* command is not told of; prepareFixtureProcessFaultInjection throws, and what there
\* is by then stays.  One failure, of a full disk, may hit both.
Prepare(r) ==
  /\ pc[r] = "prepare"
  /\ LET preload == IF NeedsPreload(Fixture(r)) THEN {"preload"} ELSE {}
         prepared(temps, traced) ==
           call' = [call EXCEPT ![r].temps = temps, ![r].traced = traced]
     IN  \/ /\ NoFault /\ prepared({"trace"} \union preload, "not_emitted")
            /\ Goto(r, "spawn") /\ UNCHANGED verdict
         \/ /\ Fault /\ \E t \in SUBSET {"trace"} : prepared(t \union preload, "setup_failed")
            /\ Goto(r, "spawn") /\ UNCHANGED verdict
         \/ /\ preload # {} /\ Fault
            /\ \E t \in SUBSET {"trace", "preload"} : prepared(t, "none")
            /\ Goto(r, "judge") /\ Fails(r, "harness")
  /\ UNCHANGED <<run, todo, shared, sandbox, child>>

\* spawn fails with an error event, or by throwing before there is a timer.
Spawn(r) ==
  /\ pc[r] = "spawn"
  /\ \/ /\ NoFault /\ Goto(r, "running") /\ UNCHANGED verdict
        /\ child' = [child EXCEPT ![r].of = Fixture(r)]
        /\ call' = [call EXCEPT ![r].timer = "armed"]
     \/ /\ Fault /\ Goto(r, "running") /\ UNCHANGED verdict
        /\ child' = [child EXCEPT ![r].of = Fixture(r), ![r].end = "failed"]
        /\ call' = [call EXCEPT ![r].timer = "armed"]
     \/ /\ Fault /\ Goto(r, "judge") /\ Fails(r, "harness")
        /\ call' = [call EXCEPT ![r].traced = "none"] /\ UNCHANGED child
  /\ UNCHANGED <<run, todo, shared, sandbox>>

\* The data events: the runner takes what is next in a pipe.
ReadOutput(r) ==
  /\ \/ /\ Len(call[r].out) < Len(child[r].out)
        /\ call' = [call EXCEPT ![r].out = Append(@, child[r].out[Len(@) + 1])]
     \/ /\ Len(call[r].err) < Len(child[r].err)
        /\ call' = [call EXCEPT ![r].err = Append(@, child[r].err[Len(@) + 1])]
  /\ UNCHANGED <<pc, run, todo, shared, sandbox, child, verdict, faults>>

\* Mutation: the timer marks the call and waits for the process to end.
TimeoutWaiting(r) ==
  /\ call[r].timer = "armed" /\ child[r].end # "failed"
  /\ call' = [call EXCEPT ![r].timer = "fired"]
  /\ UNCHANGED <<pc, run, todo, shared, sandbox, child, verdict, faults>>

\* The timer marks the call and kills the process, which may have ended already.
Timeout(r) ==
  /\ call[r].timer = "armed" /\ child[r].end # "failed"
  /\ call' = [call EXCEPT ![r].timer = "fired"]
  /\ child' = [child EXCEPT ![r].end = IF @ = "none" THEN "signal" ELSE @]
  /\ UNCHANGED <<pc, run, todo, shared, sandbox, verdict, faults>>

\* What settle disposes of: the preload, and a trace directory that is a capture.
Disposed(r) == {t \in call[r].temps : t = "trace" => call[r].traced = "not_emitted"}

\* Mutation: the directories are dropped with a result, not in a finally.
SettleResolving(r, v, traced, exit) ==
  IF call[r].settled
  THEN UNCHANGED <<pc, call, verdict, exitCode, faults>>
  ELSE /\ call' = [call EXCEPT ![r].settled = TRUE, ![r].traced = traced, ![r].exit = exit,
                               ![r].timer = IF @ = "armed" THEN "off" ELSE @,
                               ![r].temps = IF v = "none" THEN @ \ Disposed(r) ELSE @]
       /\ Fails(r, v) /\ Goto(r, "judge") /\ NoFault /\ UNCHANGED exitCode

\* settle: the first event decides, stops the timer and disposes of the directories.
\* A trace directory that stays is ignored; a preload that stays is an exception in
\* a callback, which nobody catches: it ends the runner.
Settle(r, v, traced, exit) ==
  IF call[r].settled
  THEN UNCHANGED <<pc, call, verdict, exitCode, faults>>
  ELSE \E kept \in SUBSET Disposed(r) :
         /\ IF kept = {} THEN NoFault ELSE Fault
         /\ call' = [call EXCEPT ![r].settled = TRUE, ![r].traced = traced, ![r].exit = exit,
                                 ![r].timer = IF @ = "armed" THEN "off" ELSE @,
                                 ![r].temps = @ \ (Disposed(r) \ kept)]
         /\ Fails(r, v)
         /\ IF "preload" \in kept THEN Exits(r, 1) ELSE Goto(r, "judge") /\ UNCHANGED exitCode

ErrorEvent(r) ==
  /\ child[r].end = "failed" /\ ~call[r].settled
  /\ Settle(r, "process", IF call[r].traced = "not_emitted" THEN "spawn_failed"
                          ELSE call[r].traced, NoValue)
  /\ UNCHANGED <<sel, runDir, records, todo, shared, sandbox, child>>

\* resolveFixturePhaseTrace
TraceStatus(r) ==
  CASE call[r].traced # "not_emitted" -> call[r].traced
    [] child[r].trace = "none"        -> "not_emitted"
    [] child[r].trace = "torn"        -> "invalid"
    [] child[r].trace = "written"     -> "captured"

\* Mutation: exit is listened to, not close: the pipes may hold more.
CloseEventOnExit(r) ==
  /\ child[r].end \in {"exit", "signal"} /\ ~child[r].closed
  /\ child' = [child EXCEPT ![r].closed = TRUE]
  /\ CASE call[r].timer = "fired"  -> Settle(r, "process.timeout", TraceStatus(r), NoValue)
       [] call[r].timer # "fired" /\ child[r].end # "exit" ->
            Settle(r, "process", TraceStatus(r), NoValue)
       [] call[r].timer # "fired" /\ child[r].end = "exit" ->
            Settle(r, "none", TraceStatus(r), child[r].code)
  /\ UNCHANGED <<sel, runDir, records, todo, shared, sandbox>>

\* Mutation: an exit code counts for more than the timer.
CloseEventExitFirst(r) ==
  /\ child[r].end \in {"exit", "signal"} /\ ~child[r].closed
  /\ call[r].out = child[r].out /\ call[r].err = child[r].err
  /\ child' = [child EXCEPT ![r].closed = TRUE]
  /\ IF child[r].end = "exit" THEN Settle(r, "none", TraceStatus(r), child[r].code)
     ELSE Settle(r, "process.timeout", TraceStatus(r), NoValue)
  /\ UNCHANGED <<sel, runDir, records, todo, shared, sandbox>>

\* close comes when the process is gone and both pipes are read to their end; it
\* also follows the error of a process that did not start.
CloseEvent(r) ==
  /\ child[r].end \in {"exit", "signal"} \/ (child[r].end = "failed" /\ call[r].settled)
  /\ ~child[r].closed
  /\ call[r].out = child[r].out /\ call[r].err = child[r].err
  /\ child' = [child EXCEPT ![r].closed = TRUE]
  /\ CASE call[r].timer = "fired"  -> Settle(r, "process.timeout", TraceStatus(r), NoValue)
       [] call[r].timer # "fired" /\ child[r].end # "exit" ->
            Settle(r, "process", TraceStatus(r), NoValue)
       [] call[r].timer # "fired" /\ child[r].end = "exit" ->
            Settle(r, "none", TraceStatus(r), child[r].code)
  /\ UNCHANGED <<sel, runDir, records, todo, shared, sandbox>>

\* The snapshot of the sandbox and the oracles; after an error only the snapshot,
\* whose failure is swallowed.
Judge(r) ==
  /\ pc[r] = "judge" /\ Goto(r, "cleanup")
  /\ \/ verdict[r] # "none" /\ NoFault /\ UNCHANGED verdict
     \/ verdict[r] = "none" /\ NoFault
        /\ Fails(r, FirstFailure(Fixture(r), call[r].exit, call[r].out, call[r].err,
                      sandbox[r].tree, diffFilesystemSnapshots(sandbox[r].pre, sandbox[r].tree)))
     \/ verdict[r] = "none" /\ Fault /\ Fails(r, "harness")
  /\ UNCHANGED <<run, todo, shared, sandbox, child, call>>

\* disposeSandbox: a sandbox that stays fails a fixture that had passed.
Cleanup(r) ==
  /\ pc[r] = "cleanup" /\ Goto(r, "record")
  /\ IF sandbox[r].state = "none" THEN NoFault /\ UNCHANGED <<sandbox, verdict>>
     ELSE \/ /\ NoFault /\ sandbox' = [sandbox EXCEPT ![r].state = "removed"]
             /\ UNCHANGED verdict
          \/ /\ Fault /\ UNCHANGED sandbox
             /\ Fails(r, IF verdict[r] = "none" THEN "sandbox" ELSE verdict[r])
  /\ UNCHANGED <<run, todo, shared, child, call>>

LastFailedPhase(r) ==
  IF verdict[r] = "none" THEN "none"
  ELSE resolveLastFailedPhase(IF call[r].traced = "captured" THEN child[r].events ELSE <<>>)

\* writeFixtureRunArtifacts; what it throws ends the runner.  "by" tells whose
\* result it is, as its times do.
Record(r) ==
  LET record == [by |-> r, fixture |-> Fixture(r), verdict |-> verdict[r], exit |-> call[r].exit,
                 traced |-> call[r].traced, phase |-> LastFailedPhase(r)]
      key     == <<Run(r), Fixture(r).family, Fixture(r).id>>
      written == [k \in DOMAIN artifacts \union {key} |-> IF k = key THEN record ELSE artifacts[k]]
  IN  /\ pc[r] = "record"
      /\ \/ /\ NoFault /\ artifacts' = written
            /\ records' = [records EXCEPT ![r] = Append(@, record)]
            /\ todo' = [todo EXCEPT ![r] = @ \ {Min(@)}]
            /\ Goto(r, "next") /\ UNCHANGED exitCode
         \/ /\ Fault /\ artifacts' \in {artifacts, written}
            /\ Exits(r, 1) /\ UNCHANGED <<records, todo>>
      /\ UNCHANGED <<sel, runDir, runs, summaries, sandbox, child, call, verdict>>

\* The summary of the run, and its exit code.
Summarise(r) ==
  /\ pc[r] = "next" /\ todo[r] = {}
  /\ \/ /\ NoFault /\ summaries' = summaries \union {Run(r)}
        /\ Exits(r, IF \A i \in DOMAIN records[r] : records[r][i].verdict = "none" THEN 0 ELSE 1)
     \/ Fault /\ Exits(r, 1) /\ UNCHANGED summaries
  /\ UNCHANGED <<sel, runDir, records, todo, runs, artifacts, sandbox, child, call, verdict>>

\* The runner dies, at any point.
Interrupt(r) ==
  /\ pc[r] \notin Ended /\ Goto(r, "killed")
  /\ UNCHANGED <<run, todo, shared, sandbox, child, call, verdict, faults>>

-----------------------------------------------------------------------------
(* The command, a process of its own.                                      *)

Alive(r) == child[r].of # NoValue /\ child[r].end = "none"
Silent   == UNCHANGED <<pc, run, todo, shared, call, verdict, faults>>

ChildWrites(r) ==
  /\ Alive(r) /\ Len(child[r].out) + Len(child[r].err) < MaxChunks
  /\ \E c \in Outputs :
       \/ child' = [child EXCEPT ![r].out = Append(@, c)]
       \/ child' = [child EXCEPT ![r].err = Append(@, c)]
  /\ UNCHANGED sandbox /\ Silent

ChildMutates(r) ==
  /\ Alive(r)
  /\ \E t \in TreesAfter(Fixture(r)) : sandbox' = [sandbox EXCEPT ![r].tree = t]
  /\ UNCHANGED child /\ Silent

\* writeFixturePhaseTraceFromEnv, which is told a path when there is a capture.
ChildTraces(r) ==
  /\ Alive(r) /\ call[r].traced = "not_emitted"
  /\ \/ /\ child[r].trace = "none"
        /\ child' = [child EXCEPT ![r].trace = "torn"]
     \/ /\ child[r].trace = "torn"
        /\ \E t \in Traces : child' = [child EXCEPT ![r].trace = "written", ![r].events = t]
  /\ UNCHANGED sandbox /\ Silent

ChildEnds(r) ==
  /\ Alive(r)
  /\ \/ \E c \in Codes : child' = [child EXCEPT ![r].end = "exit", ![r].code = c]
     \/ child' = [child EXCEPT ![r].end = "signal"]
  /\ UNCHANGED sandbox /\ Silent

-----------------------------------------------------------------------------
Harness(r) ==
  \/ Select(r) \/ ListRuns(r) \/ Reserve(r) \/ Load(r) \/ Materialize(r)
  \/ Prepare(r) \/ Spawn(r) \/ Judge(r) \/ Cleanup(r) \/ Record(r) \/ Summarise(r)
Events(r)  == ReadOutput(r) \/ Timeout(r) \/ ErrorEvent(r) \/ CloseEvent(r)
Command(r) == ChildWrites(r) \/ ChildMutates(r) \/ ChildTraces(r) \/ ChildEnds(r)

Next == \E r \in Runners :
  \/ pc[r] \notin Ended /\ (Harness(r) \/ Events(r) \/ Command(r))
  \/ Interrupt(r)

Spec == Init /\ [][Next]_vars

\* The event loop goes on, the timer runs out, and the pipes of a process that is
\* gone come to their end.  Nothing makes the command itself go on.
FairSpec == Spec /\ \A r \in Runners :
  /\ WF_vars(Harness(r)) /\ WF_vars(ReadOutput(r)) /\ WF_vars(Timeout(r))
  /\ WF_vars(ErrorEvent(r)) /\ WF_vars(CloseEvent(r))

-----------------------------------------------------------------------------
(* Properties.                                                             *)

Verdicts == {"none", "manifest", "sandbox", "harness", "process", "process.timeout",
             "exit_code", "stdout", "stderr", "filesystem"}

\* The runners and their fixtures have the states the code gives them.
TypeOK ==
  /\ pc \in [Runners -> {"select", "list", "reserve", "next", "materialize", "prepare",
                         "spawn", "running", "judge", "cleanup", "record"} \union Ended]
  /\ \A r \in Runners : sel[r] \in Selections(r)
  /\ \A r \in Runners : todo[r] \subseteq DOMAIN Catalog /\ verdict[r] \in Verdicts
  /\ runDir \in [Runners -> Nat]
  /\ exitCode \in [Runners -> {0, 1, NoValue}]
  /\ faults \in 0..MaxFaults

\* Whether a record was just written: its command and sandbox are still known.
JustRecorded(r) == pc[r] = "next" /\ records[r] # <<>>
LastRecord(r)   == records[r][Len(records[r])]

\* A command that prints its JSON; a check prints it when it fails too.
PrintsJson(m) == m.exit_code = 0 \/ (m.exit_code = 5 /\ detectSubcommand(m) = "check")

\* A fixture passes only when its own command ended by itself, with the expected
\* exit code, after everything it wrote to its streams and did to the tree was
\* what the fixture expects, whatever of it the runner had read when the process
\* was gone.  And what it expects is what the commands promise: one that only
\* reads leaves the tree alone, one that fails writes nothing to stdout.
PassMeansObserved == \A r \in Runners :
  JustRecorded(r) /\ LastRecord(r).verdict = "none" =>
    LET d == LastRecord(r).fixture
        m == d.manifest
    IN  /\ child[r].of = d /\ child[r].end = "exit" /\ child[r].code = m.exit_code
        /\ StdoutAccepted(d, child[r].out) /\ StderrAccepted(d, child[r].err)
        /\ sandbox[r].state = "removed"
        /\ detectSubcommand(m) \notin {"init", "map", "scaffold"} \/ m.exit_code # 0 =>
             sandbox[r].tree = d.tree
        /\ detectSubcommand(m) \in {"scan", "check", "diff", "explain", "bundle"}
             /\ hasImmediateScanJsonFlag(m) =>
               child[r].out = IF PrintsJson(m) THEN d.golden ELSE <<>>

\* A record names what really failed: "process.timeout" exactly when the timer
\* fired before the process was closed, without an exit code of the product even
\* when it had exited; an oracle only for a command that was observed to exit.
VerdictJustified == \A r \in Runners :
  JustRecorded(r) =>
    LET v == LastRecord(r).verdict
        d == LastRecord(r).fixture
        observed == child[r].of = d /\ child[r].end = "exit" /\ child[r].closed
    IN  /\ v = "process.timeout" <=> call[r].timer = "fired"
        /\ v = "process" => child[r].of = d /\ child[r].end \in {"failed", "signal"}
        /\ v \in {"none", "exit_code", "stdout", "stderr", "filesystem"} => observed
        /\ v = "exit_code" => child[r].code # d.manifest.exit_code
        /\ v = "filesystem" => sandbox[r].tree # d.tree \/ d.manifest.exit_code = 0
        /\ LastRecord(r).exit # NoValue => observed /\ LastRecord(r).exit = child[r].code

\* What a recorded fixture leaves behind: no process and no timer, a sandbox only
\* where the record says so, a preload only when the command could not be started,
\* and nothing at all, the directory of its trace included, unless something failed.
CleanedUp == \A r \in Runners :
  JustRecorded(r) =>
    /\ child[r].of # NoValue => child[r].end # "none" /\ call[r].settled
    /\ call[r].timer # "armed"
    /\ sandbox[r].state = "ready" => LastRecord(r).verdict # "none"
    /\ "preload" \in call[r].temps => LastRecord(r).verdict = "harness"
    /\ faults = 0 => call[r].temps = {} /\ sandbox[r].state # "ready"

\* A result that was written stays as it is: two runners that start together
\* with the same selection never share a run directory.
ResultsKept ==
  [][\A k \in DOMAIN artifacts :
       k \in DOMAIN artifacts' /\ artifacts'[k] = artifacts[k]]_vars

\* What a selection asks for, and where its results go.
Asked(r) == {d \in Entries : /\ sel[r].fixtureId \in {NoValue, d.id}
                             /\ sel[r].family \in {NoValue, d.family}
                             /\ d.repo = "dir" /\ d.hasManifest
                             /\ sel[r].stdoutGoldenOnly => d.manifest.stdout.kind = "golden"}
Result(r, d) == <<Run(r), d.family, d.id>>

\* A runner exits with 0 only when it ran at least one fixture, every fixture that
\* the selection asks for passed, and its results and summary are in its directory.
ExitZeroMeansAllPassed == \A r \in Runners :
  exitCode[r] = 0 =>
    /\ Asked(r) # {} /\ Run(r) \in summaries
    /\ \A d \in Asked(r) :
         Result(r, d) \in DOMAIN artifacts /\ artifacts[Result(r, d)].verdict = "none"

\* Every runner ends, even when a command hangs: the timer kills it.
EveryRunnerEnds == \A r \in Runners : <>(pc[r] \in Ended)
=============================================================================
