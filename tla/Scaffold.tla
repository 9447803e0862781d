----------------------------- MODULE Scaffold -----------------------------
(***************************************************************************)
(* The scaffold command (runScaffoldCommand of src/cli/commands.ts and     *)
(* src/infra/scaffold.ts): a new Markdown spec with one draft anchor for   *)
(* each export that no spec mentions yet.                                  *)
(*                                                                         *)
(* Unlike anchormap.yaml the output is written in place: it is created     *)
(* with O_EXCL under its final name, below a spec root, and then filled.   *)
(* Whatever indexes the specs meanwhile, or after the process died, reads  *)
(* what is there so far.  The first line makes every anchor of the file a  *)
(* draft; the user publishes the file by taking that line out.             *)
(*                                                                         *)
(* Anchor ids are numbers: their order is the order of the sections.       *)
(***************************************************************************)
EXTENDS Naturals

CONSTANTS
  Procs,      \* the runs of scaffold
  Paths,      \* the paths that may be given as --output
  Exports,    \* the anchor ids of the exports, distinct numbers
  CutsOf,     \* the ids the heading of an export reads as when its end is cut
  MaxEdits,   \* bound on the edits of the user
  User,       \* a file the user wrote
  Absent      \* no file

\* A cut id is a prefix of the whole, so that it comes earlier, or the whole.
ASSUME ExportsAssumption == Exports \subseteq Nat \ {0}
ASSUME CutsAssumption ==
  /\ CutsOf \in [Exports -> SUBSET Exports]
  /\ \A a \in Exports : \A b \in CutsOf[a] : b <= a
ASSUME NamesAssumption ==
  User \notin Procs /\ Absent \notin Procs /\ User # Absent /\ Absent \notin Paths
ASSUME MaxEditsAssumption == MaxEdits \in Nat

VARIABLES
  dir,             \* the file at each path: the run that made it, User, Absent
  draft,           \* whether the file of a run starts with the draft marker
  upto,            \* the last section the file of a run holds completely
  cut,             \* the id its cut last heading reads as, 0 for none
  specs,           \* the active anchors of the other specs
  pc,              \* where each run is
  output,          \* its --output
  observed,        \* the anchors its spec index holds
  plan,            \* the anchors it generates
  fd,              \* its descriptor, as in ConfigWrite
  cleanupFailure,  \* whether its cleanup recorded an error
  edits            \* how many edits the user has made

files == <<dir, draft, upto, cut>>
local == <<output, observed, plan, fd, cleanupFailure>>
vars  == <<files, specs, pc, local, edits>>

Failed == {"ConfigError", "UnsupportedRepoError", "UsageError",
           "WriteError", "InternalError"}
Ended  == Failed \union {"ok", "killed"}
Steps  == {"check", "index", "build", "open", "write", "fsync", "close",
           "cleanupClose", "cleanupUnlink"}
Busy(p) == pc[p] \in Steps
Alone   == \A p \in Procs : ~Busy(p)

TypeOK ==
  /\ dir \in [Paths -> Procs \union {User, Absent}]
  /\ draft \in [Procs -> BOOLEAN]
  /\ upto \in [Procs -> Exports \union {0}]
  /\ cut \in [Procs -> Exports \union {0}]
  /\ specs \subseteq Exports
  /\ pc \in [Procs -> Steps \union Ended \union {"idle"}]
  /\ output \in [Procs -> Paths \union {Absent}]
  /\ \A p \in Procs : pc[p] # "idle" => output[p] \in Paths
  /\ observed \in [Procs -> SUBSET Exports]
  /\ plan \in [Procs -> SUBSET Exports]
  /\ \A p \in Procs : pc[p] \in {"open", "write"} => plan[p] # {}
  /\ fd \in [Procs -> {"none", "open", "stale"}]
  /\ cleanupFailure \in [Procs -> BOOLEAN]
  /\ edits \in 0 .. MaxEdits

Init ==
  /\ dir \in [Paths -> {User, Absent}]
  /\ draft = [p \in Procs |-> FALSE]
  /\ upto = [p \in Procs |-> 0]
  /\ cut = [p \in Procs |-> 0]
  /\ specs \in SUBSET Exports
  /\ pc = [p \in Procs |-> "idle"]
  /\ output = [p \in Procs |-> Absent]
  /\ observed = [p \in Procs |-> {}]
  /\ plan = [p \in Procs |-> {}]
  /\ fd = [p \in Procs |-> "none"]
  /\ cleanupFailure = [p \in Procs |-> FALSE]
  /\ edits = 0

\* The anchors the spec index reads in the file at a path.
Read(q) ==
  IF dir[q] \in Procs
  THEN {a \in plan[dir[q]] : a <= upto[dir[q]]} \union ({cut[dir[q]]} \ {0})
  ELSE {}
ActiveIn(q) == IF dir[q] \in Procs /\ ~draft[dir[q]] THEN Read(q) ELSE {}

\* observedAnchors: drafts count as well as active anchors.
Observed == specs \union UNION {Read(q) : q \in Paths}
Active   == specs \union UNION {ActiveIn(q) : q \in Paths}

\* An anchor active in two places: buildSpecIndex has no index to give.
Duplicated ==
  \E q \in Paths : ActiveIn(q) \intersect
    (specs \union UNION {ActiveIn(r) : r \in Paths \ {q}}) # {}

Goto(p, step) == pc' = [pc EXCEPT ![p] = step]

\* Nothing is on disk yet: the command returns an error.
Refuse(p, error) ==
  /\ Goto(p, error)
  /\ UNCHANGED <<files, specs, local, edits>>

-----------------------------------------------------------------------------
(* runScaffoldCommand up to the write *)

Start(p, q) ==
  /\ pc[p] = "idle"
  /\ output' = [output EXCEPT ![p] = q]
  /\ Goto(p, "check")
  /\ UNCHANGED <<files, specs, observed, plan, fd, cleanupFailure, edits>>

\* loadConfig, and validateScaffoldOutputPreconditions: below a spec root, in a
\* directory that exists, and not there yet.
Check(p) ==
  /\ pc[p] = "check"
  /\ \/ Refuse(p, "ConfigError")
     \/ Refuse(p, "UsageError")
     \/ /\ dir[output[p]] = Absent
        /\ Goto(p, "index")
        /\ UNCHANGED <<files, specs, local, edits>>

\* Mutation: drafts are not looked at.
IndexActiveOnly(p) ==
  /\ pc[p] = "index"
  /\ \/ Refuse(p, "UnsupportedRepoError")
     \/ Refuse(p, "UsageError")
     \/ /\ ~Duplicated
        /\ observed' = [observed EXCEPT ![p] = Active]
        /\ Goto(p, "build")
        /\ UNCHANGED <<files, specs, output, plan, fd, cleanupFailure, edits>>

\* buildSpecIndex, and the case collision of the output with a spec path.
Index(p) ==
  /\ pc[p] = "index"
  /\ \/ Refuse(p, "UnsupportedRepoError")
     \/ Refuse(p, "UsageError")
     \/ /\ ~Duplicated
        /\ observed' = [observed EXCEPT ![p] = Observed]
        /\ Goto(p, "build")
        /\ UNCHANGED <<files, specs, output, plan, fd, cleanupFailure, edits>>

\* discoverProductFiles and buildScaffoldMarkdown.
Build(p) ==
  /\ pc[p] = "build"
  /\ \/ Refuse(p, "UnsupportedRepoError")
     \/ /\ Exports \subseteq observed[p]
        /\ Refuse(p, "UsageError")
     \/ /\ ~(Exports \subseteq observed[p])
        /\ plan' = [plan EXCEPT ![p] = Exports \ observed[p]]
        /\ Goto(p, "open")
        /\ UNCHANGED <<files, specs, output, observed, fd, cleanupFailure, edits>>

-----------------------------------------------------------------------------
(* writeScaffoldOutputCreateOnly *)

\* openSync with O_CREAT and O_EXCL.
Open(p) ==
  /\ pc[p] = "open"
  /\ dir[output[p]] = Absent
  /\ dir' = [dir EXCEPT ![output[p]] = p]
  /\ fd' = [fd EXCEPT ![p] = "open"]
  /\ Goto(p, "write")
  /\ UNCHANGED <<draft, upto, cut, specs, output, observed, plan, cleanupFailure, edits>>

\* Mutation: created is set before the open.
OpenFailsCreated(p) ==
  /\ pc[p] = "open"
  /\ Goto(p, "cleanupUnlink")
  /\ UNCHANGED <<files, specs, local, edits>>

\* It throws, because the path exists or for any other reason: created is still
\* false, the cleanup has nothing to do.
OpenFails(p) ==
  /\ pc[p] = "open"
  /\ Refuse(p, "WriteError")

\* What a write may leave in the file: the marker, the sections up to k, and a
\* piece of the next section, whose heading then reads as c.
Rest(p, k) == {a \in plan[p] : a > k}
FirstOf(S) == {a \in S : \A b \in S : a <= b}
CutsAfter(p, k) == {0} \union UNION {CutsOf[a] : a \in FirstOf(Rest(p, k))}

\* Mutation: what one write(2) takes is taken for everything.
WriteOnce(p) ==
  /\ pc[p] = "write"
  /\ \E k \in plan[p] \union {0} : \E c \in CutsAfter(p, k) :
       /\ upto' = [upto EXCEPT ![p] = k]
       /\ cut' = [cut EXCEPT ![p] = c]
       /\ draft' = [draft EXCEPT ![p] = TRUE]
       /\ Goto(p, "fsync")
  /\ UNCHANGED <<dir, specs, local, edits>>

\* Mutation: the marker comes last.
WriteMarkerLast(p) ==
  /\ pc[p] = "write"
  /\ \E k \in plan[p] \union {0} : \E c \in CutsAfter(p, k) :
       /\ k > upto[p] \/ (k = upto[p] /\ c > cut[p])
       /\ upto' = [upto EXCEPT ![p] = k]
       /\ cut' = [cut EXCEPT ![p] = c]
       /\ draft' = [draft EXCEPT ![p] = Rest(p, k) = {}]
       /\ Goto(p, IF Rest(p, k) = {} THEN "fsync" ELSE "write")
  /\ UNCHANGED <<dir, specs, local, edits>>

\* One write(2) of writeAll, which may be short.  One that ends inside the marker
\* changes nothing a reader can tell, and is left out.
Write(p) ==
  /\ pc[p] = "write"
  /\ \E k \in plan[p] \union {0} : \E c \in CutsAfter(p, k) :
       /\ ~draft[p] \/ k > upto[p] \/ (k = upto[p] /\ c > cut[p])
       /\ k >= upto[p]
       /\ upto' = [upto EXCEPT ![p] = k]
       /\ cut' = [cut EXCEPT ![p] = c]
       /\ draft' = [draft EXCEPT ![p] = TRUE]
       /\ Goto(p, IF Rest(p, k) = {} THEN "fsync" ELSE "write")
  /\ UNCHANGED <<dir, specs, local, edits>>

Fsync(p) ==
  /\ pc[p] = "fsync"
  /\ Goto(p, "close")
  /\ UNCHANGED <<files, specs, local, edits>>

Close(p) ==
  /\ pc[p] = "close"
  /\ fd' = [fd EXCEPT ![p] = "none"]
  /\ Goto(p, "ok")
  /\ UNCHANGED <<files, specs, output, observed, plan, cleanupFailure, edits>>

\* A close that throws may have released the descriptor; fd stays set.
CloseFails(p) ==
  /\ pc[p] = "close"
  /\ \E d \in {"open", "stale"} : fd' = [fd EXCEPT ![p] = d]
  /\ Goto(p, "cleanupClose")
  /\ UNCHANGED <<files, specs, output, observed, plan, cleanupFailure, edits>>

StepFails(p) ==
  /\ pc[p] \in {"write", "fsync"}
  /\ Goto(p, "cleanupClose")
  /\ UNCHANGED <<files, specs, local, edits>>

\* cleanupFailedScaffoldWrite: the close of a descriptor already released fails.
CleanupClose(p) ==
  /\ pc[p] = "cleanupClose"
  /\ \E failed \in IF fd[p] = "open" THEN BOOLEAN ELSE {TRUE} :
       cleanupFailure' = [cleanupFailure EXCEPT ![p] = failed]
  /\ Goto(p, "cleanupUnlink")
  /\ UNCHANGED <<files, specs, output, observed, plan, fd, edits>>

\* Mutation: an unlink that fails is not reported.
CleanupUnlinkIgnored(p) ==
  /\ pc[p] = "cleanupUnlink"
  /\ dir' \in {dir, [dir EXCEPT ![output[p]] = Absent]}
  /\ Goto(p, IF cleanupFailure[p] THEN "InternalError" ELSE "WriteError")
  /\ UNCHANGED <<draft, upto, cut, specs, local, edits>>

\* The unlink is by name.  It throws for a name that is gone too.
CleanupUnlink(p) ==
  /\ pc[p] = "cleanupUnlink"
  /\ \/ /\ dir[output[p]] # Absent
        /\ dir' = [dir EXCEPT ![output[p]] = Absent]
        /\ Goto(p, IF cleanupFailure[p] THEN "InternalError" ELSE "WriteError")
        /\ UNCHANGED cleanupFailure
     \/ /\ cleanupFailure' = [cleanupFailure EXCEPT ![p] = TRUE]
        /\ Goto(p, "InternalError")
        /\ UNCHANGED dir
  /\ UNCHANGED <<draft, upto, cut, specs, output, observed, plan, fd, edits>>

-----------------------------------------------------------------------------
(* the world around the runs *)

Kill(p) ==
  /\ Busy(p)
  /\ Goto(p, "killed")
  /\ fd' = [fd EXCEPT ![p] = "none"]
  /\ UNCHANGED <<files, specs, output, observed, plan, cleanupFailure, edits>>

\* The user works on the specs while no scaffold runs: takes the marker out of a
\* whole output, or removes a file, or writes one.
Edit ==
  /\ edits < MaxEdits /\ Alone
  /\ edits' = edits + 1
  /\ UNCHANGED <<upto, cut, specs, pc, local>>

Publish(q) ==
  /\ Edit
  /\ dir[q] \in Procs /\ pc[dir[q]] = "ok"
  /\ draft[dir[q]]
  /\ draft' = [draft EXCEPT ![dir[q]] = FALSE]
  /\ UNCHANGED dir

Remove(q) ==
  /\ Edit
  /\ dir[q] # Absent
  /\ dir' = [dir EXCEPT ![q] = Absent]
  /\ UNCHANGED draft

Create(q) ==
  /\ Edit
  /\ dir[q] = Absent
  /\ dir' = [dir EXCEPT ![q] = User]
  /\ UNCHANGED draft

Run(p) ==
  \/ Check(p) \/ Index(p) \/ Build(p)
  \/ Open(p) \/ OpenFails(p) \/ Write(p) \/ Fsync(p) \/ Close(p) \/ CloseFails(p)
  \/ StepFails(p) \/ CleanupClose(p) \/ CleanupUnlink(p)

Next ==
  \/ \E p \in Procs : (\E q \in Paths : Start(p, q)) \/ Run(p) \/ Kill(p)
  \/ \E q \in Paths : Publish(q) \/ Remove(q) \/ Create(q)

Spec == Init /\ [][Next]_vars

-----------------------------------------------------------------------------
(* correctness *)

\* A run removes and fills no file but its own, also when another run has made
\* the output between its check and its open, and it cleans up after that.
OthersOutputsUntouched ==
  [][\A p \in Procs : Run(p) =>
       /\ \A q \in Paths : dir[q] \notin {p, Absent} => dir'[q] = dir[q]
       /\ \A r \in Procs \ {p} : upto'[r] = upto[r] /\ cut'[r] = cut[r]]_vars

\* Whatever part of an output is there, while it is written, after a kill or a
\* failed cleanup, no run changes which anchors are active.
ActiveAnchorsKept ==
  [][\A p \in Procs : Run(p) \/ Kill(p) => Active' = Active]_vars

\* A run that reports success has left every section it planned.
OkMeansComplete ==
  \A p \in Procs : pc[p] = "ok" => cut[p] = 0 /\ \A a \in plan[p] : a <= upto[p]

\* A run that returns WriteError has left nothing of its own.
WriteErrorMeansGone ==
  \A p \in Procs : pc[p] = "WriteError" => \A q \in Paths : dir[q] # p

\* Runs one at a time never generate an anchor twice: the user may publish what
\* they made without making the specs impossible to index.
OneAtATime == \A p, r \in Procs : Busy(p) /\ Busy(r) => p = r
IndexNeverBreaks == []OneAtATime => []~Duplicated

\* The contract's "an id that is observed in the current specs is ignored", of
\* the specs that are there when the output is created.
GeneratesNewOnly ==
  [][\A p \in Procs : Open(p) => plan[p] \intersect Observed = {}]_vars

=============================================================================
