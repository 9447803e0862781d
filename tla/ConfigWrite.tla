---------------------------- MODULE ConfigWrite ----------------------------
(***************************************************************************)
(* writeConfigAtomic of src/infra/config-io.ts: the only code that changes *)
(* anchormap.yaml.  Several anchormap processes may run it at once in one  *)
(* repository; nothing locks them out.  Each attempt                       *)
(*   - reserves .anchormap.yaml.<pid>.<counter>.tmp with O_CREAT|O_EXCL,   *)
(*   - writes the rendered bytes to it in one or more write(2) calls,      *)
(*   - fsyncs, closes, and renames it onto anchormap.yaml,                 *)
(* and, when a step throws before the rename, closes, unlinks and checks   *)
(* the absence of its temp file before it returns WriteError, or           *)
(* InternalError when that cleanup cannot be confirmed.                    *)
(*                                                                         *)
(* A file is identified by the attempt that created it, its content by how *)
(* many units of that attempt's bytes it holds.  The file system has two   *)
(* layers: what processes see, and what the disk would give back after a   *)
(* power loss.  Directory changes reach the disk in order (a journal);     *)
(* file bytes reach it when fsync returns, or whenever the kernel likes.   *)
(***************************************************************************)
EXTENDS Naturals, FiniteSets

CONSTANTS
  Writers,      \* the write attempts
  Pids,         \* process ids; containers that share a checkout may share one
  PidOf,        \* the process id an attempt runs under
  Candidates,   \* TEMP_CANDIDATE_COUNT, 100 in the code
  Size,         \* the length of the rendered configuration, in write units
  Initial,      \* the anchormap.yaml that is there before any attempt
  Foreign,      \* a temp file some earlier, killed process left behind
  Absent        \* no file

ASSUME PidAssumption == PidOf \in [Writers -> Pids]
ASSUME CandidatesAssumption == Candidates \in Nat \ {0}
ASSUME SizeAssumption == Size \in Nat \ {0}
ASSUME FilesAssumption ==
  /\ Initial \notin Writers /\ Foreign \notin Writers /\ Absent \notin Writers
  /\ Initial # Absent /\ Foreign # Absent

VARIABLES
  target,          \* the file anchormap.yaml names
  temps,           \* the file each temp path names
  length,          \* units of its bytes each attempt's file holds
  synced,          \* how many of those survive a power loss
  disk,            \* the directory as a power loss would leave it
  pc,              \* where each attempt is in writeConfigAtomic
  counter,         \* the temp candidate each attempt tries or holds
  fd,              \* the attempt's descriptor variable, see below
  cleanupFailure   \* whether cleanupReservedTempFile recorded an error

vars == <<target, temps, length, synced, disk, pc, counter, fd, cleanupFailure>>

Counters  == 0 .. Candidates - 1
TempPaths == Pids \X Counters

\* The variable fd is undefined ("none"), or holds a descriptor the kernel has
\* open ("open") or has already released in a close that failed ("stale").
Descriptors == {"none", "open", "stale"}

Failed == {"WriteError", "InternalError"}
Ended  == Failed \union {"ok", "killed"}
Steps  == {"reserve", "write", "fsync", "close", "rename", "return",
           "cleanupClose", "cleanupUnlink", "cleanupCheck"}

TempOf(w) == <<PidOf[w], counter[w]>>

\* A file is complete when it holds every byte its creator rendered.
Complete(file, bytes) == file \in Writers => bytes[file] = Size

TypeOK ==
  /\ target \in Writers \union {Initial, Absent}
  /\ temps \in [TempPaths -> Writers \union {Foreign, Absent}]
  /\ length \in [Writers -> 0 .. Size]
  /\ synced \in [Writers -> 0 .. Size]
  /\ disk \in [target : Writers \union {Initial, Absent},
               temps  : [TempPaths -> Writers \union {Foreign, Absent}]]
  /\ pc \in [Writers -> Steps \union Ended]
  /\ counter \in [Writers -> 0 .. Candidates]
  /\ fd \in [Writers -> Descriptors]
  /\ cleanupFailure \in [Writers -> BOOLEAN]

\* anchormap.yaml is there or not, and killed processes may have left temp
\* files under any of the names; all that is on disk.
Init ==
  /\ target \in {Initial, Absent}
  /\ temps \in [TempPaths -> {Foreign, Absent}]
  /\ length = [w \in Writers |-> 0]
  /\ synced = [w \in Writers |-> 0]
  /\ disk = [target |-> target, temps |-> temps]
  /\ pc = [w \in Writers |-> "reserve"]
  /\ counter = [w \in Writers |-> 0]
  /\ fd = [w \in Writers |-> "none"]
  /\ cleanupFailure = [w \in Writers |-> FALSE]

Goto(w, step) == pc' = [pc EXCEPT ![w] = step]

\* The catch block: clean up, starting with the descriptor if it is still set.
Catch(w) == Goto(w, IF fd[w] # "none" THEN "cleanupClose" ELSE "cleanupUnlink")

-----------------------------------------------------------------------------
(* reserveTempFile *)

\* Mutation: the open is not exclusive and takes over what is there.
ReserveNotExclusive(w) ==
  /\ pc[w] = "reserve"
  /\ counter[w] < Candidates
  /\ temps' = [temps EXCEPT ![TempOf(w)] = w]
  /\ fd' = [fd EXCEPT ![w] = "open"]
  /\ Goto(w, "write")
  /\ UNCHANGED <<target, length, synced, disk, counter, cleanupFailure>>

\* openSync with O_EXCL creates the candidate.
Reserve(w) ==
  /\ pc[w] = "reserve"
  /\ counter[w] < Candidates
  /\ temps[TempOf(w)] = Absent
  /\ temps' = [temps EXCEPT ![TempOf(w)] = w]
  /\ fd' = [fd EXCEPT ![w] = "open"]
  /\ Goto(w, "write")
  /\ UNCHANGED <<target, length, synced, disk, counter, cleanupFailure>>

\* EEXIST: somebody else's file, leave it and try the next candidate.
Collide(w) ==
  /\ pc[w] = "reserve"
  /\ counter[w] < Candidates
  /\ temps[TempOf(w)] # Absent
  /\ counter' = [counter EXCEPT ![w] = @ + 1]
  /\ UNCHANGED <<target, temps, length, synced, disk, pc, fd, cleanupFailure>>

\* Any other error of openSync, or no candidate left.
ReserveFails(w) ==
  /\ pc[w] = "reserve"
  /\ Goto(w, "WriteError")
  /\ UNCHANGED <<target, temps, length, synced, disk, counter, fd, cleanupFailure>>

-----------------------------------------------------------------------------
(* the try block of writeConfigAtomic *)

\* One writeSync of writeAll: some more units, never none.
Write(w) ==
  /\ pc[w] = "write"
  /\ \E n \in length[w] + 1 .. Size :
       /\ length' = [length EXCEPT ![w] = n]
       /\ Goto(w, IF n = Size THEN "fsync" ELSE "write")
  /\ UNCHANGED <<target, temps, synced, disk, counter, fd, cleanupFailure>>

\* Mutation: no fsync before the rename.
FsyncSkipped(w) ==
  /\ pc[w] = "fsync"
  /\ Goto(w, "close")
  /\ UNCHANGED <<target, temps, length, synced, disk, counter, fd, cleanupFailure>>

Fsync(w) ==
  /\ pc[w] = "fsync"
  /\ synced' = [synced EXCEPT ![w] = length[w]]
  /\ Goto(w, "close")
  /\ UNCHANGED <<target, temps, length, disk, counter, fd, cleanupFailure>>

Close(w) ==
  /\ pc[w] = "close"
  /\ fd' = [fd EXCEPT ![w] = "none"]
  /\ Goto(w, "rename")
  /\ UNCHANGED <<target, temps, length, synced, disk, counter, cleanupFailure>>

\* closeSync throws; the kernel may have released the descriptor all the same,
\* and fd keeps its value.
CloseFails(w) ==
  /\ pc[w] = "close"
  /\ \E state \in {"open", "stale"} : fd' = [fd EXCEPT ![w] = state]
  /\ Catch(w)
  /\ UNCHANGED <<target, temps, length, synced, disk, counter, cleanupFailure>>

\* The commit.
Rename(w) ==
  /\ pc[w] = "rename"
  /\ target' = temps[TempOf(w)]
  /\ temps' = [temps EXCEPT ![TempOf(w)] = Absent]
  /\ Goto(w, "return")
  /\ UNCHANGED <<length, synced, disk, counter, fd, cleanupFailure>>

\* Mutation: something after the rename, an fsync of the directory say, may throw.
ReturnMayFail(w) ==
  /\ pc[w] = "return"
  /\ \E outcome \in {"ok", "WriteError"} : Goto(w, outcome)
  /\ UNCHANGED <<target, temps, length, synced, disk, counter, fd, cleanupFailure>>

Return(w) ==
  /\ pc[w] = "return"
  /\ Goto(w, "ok")
  /\ UNCHANGED <<target, temps, length, synced, disk, counter, fd, cleanupFailure>>

\* Mutation: an attempt that has renamed its file still cleans up.
StepFailsAfterRename(w) ==
  /\ pc[w] \in {"write", "fsync", "rename", "return"}
  /\ Catch(w)
  /\ UNCHANGED <<target, temps, length, synced, disk, counter, fd, cleanupFailure>>

\* writeSync (or a write of zero bytes), fsyncSync or renameSync throws.
StepFails(w) ==
  /\ pc[w] \in {"write", "fsync", "rename"}
  /\ Catch(w)
  /\ UNCHANGED <<target, temps, length, synced, disk, counter, fd, cleanupFailure>>

-----------------------------------------------------------------------------
(* cleanupReservedTempFile *)

\* A stale descriptor cannot be closed again; an open one may fail to close.
CleanupClose(w) ==
  /\ pc[w] = "cleanupClose"
  /\ \E failed \in BOOLEAN :
       /\ fd[w] = "stale" => failed
       /\ cleanupFailure' = [cleanupFailure EXCEPT ![w] = failed]
  /\ Goto(w, "cleanupUnlink")
  /\ UNCHANGED <<target, temps, length, synced, disk, counter, fd>>

\* Unlink removes the file, or fails and records it.
CleanupUnlink(w) ==
  /\ pc[w] = "cleanupUnlink"
  /\ \/ /\ temps' = [temps EXCEPT ![TempOf(w)] = Absent]
        /\ UNCHANGED cleanupFailure
     \/ /\ cleanupFailure' = [cleanupFailure EXCEPT ![w] = TRUE]
        /\ UNCHANGED temps
  /\ Goto(w, "cleanupCheck")
  /\ UNCHANGED <<target, length, synced, disk, counter, fd>>

\* Mutation: a failed cleanup is reported like a clean one.
CleanupCheckIgnored(w) ==
  /\ pc[w] = "cleanupCheck"
  /\ Goto(w, "WriteError")
  /\ UNCHANGED <<target, temps, length, synced, disk, counter, fd, cleanupFailure>>

\* Mutation: the cleanup is retried until the temp file is gone.
CleanupCheckRetrying(w) ==
  /\ pc[w] = "cleanupCheck"
  /\ Goto(w, IF temps[TempOf(w)] # Absent THEN "cleanupUnlink" ELSE "WriteError")
  /\ UNCHANGED <<target, temps, length, synced, disk, counter, fd, cleanupFailure>>

\* The absence check, and the error the attempt returns with.
CleanupCheck(w) ==
  /\ pc[w] = "cleanupCheck"
  /\ LET failed == cleanupFailure[w] \/ temps[TempOf(w)] # Absent
     IN  /\ cleanupFailure' = [cleanupFailure EXCEPT ![w] = failed]
         /\ Goto(w, IF failed THEN "InternalError" ELSE "WriteError")
  /\ UNCHANGED <<target, temps, length, synced, disk, counter, fd>>

-----------------------------------------------------------------------------
(* the world around an attempt *)

\* SIGKILL, or any death of one process, at any point.
Kill(w) ==
  /\ pc[w] \in Steps
  /\ Goto(w, "killed")
  /\ fd' = [fd EXCEPT ![w] = "none"]
  /\ UNCHANGED <<target, temps, length, synced, disk, counter, cleanupFailure>>

\* The kernel writes bytes of a file back on its own.
FlushBytes(w) ==
  /\ synced[w] < length[w]
  /\ synced' = [synced EXCEPT ![w] = length[w]]
  /\ UNCHANGED <<target, temps, length, disk, pc, counter, fd, cleanupFailure>>

\* The kernel writes the directory back on its own: nothing ever fsyncs it.
FlushDirectory ==
  /\ disk # [target |-> target, temps |-> temps]
  /\ disk' = [target |-> target, temps |-> temps]
  /\ UNCHANGED <<target, temps, length, synced, pc, counter, fd, cleanupFailure>>

Running(w) == pc[w] \in Steps /\ ~(pc[w] = "reserve" /\ counter[w] = 0)

\* The machine loses power and restarts: only what is on disk is left, every
\* running process is gone, those not yet started may run after the restart.
PowerLoss ==
  /\ target' = disk.target
  /\ temps' = disk.temps
  /\ length' = synced
  /\ pc' = [w \in Writers |-> IF Running(w) THEN "killed" ELSE pc[w]]
  /\ fd' = [w \in Writers |-> IF Running(w) THEN "none" ELSE fd[w]]
  /\ UNCHANGED <<synced, disk, counter, cleanupFailure>>

Attempt(w) ==
  \/ Reserve(w) \/ Collide(w) \/ ReserveFails(w)
  \/ Write(w) \/ Fsync(w) \/ Close(w) \/ CloseFails(w) \/ Rename(w) \/ Return(w)
  \/ StepFails(w)
  \/ CleanupClose(w) \/ CleanupUnlink(w) \/ CleanupCheck(w)

Next ==
  \/ \E w \in Writers : Attempt(w) \/ Kill(w) \/ FlushBytes(w)
  \/ FlushDirectory
  \/ PowerLoss

Spec == Init /\ [][Next]_vars

\* An attempt is straight-line synchronous code: it runs on until it ends.
Fairness == \A w \in Writers : WF_vars(Attempt(w))
FairSpec == Spec /\ Fairness

-----------------------------------------------------------------------------
(* correctness *)

\* anchormap.yaml is never torn: whoever reads it finds no file, the initial
\* one or every byte of one attempt, also while other attempts are writing.
TargetComplete == Complete(target, length)

\* Nor after a power loss: what the disk would give back as anchormap.yaml is
\* complete in its durable bytes (the fsync before the rename).
DiskTargetComplete == Complete(disk.target, synced)

\* An attempt that returned an error is not, and will not come back as, the
\* content of anchormap.yaml (contract section 9: unchanged on a non-zero code).
FailedNeverVisible ==
  \A w \in Writers : pc[w] \in Failed => target # w /\ disk.target # w

\* When an attempt returns WriteError its temp file is gone.
WriteErrorMeansClean ==
  [][\A w \in Writers :
       (pc[w] # "WriteError" /\ pc'[w] = "WriteError") =>
          \A path \in TempPaths : temps'[path] # w]_vars

\* No step of an attempt, cleanup included, removes or moves a temp file that
\* another process created, even one running under the same process id.
ForeignTempsUntouched ==
  [][\A path \in TempPaths, w \in Writers :
       (Attempt(w) /\ temps[path] \notin {w, Absent}) => temps'[path] = temps[path]]_vars

\* Every attempt ends: partial writes make progress, the candidates are bounded.
EveryAttemptEnds == \A w \in Writers : <>(pc[w] \in Ended)

-----------------------------------------------------------------------------
(* refinement: the store of complete configurations *)

Torn == "torn"

Phase(w) ==
  CASE pc[w] = "return"   -> "committed"
    [] pc[w] \in Failed   -> "failed"
    [] pc[w] = "ok"       -> "ok"
    [] pc[w] = "killed"   -> "killed"
    [] OTHER              -> "pending"

Store == INSTANCE ConfigStore WITH
  store   <- IF Complete(target, length) THEN target ELSE Torn,
  durable <- IF Complete(disk.target, synced) THEN disk.target ELSE Torn,
  phase   <- [w \in Writers |-> Phase(w)]

ImplementsStore == Store!SSpec
=============================================================================
