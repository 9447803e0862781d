------------------------- MODULE ConfigWriteProofs -------------------------
(***************************************************************************)
(* Proofs about ConfigWrite for any number of write attempts, any sharing  *)
(* of process ids, any candidate count and any configuration size, with    *)
(* kills and power losses at any point.                                    *)
(***************************************************************************)
EXTENDS ConfigWrite, TLAPS

\* An attempt between its reservation and its rename or unlink holds its temp
\* file under the candidate path it reserved.
Holding(w) == pc[w] \in {"write", "fsync", "close", "rename",
                         "cleanupClose", "cleanupUnlink"}

TempsHeld ==
  \A w \in Writers :
    /\ pc[w] \in Steps \ {"reserve"} => counter[w] \in Counters
    /\ Holding(w) => temps[TempOf(w)] = w

\* A file is only ever found under the one path its attempt reserved, and not
\* before it did; on disk as well, where a power loss would bring it back.
TempsOwned ==
  \A w \in Writers, path \in TempPaths :
    (temps[path] = w \/ disk.temps[path] = w) =>
      path = TempOf(w) /\ pc[w] # "reserve"

\* What has been written and made durable at each step of the try block.
BytesInOrder ==
  \A w \in Writers :
    /\ pc[w] \in {"fsync", "close", "rename"} => length[w] = Size
    /\ pc[w] \in {"close", "rename"} => synced[w] = Size

\* Only a file whose bytes are all durable is ever named anchormap.yaml.
CommittedDurable ==
  \A w \in Writers :
    (target = w \/ disk.target = w) =>
      /\ length[w] = Size /\ synced[w] = Size
      /\ pc[w] \in {"return", "ok", "killed"}

IInv == TypeOK /\ TempsHeld /\ TempsOwned /\ BytesInOrder /\ CommittedDurable

-----------------------------------------------------------------------------

\* The path an attempt holds is a temp path.
LEMMA TempOfType ==
  ASSUME NEW w \in Writers, counter[w] \in Counters
  PROVE  TempOf(w) \in TempPaths
  BY PidAssumption DEF TempOf, TempPaths

\* At the start nothing is held, and only foreign files have temp names.
LEMMA InitIInv == Init => IInv
<1> SUFFICES ASSUME Init PROVE IInv
  OBVIOUS
<1> USE CandidatesAssumption, SizeAssumption, FilesAssumption DEF Init
<1>1. TypeOK
  BY DEF TypeOK, Steps, Ended, Failed, Descriptors
<1>2. TempsHeld
  BY DEF TempsHeld, Holding
<1>3. TempsOwned
  BY DEF TempsOwned
<1>4. BytesInOrder
  BY DEF BytesInOrder
<1>5. CommittedDurable
  BY DEF CommittedDurable
<1> QED BY <1>1, <1>2, <1>3, <1>4, <1>5 DEF IInv

-----------------------------------------------------------------------------

\* Reserving creates a file only this attempt knows of.
LEMMA ReserveIInv ==
  ASSUME IInv, NEW w \in Writers, Reserve(w)
  PROVE  IInv'
<1> USE CandidatesAssumption, SizeAssumption, FilesAssumption
<1> USE DEF IInv
<1>1. counter[w] \in Counters /\ TempOf(w) \in TempPaths
  <2>1. counter[w] \in Counters
    BY DEF Reserve, TypeOK, Counters
  <2> QED BY <2>1, TempOfType
<1>2. TypeOK'
  BY <1>1 DEF TypeOK, Reserve, Goto, Steps, Descriptors
<1>3. TempsHeld'
  <2> SUFFICES ASSUME NEW v \in Writers
               PROVE  /\ (pc[v] \in Steps \ {"reserve"} => counter[v] \in Counters)'
                      /\ (Holding(v) => temps[TempOf(v)] = v)'
    BY DEF TempsHeld
  <2>1. CASE v = w
    BY <2>1, <1>1 DEF Reserve, Goto, Holding, TempOf, TypeOK
  <2>2. CASE v # w
    <3>1. pc'[v] = pc[v] /\ counter' = counter
      BY <2>2 DEF Reserve, Goto, TypeOK
    <3>2. Holding(v) => temps'[TempOf(v)] = v
      <4> SUFFICES ASSUME Holding(v) PROVE temps'[TempOf(v)] = v
        OBVIOUS
      <4>1. temps[TempOf(v)] = v
        BY DEF TempsHeld
      <4>2. TempOf(v) # TempOf(w)
        BY <4>1 DEF Reserve
      <4> QED BY <4>1, <4>2, <1>1, TempOfType DEF Reserve, TypeOK, TempsHeld, Holding, Steps
    <3> QED BY <3>1, <3>2 DEF TempsHeld, Holding, TempOf
  <2> QED BY <2>1, <2>2
<1>4. TempsOwned'
  BY <1>1 DEF TempsOwned, Reserve, Goto, TypeOK, TempOf
<1>5. BytesInOrder'
  BY DEF BytesInOrder, Reserve, Goto, TypeOK
<1>6. CommittedDurable'
  BY DEF CommittedDurable, Reserve, Goto, TypeOK
<1> QED BY <1>2, <1>3, <1>4, <1>5, <1>6

\* A collision moves on to the next candidate and touches no file.
LEMMA CollideIInv ==
  ASSUME IInv, NEW w \in Writers, Collide(w)
  PROVE  IInv'
<1> USE CandidatesAssumption, SizeAssumption, FilesAssumption DEF IInv, Collide, Goto
<1>1. TypeOK'
  BY DEF TypeOK, Steps, Ended, Failed, Counters, Descriptors
<1>2. TempsHeld'
  BY DEF TempsHeld, Holding, Steps, TempOf, TypeOK, Counters
<1>3. TempsOwned'
  BY DEF TempsOwned, TempsHeld, TempOf, TypeOK
<1>4. BytesInOrder'
  BY DEF BytesInOrder, TypeOK
<1>5. CommittedDurable'
  BY DEF CommittedDurable, TypeOK, Steps
<1> QED BY <1>1, <1>2, <1>3, <1>4, <1>5

\* An attempt that could not reserve owns nothing.
LEMMA ReserveFailsIInv ==
  ASSUME IInv, NEW w \in Writers, ReserveFails(w)
  PROVE  IInv'
<1> USE CandidatesAssumption, SizeAssumption, FilesAssumption DEF IInv, ReserveFails, Goto
<1>1. TypeOK'
  BY DEF TypeOK, Steps, Ended, Failed, Counters, Descriptors
<1>2. TempsHeld'
  BY DEF TempsHeld, Holding, Steps, TempOf, TypeOK, Counters
<1>3. TempsOwned'
  BY DEF TempsOwned, TempsHeld, TempOf, TypeOK
<1>4. BytesInOrder'
  BY DEF BytesInOrder, TypeOK
<1>5. CommittedDurable'
  BY DEF CommittedDurable, TypeOK, Steps
<1> QED BY <1>1, <1>2, <1>3, <1>4, <1>5

\* Only the file an attempt still holds grows.
LEMMA WriteIInv ==
  ASSUME IInv, NEW w \in Writers, Write(w)
  PROVE  IInv'
<1> USE CandidatesAssumption, SizeAssumption, FilesAssumption DEF IInv, Write, Goto
<1>1. TypeOK'
  BY DEF TypeOK, Steps, Ended, Failed, Counters, Descriptors
<1>2. TempsHeld'
  BY DEF TempsHeld, Holding, Steps, TempOf, TypeOK, Counters
<1>3. TempsOwned'
  BY DEF TempsOwned, TempsHeld, TempOf, TypeOK
<1>4. BytesInOrder'
  BY DEF BytesInOrder, TypeOK
<1>5. CommittedDurable'
  BY DEF CommittedDurable, TypeOK, Steps
<1> QED BY <1>1, <1>2, <1>3, <1>4, <1>5

\* fsync makes all of a fully written file durable.
LEMMA FsyncIInv ==
  ASSUME IInv, NEW w \in Writers, Fsync(w)
  PROVE  IInv'
<1> USE CandidatesAssumption, SizeAssumption, FilesAssumption DEF IInv, Fsync, Goto
<1>1. TypeOK'
  BY DEF TypeOK, Steps, Ended, Failed, Counters, Descriptors
<1>2. TempsHeld'
  BY DEF TempsHeld, Holding, Steps, TempOf, TypeOK, Counters
<1>3. TempsOwned'
  BY DEF TempsOwned, TempsHeld, TempOf, TypeOK
<1>4. BytesInOrder'
  BY DEF BytesInOrder, TypeOK
<1>5. CommittedDurable'
  BY DEF CommittedDurable, TypeOK, Steps
<1> QED BY <1>1, <1>2, <1>3, <1>4, <1>5

\* Closing changes the descriptor only.
LEMMA CloseIInv ==
  ASSUME IInv, NEW w \in Writers, Close(w)
  PROVE  IInv'
<1> USE CandidatesAssumption, SizeAssumption, FilesAssumption DEF IInv, Close, Goto
<1>1. TypeOK'
  BY DEF TypeOK, Steps, Ended, Failed, Counters, Descriptors
<1>2. TempsHeld'
  BY DEF TempsHeld, Holding, Steps, TempOf, TypeOK, Counters
<1>3. TempsOwned'
  BY DEF TempsOwned, TempsHeld, TempOf, TypeOK
<1>4. BytesInOrder'
  BY DEF BytesInOrder, TypeOK
<1>5. CommittedDurable'
  BY DEF CommittedDurable, TypeOK, Steps
<1> QED BY <1>1, <1>2, <1>3, <1>4, <1>5

\* A failed close leads to the cleanup with the file still held.
LEMMA CloseFailsIInv ==
  ASSUME IInv, NEW w \in Writers, CloseFails(w)
  PROVE  IInv'
<1> USE CandidatesAssumption, SizeAssumption, FilesAssumption DEF IInv, CloseFails, Goto, Catch
<1>1. TypeOK'
  BY DEF TypeOK, Steps, Ended, Failed, Counters, Descriptors
<1>2. TempsHeld'
  BY DEF TempsHeld, Holding, Steps, TempOf, TypeOK, Counters
<1>3. TempsOwned'
  BY DEF TempsOwned, TempsHeld, TempOf, TypeOK
<1>4. BytesInOrder'
  BY DEF BytesInOrder, TypeOK
<1>5. CommittedDurable'
  BY DEF CommittedDurable, TypeOK, Steps
<1> QED BY <1>1, <1>2, <1>3, <1>4, <1>5

\* Returning after the commit changes no file.
LEMMA ReturnIInv ==
  ASSUME IInv, NEW w \in Writers, Return(w)
  PROVE  IInv'
<1> USE CandidatesAssumption, SizeAssumption, FilesAssumption DEF IInv, Return, Goto
<1>1. TypeOK'
  BY DEF TypeOK, Steps, Ended, Failed, Counters, Descriptors
<1>2. TempsHeld'
  BY DEF TempsHeld, Holding, Steps, TempOf, TypeOK, Counters
<1>3. TempsOwned'
  BY DEF TempsOwned, TempsHeld, TempOf, TypeOK
<1>4. BytesInOrder'
  BY DEF BytesInOrder, TypeOK
<1>5. CommittedDurable'
  BY DEF CommittedDurable, TypeOK, Steps
<1> QED BY <1>1, <1>2, <1>3, <1>4, <1>5

\* Any other failed step leads to the cleanup with the file still held.
LEMMA StepFailsIInv ==
  ASSUME IInv, NEW w \in Writers, StepFails(w)
  PROVE  IInv'
<1> USE CandidatesAssumption, SizeAssumption, FilesAssumption DEF IInv, StepFails, Goto, Catch
<1>1. TypeOK'
  BY DEF TypeOK, Steps, Ended, Failed, Counters, Descriptors
<1>2. TempsHeld'
  BY DEF TempsHeld, Holding, Steps, TempOf, TypeOK, Counters
<1>3. TempsOwned'
  BY DEF TempsOwned, TempsHeld, TempOf, TypeOK
<1>4. BytesInOrder'
  BY DEF BytesInOrder, TypeOK
<1>5. CommittedDurable'
  BY DEF CommittedDurable, TypeOK, Steps
<1> QED BY <1>1, <1>2, <1>3, <1>4, <1>5

\* The cleanup closes the descriptor, the file is still held.
LEMMA CleanupCloseIInv ==
  ASSUME IInv, NEW w \in Writers, CleanupClose(w)
  PROVE  IInv'
<1> USE CandidatesAssumption, SizeAssumption, FilesAssumption DEF IInv, CleanupClose, Goto
<1>1. TypeOK'
  BY DEF TypeOK, Steps, Ended, Failed, Counters, Descriptors
<1>2. TempsHeld'
  BY DEF TempsHeld, Holding, Steps, TempOf, TypeOK, Counters
<1>3. TempsOwned'
  BY DEF TempsOwned, TempsHeld, TempOf, TypeOK
<1>4. BytesInOrder'
  BY DEF BytesInOrder, TypeOK
<1>5. CommittedDurable'
  BY DEF CommittedDurable, TypeOK, Steps
<1> QED BY <1>1, <1>2, <1>3, <1>4, <1>5

\* The absence check only decides which error is returned.
LEMMA CleanupCheckIInv ==
  ASSUME IInv, NEW w \in Writers, CleanupCheck(w)
  PROVE  IInv'
<1> USE CandidatesAssumption, SizeAssumption, FilesAssumption DEF IInv, CleanupCheck, Goto
<1>1. TypeOK'
  BY DEF TypeOK, Steps, Ended, Failed, Counters, Descriptors
<1>2. TempsHeld'
  BY DEF TempsHeld, Holding, Steps, TempOf, TypeOK, Counters
<1>3. TempsOwned'
  BY DEF TempsOwned, TempsHeld, TempOf, TypeOK
<1>4. BytesInOrder'
  BY DEF BytesInOrder, TypeOK
<1>5. CommittedDurable'
  BY DEF CommittedDurable, TypeOK, Steps
<1> QED BY <1>1, <1>2, <1>3, <1>4, <1>5

\* A killed process leaves its files as they are.
LEMMA KillIInv ==
  ASSUME IInv, NEW w \in Writers, Kill(w)
  PROVE  IInv'
<1> USE CandidatesAssumption, SizeAssumption, FilesAssumption DEF IInv, Kill, Goto
<1>1. TypeOK'
  BY DEF TypeOK, Steps, Ended, Failed, Counters, Descriptors
<1>2. TempsHeld'
  BY DEF TempsHeld, Holding, Steps, TempOf, TypeOK, Counters
<1>3. TempsOwned'
  BY DEF TempsOwned, TempsHeld, TempOf, TypeOK
<1>4. BytesInOrder'
  BY DEF BytesInOrder, TypeOK
<1>5. CommittedDurable'
  BY DEF CommittedDurable, TypeOK, Steps
<1> QED BY <1>1, <1>2, <1>3, <1>4, <1>5

\* Writing bytes back makes at most more of them durable.
LEMMA FlushBytesIInv ==
  ASSUME IInv, NEW w \in Writers, FlushBytes(w)
  PROVE  IInv'
<1> USE CandidatesAssumption, SizeAssumption, FilesAssumption DEF IInv, FlushBytes, Goto
<1>1. TypeOK'
  BY DEF TypeOK, Steps, Ended, Failed, Counters, Descriptors
<1>2. TempsHeld'
  BY DEF TempsHeld, Holding, Steps, TempOf, TypeOK, Counters
<1>3. TempsOwned'
  BY DEF TempsOwned, TempsHeld, TempOf, TypeOK
<1>4. BytesInOrder'
  BY DEF BytesInOrder, TypeOK
<1>5. CommittedDurable'
  BY DEF CommittedDurable, TypeOK, Steps
<1> QED BY <1>1, <1>2, <1>3, <1>4, <1>5

\* The rename moves the attempt's own, complete and durable file.
LEMMA RenameIInv ==
  ASSUME IInv, NEW w \in Writers, Rename(w)
  PROVE  IInv'
<1> USE CandidatesAssumption, SizeAssumption, FilesAssumption DEF IInv, Rename, Goto
<1>1. counter[w] \in Counters /\ temps[TempOf(w)] = w /\ TempOf(w) \in TempPaths
  BY TempOfType DEF TempsHeld, Holding, Steps
<1>2. TypeOK'
  BY <1>1 DEF TypeOK, Steps, Ended, Failed
<1>3. TempsHeld'
  <2> SUFFICES ASSUME NEW v \in Writers
               PROVE  /\ (pc[v] \in Steps \ {"reserve"} => counter[v] \in Counters)'
                      /\ (Holding(v) => temps[TempOf(v)] = v)'
    BY DEF TempsHeld
  <2>1. CASE v = w
    BY <2>1, <1>1 DEF Holding, TypeOK, TempOf
  <2>2. CASE v # w
    <3>1. pc'[v] = pc[v] /\ counter'[v] = counter[v]
      BY <2>2 DEF TypeOK
    <3>2. Holding(v) => temps'[TempOf(v)] = v
      BY <1>1, <2>2, TempOfType DEF TempsHeld, TypeOK, Holding, Steps
    <3> QED BY <3>1, <3>2 DEF TempsHeld, Holding, TempOf
  <2> QED BY <2>1, <2>2
<1>4. TempsOwned'
  BY <1>1 DEF TempsOwned, TypeOK, TempOf
<1>5. BytesInOrder'
  BY DEF BytesInOrder, TypeOK
<1>6. CommittedDurable'
  BY <1>1 DEF CommittedDurable, BytesInOrder, TypeOK
<1> QED BY <1>2, <1>3, <1>4, <1>5, <1>6

\* The cleanup unlinks the attempt's own file, or nothing.
LEMMA CleanupUnlinkIInv ==
  ASSUME IInv, NEW w \in Writers, CleanupUnlink(w)
  PROVE  IInv'
<1> USE CandidatesAssumption, SizeAssumption, FilesAssumption
        DEF IInv, CleanupUnlink, Goto
<1>1. counter[w] \in Counters /\ temps[TempOf(w)] = w /\ TempOf(w) \in TempPaths
  BY TempOfType DEF TempsHeld, Holding, Steps
<1>2. TypeOK'
  BY <1>1 DEF TypeOK, Steps
<1>3. TempsHeld'
  <2> SUFFICES ASSUME NEW v \in Writers
               PROVE  /\ (pc[v] \in Steps \ {"reserve"} => counter[v] \in Counters)'
                      /\ (Holding(v) => temps[TempOf(v)] = v)'
    BY DEF TempsHeld
  <2>1. CASE v = w
    BY <2>1, <1>1 DEF Holding, TypeOK, TempOf
  <2>2. CASE v # w
    <3>1. pc'[v] = pc[v] /\ counter'[v] = counter[v]
      BY <2>2 DEF TypeOK
    <3>2. Holding(v) => temps'[TempOf(v)] = v
      BY <1>1, <2>2, TempOfType DEF TempsHeld, TypeOK, Holding, Steps
    <3> QED BY <3>1, <3>2 DEF TempsHeld, Holding, TempOf
  <2> QED BY <2>1, <2>2
<1>4. TempsOwned'
  <2>1. \A path \in TempPaths : temps'[path] \in {temps[path], Absent}
    BY DEF TypeOK
  <2>2. \A v \in Writers : TempOf(v)' = TempOf(v) /\ (pc[v] # "reserve" => pc'[v] # "reserve")
    BY DEF TypeOK, TempOf
  <2> QED BY <2>1, <2>2 DEF TempsOwned
<1>5. BytesInOrder'
  BY DEF BytesInOrder, TypeOK
<1>6. CommittedDurable'
  BY DEF CommittedDurable, TypeOK
<1> QED BY <1>2, <1>3, <1>4, <1>5, <1>6

\* The directory reaches the disk with a target that is already durable.
LEMMA FlushDirectoryIInv == IInv /\ FlushDirectory => IInv'
<1> SUFFICES ASSUME IInv, FlushDirectory PROVE IInv'
  OBVIOUS
<1> USE DEF IInv, FlushDirectory
<1>1. TypeOK'
  BY DEF TypeOK
<1>2. TempsHeld'
  BY DEF TempsHeld, Holding, TempOf
<1>3. TempsOwned'
  BY DEF TempsOwned, TempOf
<1>4. BytesInOrder'
  BY DEF BytesInOrder
<1>5. CommittedDurable'
  BY DEF CommittedDurable
<1> QED BY <1>1, <1>2, <1>3, <1>4, <1>5

\* A power loss leaves nobody holding a file, and a durable target.
LEMMA PowerLossIInv == IInv /\ PowerLoss => IInv'
<1> SUFFICES ASSUME IInv, PowerLoss PROVE IInv'
  OBVIOUS
<1> USE SizeAssumption, CandidatesAssumption DEF IInv, PowerLoss
<1>1. TypeOK'
  BY DEF TypeOK, Steps, Ended, Failed, Descriptors
<1>2. \A w \in Writers : pc'[w] \in Ended \union {"reserve"}
  BY DEF TypeOK, Running, Ended
<1>3. TempsHeld'
  BY <1>2 DEF TempsHeld, Holding, Steps, Ended, Failed
<1>4. TempsOwned'
  BY DEF TempsOwned, TempOf, Running, Steps, TypeOK
<1>5. BytesInOrder'
  BY <1>2 DEF BytesInOrder, Ended, Failed
<1>6. CommittedDurable'
  BY DEF CommittedDurable, Running, Steps, TypeOK
<1> QED BY <1>1, <1>3, <1>4, <1>5, <1>6

-----------------------------------------------------------------------------

\* A stuttering step keeps the invariant.
LEMMA StutterIInv == IInv /\ UNCHANGED vars => IInv'
  BY DEF IInv, vars, TypeOK, TempsHeld, TempsOwned, BytesInOrder, CommittedDurable,
         Holding, TempOf

\* Every step of the specification keeps the invariant.
LEMMA NextIInv == IInv /\ [Next]_vars => IInv'
<1> SUFFICES ASSUME IInv, [Next]_vars PROVE IInv'
  OBVIOUS
<1>1. ASSUME NEW w \in Writers, Attempt(w) PROVE IInv'
  BY <1>1, ReserveIInv, CollideIInv, ReserveFailsIInv, WriteIInv, FsyncIInv, CloseIInv,
     CloseFailsIInv, RenameIInv, ReturnIInv, StepFailsIInv, CleanupCloseIInv,
     CleanupUnlinkIInv, CleanupCheckIInv DEF Attempt
<1>2. ASSUME NEW w \in Writers, Kill(w) \/ FlushBytes(w) PROVE IInv'
  BY <1>2, KillIInv, FlushBytesIInv
<1>3. CASE FlushDirectory \/ PowerLoss
  BY <1>3, FlushDirectoryIInv, PowerLossIInv
<1>4. CASE UNCHANGED vars
  BY <1>4, StutterIInv
<1> QED BY <1>1, <1>2, <1>3, <1>4 DEF Next

\* The inductive invariant holds in every reachable state.
THEOREM Invariance == Spec => []IInv
  BY InitIInv, NextIInv, PTL DEF Spec

\* Every variable of the write path keeps its type.
THEOREM TypeCorrect == Spec => []TypeOK
<1>1. IInv => TypeOK
  BY DEF IInv
<1> QED BY <1>1, Invariance, PTL

\* anchormap.yaml is never torn for whoever reads it, also while other attempts
\* write: a rename only ever moves a file with all its bytes.
THEOREM NeverTorn == Spec => []TargetComplete
<1>1. IInv => TargetComplete
  BY DEF IInv, CommittedDurable, TargetComplete, Complete
<1> QED BY <1>1, Invariance, PTL

\* Nor does a power loss bring back a torn one: the fsync of writeConfigAtomic
\* comes before its rename, so a file the disk names has all its bytes on disk.
THEOREM NeverTornByPowerLoss == Spec => []DiskTargetComplete
<1>1. IInv => DiskTargetComplete
  BY DEF IInv, CommittedDurable, DiskTargetComplete, Complete
<1> QED BY <1>1, Invariance, PTL

\* An attempt that returned WriteError or InternalError never is, and never
\* becomes, the content of anchormap.yaml.
THEOREM FailureInvisible == Spec => []FailedNeverVisible
<1>1. IInv => FailedNeverVisible
  BY DEF IInv, CommittedDurable, FailedNeverVisible, Failed
<1> QED BY <1>1, Invariance, PTL

-----------------------------------------------------------------------------

\* An attempt changes the directory at the path it holds or reserves only.
LEMMA AttemptTemps ==
  ASSUME IInv, NEW w \in Writers, Attempt(w), NEW path \in TempPaths,
         temps[path] \notin {w, Absent}
  PROVE  temps'[path] = temps[path]
<1> USE DEF IInv
<1>1. CASE Reserve(w)
  BY <1>1 DEF Reserve, TypeOK
<1>2. CASE Rename(w)
  BY <1>2 DEF Rename, TempsHeld, Holding, TypeOK
<1>3. CASE CleanupUnlink(w)
  BY <1>3 DEF CleanupUnlink, TempsHeld, Holding, TypeOK
<1>4. CASE temps' = temps
  BY <1>4
<1> QED BY <1>1, <1>2, <1>3, <1>4
        DEF Attempt, Collide, ReserveFails, Write, Fsync, Close, CloseFails, Return,
            StepFails, CleanupClose, CleanupCheck

\* A process never removes or moves a temp file that another one created,
\* whatever process ids they share.
THEOREM ForeignUntouched == Spec => ForeignTempsUntouched
<1>1. IInv /\ [Next]_vars =>
        [\A path \in TempPaths, w \in Writers :
           (Attempt(w) /\ temps[path] \notin {w, Absent}) => temps'[path] = temps[path]]_vars
  BY AttemptTemps
<1> QED BY <1>1, Invariance, PTL DEF Spec, ForeignTempsUntouched

\* Only a failed reservation and a clean absence check return WriteError.
LEMMA EntersWriteError ==
  ASSUME TypeOK, [Next]_vars, NEW w \in Writers, pc[w] # "WriteError", pc'[w] = "WriteError"
  PROVE  ReserveFails(w) \/ (CleanupCheck(w) /\ ~cleanupFailure'[w])
<1> USE DEF TypeOK, Goto
<1>1. ASSUME NEW v \in Writers, Attempt(v)
      PROVE  ReserveFails(w) \/ (CleanupCheck(w) /\ ~cleanupFailure'[w])
  <2>1. CASE v = w
    <3>1. CASE CleanupCheck(w)
      BY <3>1 DEF CleanupCheck
    <3> QED BY <1>1, <2>1, <3>1
            DEF Attempt, Reserve, Collide, Write, Fsync, Close, CloseFails, Rename, Return,
                StepFails, CleanupClose, CleanupUnlink, Catch
  <2>2. CASE v # w
    BY <1>1, <2>2
       DEF Attempt, Reserve, Collide, ReserveFails, Write, Fsync, Close, CloseFails, Rename,
           Return, StepFails, CleanupClose, CleanupUnlink, CleanupCheck, Catch
  <2> QED BY <2>1, <2>2
<1>2. ASSUME NEW v \in Writers, Kill(v) \/ FlushBytes(v) PROVE FALSE
  BY <1>2 DEF Kill, FlushBytes
<1>3. CASE FlushDirectory \/ PowerLoss
  BY <1>3 DEF FlushDirectory, PowerLoss
<1>4. CASE UNCHANGED vars
  BY <1>4 DEF vars
<1> QED BY <1>1, <1>2, <1>3, <1>4 DEF Next

\* An attempt that returns WriteError has left no temp file of its own.
THEOREM WriteErrorClean == Spec => WriteErrorMeansClean
<1>1. ASSUME IInv, [Next]_vars, NEW w \in Writers, pc[w] # "WriteError", pc'[w] = "WriteError",
             NEW path \in TempPaths
      PROVE  temps'[path] # w
  <2>1. CASE ReserveFails(w)
    BY <1>1, <2>1 DEF IInv, ReserveFails, TempsOwned
  <2>2. CASE CleanupCheck(w) /\ ~cleanupFailure'[w]
    <3>1. temps[TempOf(w)] = Absent /\ temps' = temps
      BY <1>1, <2>2 DEF IInv, CleanupCheck, TypeOK
    <3> QED BY <1>1, <3>1, FilesAssumption DEF IInv, TempsOwned
  <2> QED BY <1>1, <2>1, <2>2, EntersWriteError DEF IInv
<1>2. IInv /\ [Next]_vars =>
        [\A w \in Writers :
           (pc[w] # "WriteError" /\ pc'[w] = "WriteError") =>
              \A path \in TempPaths : temps'[path] # w]_vars
  BY <1>1
<1> QED BY <1>2, Invariance, PTL DEF Spec, WriteErrorMeansClean

-----------------------------------------------------------------------------

\* The states of the abstract store, by name.
LEMMA StoreStates ==
  ASSUME IInv
  PROVE  /\ Complete(target, length) /\ Complete(disk.target, synced)
         /\ \A w \in Writers : Phase(w) \in {"pending", "committed", "ok", "failed", "killed"}
  BY DEF IInv, CommittedDurable, Complete, Phase

\* The initial states of the write path are initial states of the store.
LEMMA InitStore == Init => Store!SInit
<1> SUFFICES ASSUME Init PROVE Store!SInit
  OBVIOUS
<1>1. Complete(target, length) /\ Complete(disk.target, synced)
  BY FilesAssumption DEF Init, Complete
<1>2. \A w \in Writers : Phase(w) = "pending"
  BY DEF Init, Phase, Failed
<1> QED BY <1>1, <1>2 DEF Init, Store!SInit

\* A step that keeps the target, the disk and every phase is a stutter.
LEMMA StepStutters ==
  ASSUME IInv, IInv', target' = target, disk'.target = disk.target,
         \A w \in Writers : Phase(w)' = Phase(w)
  PROVE  UNCHANGED Store!svars
  BY StoreStates DEF Store!svars, IInv, CommittedDurable, Complete

\* The phase an attempt is in depends on its own pc only.
LEMMA OtherPhases ==
  ASSUME TypeOK, NEW w \in Writers, NEW step, pc' = [pc EXCEPT ![w] = step],
         NEW v \in Writers, v # w
  PROVE  Phase(v)' = Phase(v)
  BY DEF Phase, TypeOK

\* The rename is the abstract commit.
LEMMA RenameCommits ==
  ASSUME IInv, IInv', NEW w \in Writers, Rename(w)
  PROVE  Store!Commit(w)
<1>1. target' = w /\ disk' = disk
  BY DEF Rename, IInv, TempsHeld, Holding
<1>2. Phase(w) = "pending" /\ Phase(w)' = "committed"
  BY DEF Rename, Goto, Phase, Failed, IInv, TypeOK
<1>3. \A v \in Writers \ {w} : Phase(v)' = Phase(v)
  BY OtherPhases DEF Rename, Goto, IInv
<1>4. UNCHANGED synced
  BY DEF Rename
<1> QED BY <1>1, <1>2, <1>3, <1>4, StoreStates DEF Store!Commit, Complete, IInv, CommittedDurable

\* Success is reported by a committed attempt.
LEMMA ReturnReports ==
  ASSUME IInv, IInv', NEW w \in Writers, Return(w)
  PROVE  Store!ReportOk(w)
<1>1. Phase(w) = "committed" /\ Phase(w)' = "ok"
  BY DEF Return, Goto, Phase, Failed, IInv, TypeOK
<1>2. \A v \in Writers \ {w} : Phase(v)' = Phase(v)
  BY OtherPhases DEF Return, Goto, IInv
<1> QED BY <1>1, <1>2, StoreStates DEF Return, Store!ReportOk, Complete

\* Failure is reported by an attempt that did not commit.
LEMMA FailureReports ==
  ASSUME IInv, IInv', NEW w \in Writers, ReserveFails(w) \/ CleanupCheck(w)
  PROVE  Store!ReportFailure(w)
<1>1. Phase(w) = "pending" /\ Phase(w)' = "failed"
  BY DEF ReserveFails, CleanupCheck, Goto, Phase, Failed, IInv, TypeOK
<1>2. \A v \in Writers \ {w} : Phase(v)' = Phase(v)
  BY OtherPhases DEF ReserveFails, CleanupCheck, Goto, IInv
<1> QED BY <1>1, <1>2, StoreStates
        DEF ReserveFails, CleanupCheck, Store!ReportFailure, Complete

LEMMA KillKills ==
  ASSUME IInv, IInv', NEW w \in Writers, Kill(w)
  PROVE  Store!Killed(w)
<1>1. Phase(w) \in {"pending", "committed"} /\ Phase(w)' = "killed"
  BY DEF Kill, Steps, Goto, Phase, Failed, IInv, TypeOK
<1>2. \A v \in Writers \ {w} : Phase(v)' = Phase(v)
  BY OtherPhases DEF Kill, Goto, IInv
<1> QED BY <1>1, <1>2, StoreStates DEF Kill, Store!Killed, Complete

\* Every other step of an attempt is invisible to the store.
LEMMA AttemptStutters ==
  ASSUME IInv, IInv', NEW w \in Writers, Attempt(w),
         ~Rename(w), ~Return(w), ~ReserveFails(w), ~CleanupCheck(w)
  PROVE  UNCHANGED Store!svars
<1>1. target' = target /\ disk' = disk
  BY DEF Attempt, Reserve, Collide, Write, Fsync, Close, CloseFails, StepFails,
         CleanupClose, CleanupUnlink
<1>2. \A v \in Writers : Phase(v)' = Phase(v)
  BY DEF Attempt, Reserve, Collide, Write, Fsync, Close, CloseFails, StepFails, Catch,
         CleanupClose, CleanupUnlink, Goto, Phase, Failed, IInv, TypeOK
<1> QED BY <1>1, <1>2, StepStutters

\* Bytes written back change nothing the store shows; the directory written
\* back is the abstract Persist, a power loss the abstract LosePower.
LEMMA WorldSteps ==
  ASSUME IInv, IInv'
  PROVE  /\ \A w \in Writers : FlushBytes(w) => UNCHANGED Store!svars
         /\ FlushDirectory => Store!Persist
         /\ PowerLoss => Store!LosePower
<1>1. ASSUME NEW w \in Writers, FlushBytes(w) PROVE UNCHANGED Store!svars
  BY <1>1, StepStutters DEF FlushBytes, Phase
<1>2. ASSUME FlushDirectory PROVE Store!Persist
  BY <1>2, StoreStates DEF FlushDirectory, Store!Persist, Phase, Complete, IInv, CommittedDurable
<1>3. ASSUME PowerLoss PROVE Store!LosePower
  <2> DEFINE dead == {w \in Writers : Running(w)}
  <2>1. \A w \in dead : Phase(w) \in {"pending", "committed"} /\ Phase(w)' = "killed"
    BY <1>3 DEF PowerLoss, Running, Steps, Phase, Failed, IInv, TypeOK
  <2>2. \A w \in Writers \ dead : Phase(w)' = Phase(w)
    BY <1>3 DEF PowerLoss, Phase
  <2>3. target' = disk.target /\ disk' = disk /\ synced' = synced /\ length' = synced
    BY <1>3 DEF PowerLoss
  <2> QED BY <2>1, <2>2, <2>3, StoreStates DEF Store!LosePower, Complete
<1> QED BY <1>1, <1>2, <1>3

\* Every step of the write path is a step of the store, or a stutter.
LEMMA StepRefines == IInv /\ IInv' /\ [Next]_vars => [Store!SNext]_(Store!svars)
<1> SUFFICES ASSUME IInv, IInv', [Next]_vars PROVE [Store!SNext]_(Store!svars)
  OBVIOUS
<1>1. ASSUME NEW w \in Writers, Attempt(w) PROVE [Store!SNext]_(Store!svars)
  BY <1>1, RenameCommits, ReturnReports, FailureReports, AttemptStutters DEF Store!SNext
<1>2. ASSUME NEW w \in Writers, Kill(w) \/ FlushBytes(w) PROVE [Store!SNext]_(Store!svars)
  BY <1>2, KillKills, WorldSteps DEF Store!SNext
<1>3. CASE FlushDirectory \/ PowerLoss
  BY <1>3, WorldSteps DEF Store!SNext
<1>4. CASE UNCHANGED vars
  BY <1>4, StepStutters DEF vars, Phase
<1> QED BY <1>1, <1>2, <1>3, <1>4 DEF Next

\* writeConfigAtomic, run by any number of processes with kills and power
\* losses, implements a store that is replaced in one step or not at all.
THEOREM Refinement == Spec => ImplementsStore
<1>1. Init => Store!SInit
  BY InitStore
<1>2. IInv /\ IInv' /\ [Next]_vars => [Store!SNext]_(Store!svars)
  BY StepRefines
<1> QED BY <1>1, <1>2, Invariance, PTL DEF Spec, ImplementsStore, Store!SSpec
=============================================================================
