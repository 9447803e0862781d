-------------------------- MODULE ScaffoldProofs --------------------------
(***************************************************************************)
(* Proofs about Scaffold: which files a run touches, what a reader may see *)
(* of an output that is not whole, and that runs one at a time never give  *)
(* an anchor out twice.                                                    *)
(***************************************************************************)
EXTENDS Scaffold, TLAPS

Early  == {"idle", "check", "index", "build", "open"}
Owning == {"write", "fsync", "close", "cleanupClose", "cleanupUnlink"}

\* A run that has created its output holds the path until it ends, and a file
\* of a run is nowhere but at its output.
Placed ==
  \A p \in Procs :
    /\ pc[p] \in Owning => dir[output[p]] = p
    /\ \A q \in Paths : dir[q] = p =>
         output[p] = q /\ pc[p] \notin Early \union {"WriteError"}

\* A file without the marker is a published one, or has no anchor yet.
Filled ==
  \A p \in Procs :
    /\ pc[p] \in Early => ~draft[p]
    /\ ~draft[p] => pc[p] = "ok" \/ (upto[p] = 0 /\ cut[p] = 0)
    /\ pc[p] \in {"fsync", "close", "ok"} =>
         cut[p] = 0 /\ \A a \in plan[p] : a <= upto[p]

SInv == TypeOK /\ Placed /\ Filled

-----------------------------------------------------------------------------

LEMMA CutsAfterType ==
  ASSUME TypeOK, NEW p \in Procs, NEW k
  PROVE  CutsAfter(p, k) \subseteq Exports \union {0}
BY CutsAssumption DEF TypeOK, CutsAfter, Rest, FirstOf

\* When no section is left a write leaves no cut heading.
LEMMA CutsAfterLast ==
  ASSUME NEW p \in Procs, NEW k, Rest(p, k) = {}
  PROVE  CutsAfter(p, k) = {0}
BY DEF CutsAfter, FirstOf

LEMMA InitSInv == Init => SInv
<1> SUFFICES ASSUME Init PROVE SInv
  OBVIOUS
<1>1. TypeOK
  BY MaxEditsAssumption DEF Init, TypeOK
<1>2. Placed
  BY NamesAssumption DEF Init, Placed, Owning
<1>3. Filled
  BY DEF Init, Filled, Early
<1> QED BY <1>1, <1>2, <1>3 DEF SInv

\* What one write leaves.
LEMMA WriteSInv ==
  ASSUME SInv, NEW p \in Procs, Write(p)
  PROVE  SInv'
<1> USE DEF SInv
<1>0. PICK k \in plan[p] \union {0} : \E c \in CutsAfter(p, k) :
        /\ upto' = [upto EXCEPT ![p] = k]
        /\ cut' = [cut EXCEPT ![p] = c]
        /\ draft' = [draft EXCEPT ![p] = TRUE]
        /\ pc' = [pc EXCEPT ![p] = IF Rest(p, k) = {} THEN "fsync" ELSE "write"]
  BY DEF Write, Goto
<1>1. PICK c \in CutsAfter(p, k) :
        /\ upto' = [upto EXCEPT ![p] = k]
        /\ cut' = [cut EXCEPT ![p] = c]
        /\ draft' = [draft EXCEPT ![p] = TRUE]
        /\ pc' = [pc EXCEPT ![p] = IF Rest(p, k) = {} THEN "fsync" ELSE "write"]
  BY <1>0
<1>2. k \in Exports \union {0} /\ c \in Exports \union {0}
  BY CutsAfterType DEF TypeOK
<1>3. UNCHANGED <<dir, specs, local, edits>> /\ pc[p] = "write"
  BY DEF Write
<1>4. TypeOK'
  BY <1>1, <1>2, <1>3 DEF TypeOK, local, Steps
<1>5. Placed'
  BY <1>1, <1>3 DEF Placed, Owning, Early, local, TypeOK
<1>6. Rest(p, k) = {} => c = 0 /\ \A a \in plan[p] : a <= k
  <2>1. \A a \in plan[p] : a \in Nat
    BY ExportsAssumption DEF TypeOK
  <2>2. k = 0 \/ k \in Nat
    BY <2>1
  <2> QED BY <1>1, <2>1, <2>2, CutsAfterLast DEF Rest
<1>7. Filled'
  BY <1>1, <1>3, <1>6 DEF Filled, Early, local, TypeOK
<1> QED BY <1>4, <1>5, <1>7

LEMMA NextSInv == SInv /\ [Next]_vars => SInv'
<1> SUFFICES ASSUME SInv, [Next]_vars PROVE SInv'
  OBVIOUS
<1> USE NamesAssumption
    DEF SInv, TypeOK, Placed, Filled, Early, Owning, Goto, Refuse, files, local,
        Steps, Ended, Failed
<1>1. ASSUME NEW p \in Procs, NEW q \in Paths, Start(p, q) PROVE SInv'
  BY <1>1 DEF Start
<1>2. ASSUME NEW p \in Procs, Check(p) PROVE SInv'
  BY <1>2 DEF Check
<1>3. ASSUME NEW p \in Procs, Index(p) PROVE SInv'
  <2>1. Observed \subseteq Exports
    BY DEF Observed, Read
  <2> QED BY <1>3, <2>1 DEF Index
<1>4. ASSUME NEW p \in Procs, Build(p) PROVE SInv'
  BY <1>4 DEF Build
<1>5. ASSUME NEW p \in Procs, Open(p) PROVE SInv'
  BY <1>5 DEF Open
<1>6. ASSUME NEW p \in Procs, OpenFails(p) PROVE SInv'
  BY <1>6 DEF OpenFails
<1>7. ASSUME NEW p \in Procs, Write(p) PROVE SInv'
  BY <1>7, WriteSInv
<1>8. ASSUME NEW p \in Procs, Fsync(p) \/ Close(p) PROVE SInv'
  BY <1>8 DEF Fsync, Close
<1>9. ASSUME NEW p \in Procs, CloseFails(p) \/ StepFails(p) PROVE SInv'
  BY <1>9 DEF CloseFails, StepFails
<1>10. ASSUME NEW p \in Procs, CleanupClose(p) PROVE SInv'
  <2>1. PICK failed \in BOOLEAN : cleanupFailure' = [cleanupFailure EXCEPT ![p] = failed]
    BY <1>10 DEF CleanupClose
  <2> QED BY <1>10, <2>1 DEF CleanupClose
<1>11. ASSUME NEW p \in Procs, CleanupUnlink(p) PROVE SInv'
  <2>1. CASE dir' = dir
    <3>1. /\ pc[p] = "cleanupUnlink"
          /\ pc' = [pc EXCEPT ![p] = "InternalError"]
          /\ cleanupFailure' = [cleanupFailure EXCEPT ![p] = TRUE]
          /\ UNCHANGED <<draft, upto, cut, specs, output, observed, plan, fd, edits>>
      BY <1>11, <2>1 DEF CleanupUnlink
    <3> QED BY <2>1, <3>1
  <2>2. CASE dir' = [dir EXCEPT ![output[p]] = Absent] /\ UNCHANGED cleanupFailure
    <3>1. TypeOK'
      BY <1>11, <2>2 DEF CleanupUnlink
    <3>2. Placed'
      BY <1>11, <2>2 DEF CleanupUnlink
    <3>3. Filled'
      BY <1>11, <2>2 DEF CleanupUnlink
    <3> QED BY <3>1, <3>2, <3>3
  <2> QED BY <1>11, <2>1, <2>2 DEF CleanupUnlink
<1>12. ASSUME NEW p \in Procs, Kill(p) PROVE SInv'
  BY <1>12 DEF Kill, Busy
<1>13. ASSUME NEW q \in Paths, Publish(q) PROVE SInv'
  BY <1>13, MaxEditsAssumption DEF Publish, Edit, Alone, Busy
<1>14. ASSUME NEW q \in Paths, Remove(q) \/ Create(q) PROVE SInv'
  BY <1>14, MaxEditsAssumption DEF Remove, Create, Edit, Alone, Busy
<1>15. CASE UNCHANGED vars
  BY <1>15 DEF vars
<1> QED BY <1>1, <1>2, <1>3, <1>4, <1>5, <1>6, <1>7, <1>8, <1>9, <1>10, <1>11, <1>12,
           <1>13, <1>14, <1>15 DEF Next, Run

LEMMA AlwaysSInv == Spec => []SInv
BY InitSInv, NextSInv, PTL DEF Spec

\* Every variable keeps its type, for any number of runs, paths and exports, and
\* no run opens an output it has nothing to put in.
THEOREM ScaffoldTypeCorrect == Spec => []TypeOK
BY AlwaysSInv, PTL DEF SInv

\* A run that returns WriteError has left nothing of its own.
THEOREM WriteErrorGone == Spec => []WriteErrorMeansGone
<1>1. SInv => WriteErrorMeansGone
  BY DEF SInv, Placed, WriteErrorMeansGone
<1> QED BY <1>1, AlwaysSInv, PTL

\* A run that reports success has left every section it planned.
THEOREM OkComplete == Spec => []OkMeansComplete
<1>1. SInv => OkMeansComplete
  BY DEF SInv, Filled, OkMeansComplete
<1> QED BY <1>1, AlwaysSInv, PTL

\* Of the steps of a run only the unlink of its cleanup takes a file away, and it
\* finds its own file there; only its own file is filled.
LEMMA RunTouchesItsOwn ==
  ASSUME SInv, NEW p \in Procs, Run(p)
  PROVE  /\ \A q \in Paths : dir'[q] = dir[q] \/ {dir[q], dir'[q]} \subseteq {p, Absent}
         /\ \A r \in Procs \ {p} : upto'[r] = upto[r] /\ cut'[r] = cut[r] /\ draft'[r] = draft[r]
<1> USE DEF SInv, TypeOK, files, local, Refuse
<1>1. CASE Write(p)
  BY <1>1 DEF Write
<1>2. CASE Open(p)
  BY <1>2 DEF Open
<1>3. CASE CleanupUnlink(p)
  <2>1. dir[output[p]] = p /\ output[p] \in Paths
    BY <1>3 DEF CleanupUnlink, Placed, Owning
  <2> QED BY <1>3, <2>1 DEF CleanupUnlink
<1>4. CASE Check(p) \/ Index(p) \/ Build(p) \/ OpenFails(p)
  BY <1>4 DEF Check, Index, Build, OpenFails
<1>5. CASE Fsync(p) \/ Close(p) \/ CloseFails(p) \/ StepFails(p) \/ CleanupClose(p)
  BY <1>5 DEF Fsync, Close, CloseFails, StepFails, CleanupClose
<1> QED BY <1>1, <1>2, <1>3, <1>4, <1>5 DEF Run

\* A run removes and fills no file but its own.
THEOREM OutputsUntouched == Spec => OthersOutputsUntouched
<1>1. SInv =>
        [\A p \in Procs : Run(p) =>
           /\ \A q \in Paths : dir[q] \notin {p, Absent} => dir'[q] = dir[q]
           /\ \A r \in Procs \ {p} : upto'[r] = upto[r] /\ cut'[r] = cut[r]]_vars
  BY RunTouchesItsOwn
<1> QED BY <1>1, AlwaysSInv, PTL DEF OthersOutputsUntouched

-----------------------------------------------------------------------------
(* what a reader sees of an output that is not whole *)

\* The file of a run that is under way has no active anchor.
LEMMA OwnHasNoActive ==
  ASSUME SInv, NEW p \in Procs, pc[p] # "ok", NEW q \in Paths, dir[q] = p
  PROVE  ActiveIn(q) = {}
<1>1. CASE draft[p]
  BY <1>1 DEF ActiveIn
<1>2. CASE ~draft[p]
  <2>1. upto[p] = 0 /\ cut[p] = 0
    BY <1>2 DEF SInv, Filled
  <2>2. \A a \in plan[p] : ~(a <= 0)
    BY ExportsAssumption DEF SInv, TypeOK
  <2> QED BY <2>1, <2>2 DEF ActiveIn, Read
<1> QED BY <1>1, <1>2

\* No run changes which anchors are active, whatever part of its output is there.
THEOREM ActiveKept == Spec => ActiveAnchorsKept
<1>1. ASSUME SInv, [Next]_vars, NEW p \in Procs, Run(p) \/ Kill(p)
      PROVE  Active' = Active
  <2>0. SInv'
    BY <1>1, NextSInv
  <2>1. specs' = specs
    BY <1>1 DEF Run, Kill, Check, Index, Build, Open, OpenFails, Write, Fsync, Close,
                CloseFails, StepFails, CleanupClose, CleanupUnlink, Refuse
  <2>2. ASSUME NEW q \in Paths PROVE ActiveIn(q)' = ActiveIn(q)
    <3>1. CASE Kill(p)
      BY <3>1 DEF Kill, files, ActiveIn, Read
    <3>2. CASE Close(p)
      BY <3>2 DEF Close, files, ActiveIn, Read
    <3>3. CASE Run(p) /\ ~Close(p)
      <4>1. pc[p] # "ok" /\ pc'[p] # "ok"
        BY <3>3, <1>1 DEF SInv, TypeOK, Goto, Refuse, Run, Check, Index, Build, Open, OpenFails, Write,
                   Fsync, CloseFails, StepFails, CleanupClose, CleanupUnlink
      <4>2. dir[q] = p => ActiveIn(q) = {}
        BY <4>1, <1>1, OwnHasNoActive
      <4>3. dir'[q] = p => ActiveIn(q)' = {}
        <5>1. draft'[p] \/ (upto'[p] = 0 /\ cut'[p] = 0)
          BY <4>1, <2>0 DEF SInv, Filled
        <5>2. \A a \in plan'[p] : ~(a <= 0)
          BY <2>0, ExportsAssumption DEF SInv, TypeOK
        <5> QED BY <5>1, <5>2 DEF ActiveIn, Read
      <4>4. CASE dir'[q] = dir[q] /\ dir[q] # p
        <5>1. dir[q] \in Procs => plan'[dir[q]] = plan[dir[q]]
          BY <3>3, <4>4, <1>1 DEF SInv, TypeOK, Refuse, files, local, Run, Check, Index, Build, Open,
             OpenFails, Write, Fsync, CloseFails, StepFails, CleanupClose, CleanupUnlink
        <5>2. dir[q] \in Procs =>
                UNCHANGED <<upto[dir[q]], cut[dir[q]], draft[dir[q]]>>
          BY <3>3, <4>4, <1>1, RunTouchesItsOwn
        <5> QED BY <4>4, <5>1, <5>2 DEF ActiveIn, Read
      <4>5. CASE dir[q] = Absent /\ dir'[q] \in {p, Absent}
        BY <4>5, <4>3, NamesAssumption DEF ActiveIn
      <4>6. CASE dir[q] = p /\ dir'[q] \in {p, Absent}
        BY <4>6, <4>2, <4>3, NamesAssumption DEF ActiveIn
      <4>7. dir'[q] = dir[q] \/ {dir[q], dir'[q]} \subseteq {p, Absent}
        BY <3>3, <1>1, RunTouchesItsOwn
      <4> QED BY <4>4, <4>5, <4>6, <4>7
    <3> QED BY <3>1, <3>2, <3>3, <1>1
  <2> QED BY <2>1, <2>2 DEF Active
<1>2. SInv /\ [Next]_vars =>
        [\A p \in Procs : Run(p) \/ Kill(p) => Active' = Active]_vars
  BY <1>1
<1> QED BY <1>2, AlwaysSInv, PTL DEF ActiveAnchorsKept, Spec
-----------------------------------------------------------------------------
(* runs one at a time *)

\* An output that is whole, under its name, and so may be published.
WholeAt(q) == dir[q] \in Procs /\ pc[dir[q]] = "ok"

\* What a run has read of the specs, and then plans, is apart from every whole
\* output; whole outputs are apart from each other and from the other specs.
PlansApart ==
  /\ \A p \in Procs : pc[p] = "build" =>
       /\ specs \subseteq observed[p]
       /\ \A q \in Paths : WholeAt(q) => plan[dir[q]] \subseteq observed[p]
  /\ \A p \in Procs : pc[p] \in {"open", "ok"} \union Owning =>
       plan[p] \intersect specs = {}
  /\ \A p \in Procs : pc[p] \in {"open"} \union Owning =>
       \A q \in Paths : WholeAt(q) => plan[dir[q]] \intersect plan[p] = {}
  /\ \A q, r \in Paths : WholeAt(q) /\ WholeAt(r) /\ q # r =>
       plan[dir[q]] \intersect plan[dir[r]] = {}

EInv == SInv /\ PlansApart

LEMMA InitEInv == Init => EInv
<1> SUFFICES ASSUME Init PROVE EInv
  OBVIOUS
<1>1. PlansApart
  BY NamesAssumption DEF Init, PlansApart, WholeAt, Owning
<1> QED BY <1>1, InitSInv DEF EInv

\* A whole output is read entirely.
LEMMA WholeIsObserved ==
  ASSUME SInv, NEW q \in Paths, WholeAt(q)
  PROVE  plan[dir[q]] \subseteq Observed
<1>1. \A a \in plan[dir[q]] : a <= upto[dir[q]]
  BY DEF SInv, Filled, WholeAt
<1> QED BY <1>1 DEF WholeAt, Read, Observed

LEMMA NextPlansApart ==
  ASSUME EInv, OneAtATime, [Next]_vars
  PROVE  PlansApart'
<1> USE NamesAssumption
    DEF EInv, PlansApart, WholeAt, Owning, Goto, Refuse, files, local, Failed, Steps
<1>0. TypeOK /\ Placed
  BY DEF SInv
<1>1. ASSUME NEW p \in Procs, NEW q \in Paths, Start(p, q) PROVE PlansApart'
  BY <1>0, <1>1 DEF Start, TypeOK
<1>2. ASSUME NEW p \in Procs, Check(p) PROVE PlansApart'
  BY <1>0, <1>2 DEF Check, TypeOK
<1>3. ASSUME NEW p \in Procs, Index(p) PROVE PlansApart'
  <2>1. \A q \in Paths : WholeAt(q) => plan[dir[q]] \subseteq Observed
    BY WholeIsObserved
  <2>2. specs \subseteq Observed
    BY DEF Observed
  <2> QED BY <1>0, <1>3, <2>1, <2>2 DEF Index, TypeOK
<1>4. ASSUME NEW p \in Procs, Build(p) PROVE PlansApart'
  <2>1. \A q \in Paths : dir[q] # p
    BY <1>0, <1>4 DEF Build, Placed, Early
  <2> QED BY <1>0, <1>4, <2>1 DEF Build, TypeOK
<1>5. ASSUME NEW p \in Procs, Open(p) PROVE PlansApart'
  BY <1>0, <1>5 DEF Open, TypeOK
<1>6. ASSUME NEW p \in Procs, OpenFails(p) \/ Fsync(p) \/ StepFails(p) PROVE PlansApart'
  BY <1>0, <1>6 DEF OpenFails, Fsync, StepFails, TypeOK
<1>7. ASSUME NEW p \in Procs, Write(p) PROVE PlansApart'
  BY <1>0, <1>7 DEF Write, TypeOK
<1>8. ASSUME NEW p \in Procs, Close(p) PROVE PlansApart'
  <2>1. \A q \in Paths : dir[q] = p => q = output[p]
    BY <1>0 DEF Placed
  <2> QED BY <1>0, <1>8, <2>1 DEF Close, TypeOK, OneAtATime, Busy
<1>9. ASSUME NEW p \in Procs, CloseFails(p) \/ CleanupClose(p) PROVE PlansApart'
  <2>1. \/ pc[p] = "close" /\ pc' = [pc EXCEPT ![p] = "cleanupClose"]
        \/ pc[p] = "cleanupClose" /\ pc' = [pc EXCEPT ![p] = "cleanupUnlink"]
    BY <1>9 DEF CloseFails, CleanupClose
  <2>2. UNCHANGED <<dir, specs, observed, plan>>
    BY <1>9 DEF CloseFails, CleanupClose
  <2> QED BY <1>0, <2>1, <2>2 DEF TypeOK
<1>10. ASSUME NEW p \in Procs, CleanupUnlink(p) PROVE PlansApart'
  BY <1>0, <1>10 DEF CleanupUnlink, TypeOK
<1>11. ASSUME NEW p \in Procs, Kill(p) PROVE PlansApart'
  BY <1>0, <1>11 DEF Kill, TypeOK
<1>12. ASSUME NEW q \in Paths, Publish(q) \/ Remove(q) \/ Create(q) PROVE PlansApart'
  BY <1>0, <1>12 DEF Publish, Remove, Create, Edit, TypeOK
<1>13. CASE UNCHANGED vars
  BY <1>13 DEF vars
<1> QED BY <1>1, <1>2, <1>3, <1>4, <1>5, <1>6, <1>7, <1>8, <1>9, <1>10, <1>11, <1>12, <1>13
        DEF Next, Run

\* Runs one at a time never give an anchor out twice: whatever the user publishes
\* of what they made, the specs can be indexed.
THEOREM AloneIndexable == Spec => IndexNeverBreaks
<1>1. ASSUME EInv PROVE ~Duplicated
  <2>1. ASSUME NEW q \in Paths, ActiveIn(q) # {}
        PROVE  WholeAt(q) /\ ActiveIn(q) \subseteq plan[dir[q]]
    <3>1. dir[q] \in Procs /\ ~draft[dir[q]]
      BY <2>1 DEF ActiveIn
    <3>2. pc[dir[q]] = "ok"
      BY <1>1, <2>1, <3>1, OwnHasNoActive DEF EInv
    <3>3. cut[dir[q]] = 0
      BY <1>1, <3>1, <3>2 DEF EInv, SInv, Filled
    <3> QED BY <3>1, <3>2, <3>3 DEF WholeAt, ActiveIn, Read
  <2>2. ASSUME NEW q \in Paths, ActiveIn(q) # {}
        PROVE  ActiveIn(q) \intersect specs = {}
    BY <1>1, <2>1, <2>2 DEF EInv, PlansApart, WholeAt
  <2>3. ASSUME NEW q \in Paths, NEW r \in Paths \ {q}, ActiveIn(q) # {}, ActiveIn(r) # {}
        PROVE  ActiveIn(q) \intersect ActiveIn(r) = {}
    BY <1>1, <2>1, <2>3 DEF EInv, PlansApart
  <2> QED BY <2>2, <2>3 DEF Duplicated
<1>2. EInv /\ OneAtATime /\ [Next]_vars => EInv'
  BY NextSInv, NextPlansApart DEF EInv
<1> QED BY <1>1, <1>2, InitEInv, PTL DEF Spec, IndexNeverBreaks
=============================================================================
