-------------------------- MODULE FixtureRunProofs --------------------------
(***************************************************************************)
(* Proofs about FixtureRun, for any number of runners, fixtures and faults:*)
(* results are never overwritten, a command leaves behind only what failed *)
(* to be removed, a verdict is what happened, a pass is what was observed, *)
(* and exit code 0 is a run of all that was asked for.                     *)
(*                                                                         *)
(* The invariant IInv has five parts.  TypeInv gives the entries of each   *)
(* runner their types; PhaseInv says in which phases a command may exist;  *)
(* VerdictInv carries what the oracles saw from the judge to the record;   *)
(* OwnersInv says that a run directory has one owner, whose remaining      *)
(* fixtures have no result there; ResultsInv, that the others have one.    *)
(***************************************************************************)
EXTENDS FixtureRun, WellFoundedInduction, TLAPS

-----------------------------------------------------------------------------
(* Where a runner is, and what it has yet to run.                          *)

Choosing == {"select", "list", "reserve"}
Starting == {"materialize", "prepare", "spawn"}
Ending   == {"judge", "cleanup", "record"}
Busy     == Starting \union Ending \union {"running"}
Holding  == Busy \union {"next"}

Children ==
  [of : Entries \union {NoValue}, end : {"none", "failed", "exit", "signal"},
   code : Codes \union {0}, closed : BOOLEAN, out : Seq(Outputs), err : Seq(Outputs),
   trace : {"none", "torn", "written"}, events : Traces \union {<<>>}]

TraceStates == {"none", "not_emitted", "setup_failed", "spawn_failed", "invalid", "captured"}

Calls ==
  [out : Seq(Outputs), err : Seq(Outputs), timer : {"off", "armed", "fired"},
   temps : SUBSET {"trace", "preload"}, settled : BOOLEAN, traced : TraceStates,
   exit : Codes \union {0, NoValue}]

Trees == {<<>>} \union {d.tree : d \in Entries} \union UNION {TreesAfter(d) : d \in Entries}

Sandboxes == [state : {"none", "ready", "removed"}, pre : Trees, tree : Trees]

Phases == {"none"} \union {resolveLastFailedPhase(t) : t \in Traces \union {<<>>}}

Results ==
  [by : Runners, fixture : Entries, verdict : Verdicts, exit : Codes \union {0, NoValue},
   traced : TraceStates, phase : Phases]

Key(r, i) == <<Run(r), Catalog[i].family, Catalog[i].id>>

TypeInv ==
  /\ pc \in [Runners -> Choosing \union Holding \union Ended]
  /\ sel = [r \in Runners |-> sel[r]]
  /\ runDir = [r \in Runners |-> runDir[r]]
  /\ todo \in [Runners -> SUBSET DOMAIN Catalog]
  /\ sandbox \in [Runners -> Sandboxes]
  /\ child \in [Runners -> Children]
  /\ call \in [Runners -> Calls]
  /\ verdict \in [Runners -> Verdicts]
  /\ records \in [Runners -> Seq(Results)]
  /\ exitCode \in [Runners -> {0, 1, NoValue}]

\* What a step of r leaves to the other runners.
Others(r) == \A q \in Runners : q # r =>
  /\ pc'[q] = pc[q] /\ todo'[q] = todo[q] /\ runDir'[q] = runDir[q]
  /\ sandbox'[q] = sandbox[q] /\ child'[q] = child[q] /\ call'[q] = call[q]
  /\ verdict'[q] = verdict[q] /\ records'[q] = records[q] /\ exitCode'[q] = exitCode[q]

\* A run directory has one owner, and what it has yet to run has no result there.
OwnersInv ==
  /\ \A r \in Runners : pc[r] \in Holding => Run(r) \in runs
  /\ \A r, q \in Runners : r # q /\ pc[r] \in Holding /\ pc[q] \in Holding => Run(r) # Run(q)
  /\ \A k \in DOMAIN artifacts : k[1] \in runs
  /\ \A r \in Runners : pc[r] \in Holding => \A i \in todo[r] : Key(r, i) \notin DOMAIN artifacts

\* The first of the places that are left is one of them.
LEMMA MinOfPlaces ==
  ASSUME NEW S \in SUBSET DOMAIN Catalog, S # {}
  PROVE  Min(S) \in S
<1>1. S \subseteq Nat
  BY CatalogAssumption
<1>2. PICK x \in S : \A y \in S : ~ (<<y, x>> \in OpToRel(<, Nat))
  BY <1>1, WFMin, NatLessThanWellFounded, Zenon
<1>3. ASSUME NEW y \in S, NEW z \in S, y < z
      PROVE  <<y, z>> \in OpToRel(<, Nat)
  <2>1. <<y, z>> \in Nat \X Nat /\ <<y, z>>[1] < <<y, z>>[2]
    BY <1>1, <1>3
  <2> QED
    BY <2>1, Zenon DEF OpToRel
<1>4. \A y \in S : ~(y < x)
  BY <1>2, <1>3, Zenon
<1>5. \A y \in S : x <= y
  BY <1>1, <1>4
<1> QED
  BY <1>5, Zenon DEF Min

LEMMA FixtureType ==
  ASSUME NEW r \in Runners, TypeInv, todo[r] # {}
  PROVE  Fixture(r) \in Entries
<1>1. Min(todo[r]) \in DOMAIN Catalog
  BY MinOfPlaces DEF TypeInv
<1> QED
  BY <1>1, CatalogAssumption DEF Fixture

-----------------------------------------------------------------------------
(* What the steps do to a process, a call and a sandbox.                   *)

LEMMA ChildFields ==
  ASSUME NEW c \in Children
  PROVE  /\ \A d \in Entries : [c EXCEPT !.of = d] \in Children
         /\ \A e \in {"none", "failed", "exit", "signal"} : [c EXCEPT !.end = e] \in Children
         /\ \A n \in Codes : [c EXCEPT !.code = n] \in Children
         /\ [c EXCEPT !.closed = TRUE] \in Children
         /\ \A s \in Seq(Outputs) : [c EXCEPT !.out = s] \in Children
         /\ \A s \in Seq(Outputs) : [c EXCEPT !.err = s] \in Children
         /\ \A t \in {"torn", "written"} : [c EXCEPT !.trace = t] \in Children
         /\ \A t \in Traces : [c EXCEPT !.events = t] \in Children
<1>1. \A d \in Entries : [c EXCEPT !.of = d] \in Children
  BY DEF Children
<1>2. \A e \in {"none", "failed", "exit", "signal"} : [c EXCEPT !.end = e] \in Children
  BY DEF Children
<1>3. \A n \in Codes : [c EXCEPT !.code = n] \in Children
  BY DEF Children
<1>4. [c EXCEPT !.closed = TRUE] \in Children
  BY DEF Children
<1>5. \A s \in Seq(Outputs) : [c EXCEPT !.out = s] \in Children
  BY DEF Children
<1>6. \A s \in Seq(Outputs) : [c EXCEPT !.err = s] \in Children
  BY DEF Children
<1>7. \A t \in {"torn", "written"} : [c EXCEPT !.trace = t] \in Children
  BY DEF Children
<1>8. \A t \in Traces : [c EXCEPT !.events = t] \in Children
  BY DEF Children
<1> QED
  BY <1>1, <1>2, <1>3, <1>4, <1>5, <1>6, <1>7, <1>8, Zenon

LEMMA CallFields ==
  ASSUME NEW c \in Calls
  PROVE  /\ \A s \in Seq(Outputs) : [c EXCEPT !.out = s] \in Calls
         /\ \A s \in Seq(Outputs) : [c EXCEPT !.err = s] \in Calls
         /\ \A t \in {"off", "armed", "fired"} : [c EXCEPT !.timer = t] \in Calls
         /\ \A t \in SUBSET {"trace", "preload"} : [c EXCEPT !.temps = t] \in Calls
         /\ [c EXCEPT !.settled = TRUE] \in Calls
         /\ \A t \in TraceStates : [c EXCEPT !.traced = t] \in Calls
         /\ \A x \in Codes \union {0, NoValue} : [c EXCEPT !.exit = x] \in Calls
<1>1. \A s \in Seq(Outputs) : [c EXCEPT !.out = s] \in Calls
  BY DEF Calls
<1>2. \A s \in Seq(Outputs) : [c EXCEPT !.err = s] \in Calls
  BY DEF Calls
<1>3. \A t \in {"off", "armed", "fired"} : [c EXCEPT !.timer = t] \in Calls
  BY DEF Calls
<1>4. \A t \in SUBSET {"trace", "preload"} : [c EXCEPT !.temps = t] \in Calls
  BY DEF Calls
<1>5. [c EXCEPT !.settled = TRUE] \in Calls
  BY DEF Calls
<1>6. \A t \in TraceStates : [c EXCEPT !.traced = t] \in Calls
  BY DEF Calls
<1>7. \A x \in Codes \union {0, NoValue} : [c EXCEPT !.exit = x] \in Calls
  BY DEF Calls
<1> QED
  BY <1>1, <1>2, <1>3, <1>4, <1>5, <1>6, <1>7, Zenon

\* A step of one runner changes its own entry.
LEMMA OwnEntry ==
  ASSUME NEW S, NEW f \in [Runners -> S], NEW r \in Runners, NEW x \in S
  PROVE  /\ [f EXCEPT ![r] = x] \in [Runners -> S]
         /\ [f EXCEPT ![r] = x][r] = x
         /\ \A q \in Runners : q # r => [f EXCEPT ![r] = x][q] = f[q]
OBVIOUS

LEMMA TreesOf ==
  ASSUME NEW d \in Entries
  PROVE  d.tree \in Trees /\ \A t \in TreesAfter(d) : t \in Trees
BY DEF Trees

LEMMA InitType == Init => TypeInv
BY DEF Init, TypeInv, Choosing, Holding, Busy, Starting, Ending, Ended, NoChild, NoCall, NoSandbox,
       Children, Calls, Sandboxes, Trees, TraceStates, Verdicts

-----------------------------------------------------------------------------
(* Every step keeps the types, and the other runners.                      *)

LEMMA SelectType ==
  ASSUME TypeInv, NEW r \in Runners, Select(r)
  PROVE  TypeInv' /\ Others(r)
<1>1. runnableEntries(sel[r]) \subseteq DOMAIN Catalog
  BY DEF runnableEntries, selectFixtureEntries
<1>2. CASE SelectionFails(sel[r])
  BY <1>2 DEF Select, TypeInv, Others, Exits, Goto, run, shared, Choosing, Holding, Busy, Starting, Ending, Ended
<1>3. CASE ~SelectionFails(sel[r])
  <2>1. /\ pc' = [pc EXCEPT ![r] = "list"] /\ todo' = [todo EXCEPT ![r] = runnableEntries(sel[r])]
        /\ UNCHANGED <<sel, runDir, records, exitCode, sandbox, child, call, verdict>>
    BY <1>3 DEF Select, Goto
  <2>2. TypeInv'
    BY <1>1, <2>1 DEF TypeInv, Choosing
  <2>3. Others(r)
    BY <2>1 DEF TypeInv, Others
  <2> QED
    BY <2>2, <2>3
<1> QED
  BY <1>2, <1>3

LEMMA ListRunsType ==
  ASSUME TypeInv, NEW r \in Runners, ListRuns(r)
  PROVE  TypeInv' /\ Others(r)
BY DEF ListRuns, TypeInv, Others, Exits, Goto, run, shared, Choosing, Holding, Busy, Starting, Ending, Ended

LEMMA ReserveType ==
  ASSUME TypeInv, NEW r \in Runners, Reserve(r)
  PROVE  TypeInv' /\ Others(r)
BY DEF Reserve, TypeInv, Others, Exits, Goto, run, shared, Choosing, Holding, Busy, Starting, Ending, Ended

LEMMA SummariseType ==
  ASSUME TypeInv, NEW r \in Runners, Summarise(r)
  PROVE  TypeInv' /\ Others(r)
BY DEF Summarise, TypeInv, Others, Exits, Goto, run, shared, Choosing, Holding, Busy, Starting, Ending, Ended

LEMMA InterruptType ==
  ASSUME TypeInv, NEW r \in Runners, Interrupt(r)
  PROVE  TypeInv' /\ Others(r)
BY DEF Interrupt, TypeInv, Others, Exits, Goto, run, shared, Choosing, Holding, Busy, Starting, Ending, Ended

LEMMA JudgeType ==
  ASSUME TypeInv, NEW r \in Runners, Judge(r)
  PROVE  TypeInv' /\ Others(r)
<1>1. PICK v \in Verdicts : verdict' = [verdict EXCEPT ![r] = v]
  BY DEF Judge, Fails, FirstFailure, Verdicts, TypeInv
<1> QED
  BY <1>1 DEF Judge, TypeInv, Others, Goto, run, shared, Choosing, Holding, Busy, Starting, Ending, Ended

LEMMA LoadType ==
  ASSUME TypeInv, NEW r \in Runners, Load(r)
  PROVE  TypeInv' /\ Others(r)
<1>1. NoSandbox \in Sandboxes /\ NoChild \in Children /\ NoCall \in Calls
  BY DEF NoSandbox, NoChild, NoCall, Sandboxes, Children, Calls, Trees, TraceStates
<1>2. sandbox' \in [Runners -> Sandboxes] /\ child' \in [Runners -> Children] /\ call' \in [Runners -> Calls]
  BY <1>1 DEF Load, TypeInv
<1>3. PICK v \in Verdicts, l \in Busy : verdict' = [verdict EXCEPT ![r] = v] /\ pc' = [pc EXCEPT ![r] = l]
  BY DEF Load, Fails, Goto, Verdicts, Busy, Starting, Ending
<1> QED
  BY <1>2, <1>3 DEF Load, TypeInv, Others, run, shared, Holding

LEMMA MaterializeType ==
  ASSUME TypeInv, NEW r \in Runners, todo[r] # {}, Materialize(r)
  PROVE  TypeInv' /\ Others(r)
<1>1. Fixture(r).tree \in Trees
  BY FixtureType, TreesOf
<1>2. [state |-> "ready", pre |-> Fixture(r).tree, tree |-> Fixture(r).tree] \in Sandboxes
  BY <1>1 DEF Sandboxes
<1>3. sandbox' \in [Runners -> Sandboxes] /\ \A q \in Runners : q # r => sandbox'[q] = sandbox[q]
  BY <1>2 DEF Materialize, TypeInv
<1>4. PICK v \in Verdicts, l \in Busy : verdict' = [verdict EXCEPT ![r] = v] /\ pc' = [pc EXCEPT ![r] = l]
  BY DEF Materialize, Fails, Goto, Verdicts, Busy, Starting, Ending, TypeInv
<1> QED
  BY <1>3, <1>4 DEF Materialize, TypeInv, Others, run, shared, Holding

LEMMA CleanupType ==
  ASSUME TypeInv, NEW r \in Runners, Cleanup(r)
  PROVE  TypeInv' /\ Others(r)
<1>1. [sandbox[r] EXCEPT !.state = "removed"] \in Sandboxes
  BY DEF Sandboxes, TypeInv
<1>2. sandbox' \in [Runners -> Sandboxes] /\ \A q \in Runners : q # r => sandbox'[q] = sandbox[q]
  BY <1>1 DEF Cleanup, TypeInv
<1>3. PICK v \in Verdicts : verdict' = [verdict EXCEPT ![r] = v]
  BY DEF Cleanup, Fails, Verdicts, TypeInv
<1> QED
  BY <1>2, <1>3 DEF Cleanup, TypeInv, Others, Goto, run, shared, Holding, Busy, Ending

LEMMA PrepareType ==
  ASSUME TypeInv, NEW r \in Runners, Prepare(r)
  PROVE  /\ TypeInv' /\ Others(r) /\ call'[r].timer = call[r].timer
         /\ call'[r].settled = call[r].settled /\ call'[r].exit = call[r].exit
<1>1. PICK temps \in SUBSET {"trace", "preload"}, traced \in TraceStates :
        call' = [call EXCEPT ![r].temps = temps, ![r].traced = traced]
  BY DEF Prepare, TraceStates
<1>2. [call[r] EXCEPT !.temps = temps] \in Calls
  BY CallFields DEF TypeInv
<1>3. [call[r] EXCEPT !.temps = temps, !.traced = traced] \in Calls
  BY <1>2, CallFields
<1>4. call' = [call EXCEPT ![r] = [call[r] EXCEPT !.temps = temps, !.traced = traced]]
  BY <1>1
<1>5. /\ call' \in [Runners -> Calls] /\ \A q \in Runners : q # r => call'[q] = call[q]
      /\ call'[r].timer = call[r].timer /\ call'[r].settled = call[r].settled /\ call'[r].exit = call[r].exit
  <2>1. call'[r] = [call[r] EXCEPT !.temps = temps, !.traced = traced]
    BY <1>4 DEF TypeInv
  <2> QED
    BY <1>3, <1>4, <2>1 DEF TypeInv, Calls
<1>6. PICK v \in Verdicts, l \in Busy : verdict' = [verdict EXCEPT ![r] = v] /\ pc' = [pc EXCEPT ![r] = l]
  BY DEF Prepare, Fails, Goto, Verdicts, Busy, Starting, Ending, TypeInv
<1> QED
  BY <1>5, <1>6 DEF Prepare, TypeInv, Others, run, shared, Holding

LEMMA SpawnType ==
  ASSUME TypeInv, NEW r \in Runners, todo[r] # {}, Spawn(r)
  PROVE  /\ TypeInv' /\ Others(r) /\ call'[r].settled = call[r].settled /\ call'[r].exit = call[r].exit
         /\ \/ /\ pc'[r] = "running" /\ call'[r].timer = "armed"
               /\ child'[r].of = Fixture(r) /\ child'[r].closed = child[r].closed
            \/ /\ pc'[r] = "judge" /\ verdict'[r] = "harness"
               /\ call'[r].timer = call[r].timer /\ child'[r] = child[r]
<1>1. Fixture(r) \in Entries /\ child[r] \in Children /\ call[r] \in Calls
  BY FixtureType DEF TypeInv
<1>2. [child[r] EXCEPT !.of = Fixture(r)] \in Children
  BY <1>1, ChildFields
<1>3. [child[r] EXCEPT !.of = Fixture(r), !.end = "failed"] \in Children
  BY <1>2, ChildFields
<1>4. [call[r] EXCEPT !.timer = "armed"] \in Calls /\ [call[r] EXCEPT !.traced = "none"] \in Calls
  BY <1>1, CallFields DEF TraceStates
<1>5. CASE /\ Goto(r, "running") /\ UNCHANGED verdict
           /\ \/ child' = [child EXCEPT ![r].of = Fixture(r)]
              \/ child' = [child EXCEPT ![r].of = Fixture(r), ![r].end = "failed"]
           /\ call' = [call EXCEPT ![r].timer = "armed"]
  <2>1. PICK c \in Children : /\ child' = [child EXCEPT ![r] = c]
                              /\ c.of = Fixture(r) /\ c.closed = child[r].closed
    <3>1. CASE child' = [child EXCEPT ![r].of = Fixture(r)]
      BY <1>1, <1>2, <3>1 DEF Children
    <3>2. CASE child' = [child EXCEPT ![r].of = Fixture(r), ![r].end = "failed"]
      <4> DEFINE c == [child[r] EXCEPT !.of = Fixture(r), !.end = "failed"]
      <4>1. child' = [child EXCEPT ![r] = c]
        BY <3>2 DEF TypeInv
      <4>2. c.of = Fixture(r) /\ c.closed = child[r].closed
        BY <1>1 DEF Children
      <4> QED
        BY <1>3, <4>1, <4>2, Zenon
    <3> QED
      BY <1>5, <3>1, <3>2
  <2>2. PICK k \in Calls : /\ call' = [call EXCEPT ![r] = k] /\ k.timer = "armed"
                           /\ k.settled = call[r].settled /\ k.exit = call[r].exit
    BY <1>1, <1>4, <1>5 DEF Calls
  <2>3. pc' = [pc EXCEPT ![r] = "running"] /\ UNCHANGED <<verdict, run, todo, shared, sandbox>>
    BY <1>5 DEF Spawn, Goto
  <2> QED
    BY <2>1, <2>2, <2>3 DEF TypeInv, Others, run, shared, Holding, Busy
<1>6. CASE /\ Goto(r, "judge") /\ Fails(r, "harness")
           /\ call' = [call EXCEPT ![r].traced = "none"] /\ UNCHANGED child
  <2>1. PICK k \in Calls : /\ call' = [call EXCEPT ![r] = k] /\ k.timer = call[r].timer
                           /\ k.settled = call[r].settled /\ k.exit = call[r].exit
    BY <1>1, <1>4, <1>6 DEF Calls
  <2>2. /\ pc' = [pc EXCEPT ![r] = "judge"] /\ verdict' = [verdict EXCEPT ![r] = "harness"]
        /\ UNCHANGED <<child, run, todo, shared, sandbox>>
    BY <1>6 DEF Spawn, Goto, Fails
  <2> QED
    BY <2>1, <2>2 DEF TypeInv, Others, run, shared, Holding, Busy, Ending, Verdicts
<1> QED
  BY <1>5, <1>6 DEF Spawn

LEMMA RecordType ==
  ASSUME TypeInv, NEW r \in Runners, todo[r] # {}, Record(r)
  PROVE  TypeInv' /\ Others(r)
<1>1. Fixture(r) \in Entries
  BY FixtureType
<1>2. child[r].events \in Traces \union {<<>>}
  BY DEF Children, TypeInv
<1>3. LastFailedPhase(r) \in Phases
  BY <1>2 DEF LastFailedPhase, Phases
<1> DEFINE result == [by |-> r, fixture |-> Fixture(r), verdict |-> verdict[r], exit |-> call[r].exit,
                      traced |-> call[r].traced, phase |-> LastFailedPhase(r)]
<1>4. call[r].exit \in Codes \union {0, NoValue} /\ call[r].traced \in TraceStates
  BY DEF Calls, TypeInv
<1>5. result \in Results
  BY <1>1, <1>3, <1>4 DEF Results, TypeInv
<1>6. Append(records[r], result) \in Seq(Results)
  BY <1>5 DEF TypeInv
<1>7. records' \in [Runners -> Seq(Results)] /\ \A q \in Runners : q # r => records'[q] = records[q]
  <2>1. records' = [records EXCEPT ![r] = Append(records[r], result)] \/ records' = records
    BY Zenon DEF Record
  <2> HIDE DEF result
  <2> QED
    BY <1>6, <2>1 DEF TypeInv
<1>8. todo' \in [Runners -> SUBSET DOMAIN Catalog] /\ \A q \in Runners : q # r => todo'[q] = todo[q]
  BY DEF Record, TypeInv
<1>9. /\ UNCHANGED <<sel, runDir, sandbox, child, call, verdict>>
      /\ \/ pc' = [pc EXCEPT ![r] = "next"] /\ UNCHANGED exitCode
         \/ pc' = [pc EXCEPT ![r] = "done"] /\ exitCode' = [exitCode EXCEPT ![r] = 1]
  BY DEF Record, Exits, Goto
<1> QED
  BY <1>7, <1>8, <1>9 DEF TypeInv, Others, Holding, Ended

LEMMA ReadOutputType ==
  ASSUME TypeInv, NEW r \in Runners, ReadOutput(r)
  PROVE  /\ TypeInv' /\ Others(r)
         /\ call'[r].timer = call[r].timer /\ call'[r].settled = call[r].settled
         /\ call'[r].temps = call[r].temps /\ call'[r].exit = call[r].exit
<1>1. child[r].out \in Seq(Outputs) /\ child[r].err \in Seq(Outputs)
  BY DEF TypeInv, Children
<1>2. call[r].out \in Seq(Outputs) /\ call[r].err \in Seq(Outputs) /\ call[r] \in Calls
  BY DEF TypeInv, Calls
<1>3. CASE Len(call[r].out) < Len(child[r].out)
           /\ call' = [call EXCEPT ![r].out = Append(@, child[r].out[Len(@) + 1])]
  <2>1. child[r].out[Len(call[r].out) + 1] \in Outputs
    BY <1>1, <1>2, <1>3
  <2>2. Append(call[r].out, child[r].out[Len(call[r].out) + 1]) \in Seq(Outputs)
    BY <1>2, <2>1
  <2>3. [call[r] EXCEPT !.out = Append(call[r].out, child[r].out[Len(call[r].out) + 1])] \in Calls
    BY <1>2, <2>2, CallFields
  <2>4. PICK k \in Calls : /\ call' = [call EXCEPT ![r] = k] /\ k.timer = call[r].timer
                           /\ k.settled = call[r].settled /\ k.temps = call[r].temps /\ k.exit = call[r].exit
    BY <1>2, <1>3, <2>3 DEF Calls
  <2> QED
    BY <2>4 DEF ReadOutput, TypeInv, Others, run, shared
<1>4. CASE Len(call[r].err) < Len(child[r].err)
           /\ call' = [call EXCEPT ![r].err = Append(@, child[r].err[Len(@) + 1])]
  <2>1. child[r].err[Len(call[r].err) + 1] \in Outputs
    BY <1>1, <1>2, <1>4
  <2>2. Append(call[r].err, child[r].err[Len(call[r].err) + 1]) \in Seq(Outputs)
    BY <1>2, <2>1
  <2>3. [call[r] EXCEPT !.err = Append(call[r].err, child[r].err[Len(call[r].err) + 1])] \in Calls
    BY <1>2, <2>2, CallFields
  <2>4. PICK k \in Calls : /\ call' = [call EXCEPT ![r] = k] /\ k.timer = call[r].timer
                           /\ k.settled = call[r].settled /\ k.temps = call[r].temps /\ k.exit = call[r].exit
    BY <1>2, <1>4, <2>3 DEF Calls
  <2> QED
    BY <2>4 DEF ReadOutput, TypeInv, Others, run, shared
<1> QED
  BY <1>3, <1>4 DEF ReadOutput

LEMMA TimeoutType ==
  ASSUME TypeInv, NEW r \in Runners, Timeout(r)
  PROVE  /\ TypeInv' /\ Others(r)
         /\ call'[r].timer = "fired" /\ call'[r].settled = call[r].settled /\ call'[r].exit = call[r].exit
         /\ child'[r].of = child[r].of /\ child'[r].closed = child[r].closed
         /\ child'[r].end \in {"exit", "signal"}
<1> DEFINE end == IF child[r].end = "none" THEN "signal" ELSE child[r].end
<1>1. child[r].end \in {"none", "failed", "exit", "signal"} /\ child[r] \in Children /\ call[r] \in Calls
  BY DEF TypeInv, Children
<1>2. [child[r] EXCEPT !.end = end] \in Children
  BY <1>1, ChildFields
<1>3. child' = [child EXCEPT ![r] = [child[r] EXCEPT !.end = end]]
  BY DEF Timeout
<1>4. end \in {"exit", "signal"}
  BY <1>1 DEF Timeout
<1>5. PICK c \in Children : /\ child' = [child EXCEPT ![r] = c] /\ c.end \in {"exit", "signal"}
                            /\ c.of = child[r].of /\ c.closed = child[r].closed
  <2> HIDE DEF end
  <2> QED
    BY <1>1, <1>2, <1>3, <1>4 DEF Children
<1>6. [call[r] EXCEPT !.timer = "fired"] \in Calls
  BY <1>1, CallFields
<1>7. PICK k \in Calls : /\ call' = [call EXCEPT ![r] = k] /\ k.timer = "fired"
                         /\ k.settled = call[r].settled /\ k.exit = call[r].exit
  BY <1>1, <1>6 DEF Timeout, Calls
<1>8. UNCHANGED <<pc, run, todo, shared, sandbox, verdict, faults>>
  BY DEF Timeout
<1> QED
  BY <1>5, <1>7, <1>8 DEF TypeInv, Others, run, shared

\* What becomes of the temporary directories when a call settles: those that stay
\* are a failure, and the runner ends when the preload is one of them.
Drops(r, kept) ==
  /\ kept \subseteq Disposed(r)
  /\ call'[r].temps = call[r].temps \ (Disposed(r) \ kept)
  /\ IF kept = {} THEN faults' = faults ELSE Fault
  /\ IF "preload" \in kept
     THEN pc' = [pc EXCEPT ![r] = "done"] /\ exitCode' = [exitCode EXCEPT ![r] = 1]
     ELSE pc' = [pc EXCEPT ![r] = "judge"] /\ exitCode' = exitCode

\* What settling does: nothing the second time.
LEMMA SettleType ==
  ASSUME TypeInv, NEW r \in Runners, NEW v \in Verdicts, NEW t \in TraceStates,
         NEW x \in Codes \union {0, NoValue}, Settle(r, v, t, x), ~call[r].settled
  PROVE  /\ call' \in [Runners -> Calls] /\ \A q \in Runners : q # r => call'[q] = call[q]
         /\ call'[r].settled /\ call'[r].exit = x
         /\ call'[r].timer = IF call[r].timer = "armed" THEN "off" ELSE call[r].timer
         /\ call'[r].out = call[r].out /\ call'[r].err = call[r].err
         /\ verdict' = [verdict EXCEPT ![r] = v]
         /\ \E kept : Drops(r, kept)
<1>1. PICK kept \in SUBSET Disposed(r) :
        /\ IF kept = {} THEN NoFault ELSE Fault
        /\ call' = [call EXCEPT ![r].settled = TRUE, ![r].traced = t, ![r].exit = x,
                                ![r].timer = IF @ = "armed" THEN "off" ELSE @,
                                ![r].temps = @ \ (Disposed(r) \ kept)]
        /\ Fails(r, v)
        /\ IF "preload" \in kept THEN Exits(r, 1) ELSE Goto(r, "judge") /\ UNCHANGED exitCode
  BY Zenon DEF Settle
<1> DEFINE timer == IF call[r].timer = "armed" THEN "off" ELSE call[r].timer
           temps == call[r].temps \ (Disposed(r) \ kept)
           k1 == [call[r] EXCEPT !.settled = TRUE]
           k2 == [k1 EXCEPT !.traced = t]
           k3 == [k2 EXCEPT !.exit = x]
           k4 == [k3 EXCEPT !.timer = timer]
           k5 == [k4 EXCEPT !.temps = temps]
<1>2. /\ call[r] \in Calls /\ timer \in {"off", "armed", "fired"}
      /\ temps \in SUBSET {"trace", "preload"}
  BY DEF TypeInv, Calls
<1>3. k1 \in Calls
  BY <1>2, CallFields
<1>4. k2 \in Calls
  BY <1>3, CallFields
<1>5. k3 \in Calls
  BY <1>4, CallFields
<1>6. k4 \in Calls
  BY <1>2, <1>5, CallFields
<1>7. k5 \in Calls
  <2> HIDE DEF temps, k4
  <2> QED
    BY <1>2, <1>6, CallFields
<1>8. call' = [call EXCEPT ![r] = k5]
  BY <1>1, <1>2 DEF TypeInv, Calls
<1>9. call'[r] = k5 /\ call' \in [Runners -> Calls] /\ \A q \in Runners : q # r => call'[q] = call[q]
  BY <1>7, <1>8 DEF TypeInv
<1>10. /\ k5.settled /\ k5.temps = temps /\ k5.exit = x /\ k5.timer = timer
       /\ k5.out = call[r].out /\ k5.err = call[r].err
  BY <1>2 DEF Calls
<1>11. Drops(r, kept) /\ verdict' = [verdict EXCEPT ![r] = v]
  BY <1>1, <1>9, <1>10 DEF Drops, NoFault, Fails, Exits, Goto
<1> QED
  BY <1>9, <1>10, <1>11

LEMMA TraceStatusType ==
  ASSUME TypeInv, NEW r \in Runners
  PROVE  TraceStatus(r) \in TraceStates
BY DEF TypeInv, TraceStatus, TraceStates, Children, Calls

LEMMA ErrorEventType ==
  ASSUME TypeInv, NEW r \in Runners, ErrorEvent(r)
  PROVE  /\ TypeInv' /\ Others(r)
         /\ call'[r].settled /\ call'[r].exit = NoValue /\ verdict'[r] = "process"
         /\ call'[r].timer = IF call[r].timer = "armed" THEN "off" ELSE call[r].timer
         /\ call'[r].out = call[r].out /\ call'[r].err = call[r].err
         /\ \E kept : Drops(r, kept)
<1>1. PICK t \in TraceStates : Settle(r, "process", t, NoValue)
  BY DEF ErrorEvent, TraceStates, TypeInv, Calls
<1>2. /\ call' \in [Runners -> Calls] /\ \A q \in Runners : q # r => call'[q] = call[q]
      /\ call'[r].settled /\ call'[r].exit = NoValue
      /\ call'[r].timer = IF call[r].timer = "armed" THEN "off" ELSE call[r].timer
      /\ call'[r].out = call[r].out /\ call'[r].err = call[r].err
      /\ verdict' = [verdict EXCEPT ![r] = "process"]
      /\ \E kept : Drops(r, kept)
  BY <1>1, SettleType DEF ErrorEvent, Verdicts
<1>3. PICK kept : Drops(r, kept)
  BY <1>2
<1>4. UNCHANGED <<sel, runDir, records, todo, sandbox, child>>
  BY DEF ErrorEvent
<1> QED
  BY <1>2, <1>3, <1>4 DEF Drops, TypeInv, Others, Holding, Busy, Ending, Ended, Verdicts

\* What close settles, when nothing did before.
Closes(r, v, x) ==
  /\ call'[r].settled /\ call'[r].exit = x
  /\ call'[r].timer = IF call[r].timer = "armed" THEN "off" ELSE call[r].timer
  /\ call'[r].out = call[r].out /\ call'[r].err = call[r].err
  /\ verdict'[r] = v
  /\ \E kept : Drops(r, kept)
  /\ \/ v = "process.timeout" /\ x = NoValue /\ call[r].timer = "fired"
     \/ v = "process" /\ x = NoValue /\ call[r].timer # "fired" /\ child[r].end # "exit"
     \/ v = "none" /\ x = child[r].code /\ call[r].timer # "fired" /\ child[r].end = "exit"

LEMMA CloseEventType ==
  ASSUME TypeInv, NEW r \in Runners, CloseEvent(r)
  PROVE  /\ TypeInv' /\ Others(r)
         /\ child'[r] = [child[r] EXCEPT !.closed = TRUE]
         /\ IF call[r].settled THEN UNCHANGED <<pc, call, verdict, exitCode, faults>>
            ELSE \E v \in Verdicts, x \in Codes \union {0, NoValue} : Closes(r, v, x)
<1>1. child[r] \in Children /\ child[r].code \in Codes \union {0, NoValue}
  BY DEF TypeInv, Children
<1>2. [child[r] EXCEPT !.closed = TRUE] \in Children
  BY <1>1, ChildFields
<1>3. /\ child' \in [Runners -> Children] /\ \A q \in Runners : q # r => child'[q] = child[q]
      /\ child'[r] = [child[r] EXCEPT !.closed = TRUE]
  BY <1>2 DEF CloseEvent, TypeInv
<1>4. UNCHANGED <<sel, runDir, records, todo, sandbox>>
  BY DEF CloseEvent
<1>5. CASE call[r].settled
  <2>1. UNCHANGED <<pc, call, verdict, exitCode, faults>>
    BY <1>5 DEF CloseEvent, Settle
  <2> QED
    BY <1>3, <1>4, <1>5, <2>1 DEF TypeInv, Others
<1>6. CASE ~call[r].settled
  <2>1. PICK v \in Verdicts, x \in Codes \union {0, NoValue} :
          /\ Settle(r, v, TraceStatus(r), x)
          /\ \/ v = "process.timeout" /\ x = NoValue /\ call[r].timer = "fired"
             \/ v = "process" /\ x = NoValue /\ call[r].timer # "fired" /\ child[r].end # "exit"
             \/ v = "none" /\ x = child[r].code /\ call[r].timer # "fired" /\ child[r].end = "exit"
    <3>1. CASE call[r].timer = "fired"
      BY <3>1 DEF CloseEvent, Verdicts
    <3>2. CASE call[r].timer # "fired" /\ child[r].end # "exit"
      BY <3>2 DEF CloseEvent, Verdicts
    <3>3. CASE call[r].timer # "fired" /\ child[r].end = "exit"
      BY <1>1, <3>3 DEF CloseEvent, Verdicts
    <3> QED
      BY <3>1, <3>2, <3>3
  <2>2. /\ call' \in [Runners -> Calls] /\ \A q \in Runners : q # r => call'[q] = call[q]
        /\ call'[r].settled /\ call'[r].exit = x
        /\ call'[r].timer = IF call[r].timer = "armed" THEN "off" ELSE call[r].timer
        /\ call'[r].out = call[r].out /\ call'[r].err = call[r].err
        /\ verdict' = [verdict EXCEPT ![r] = v]
        /\ \E kept : Drops(r, kept)
    BY <1>6, <2>1, SettleType, TraceStatusType
  <2>3. PICK kept : Drops(r, kept)
    BY <2>2
  <2>4. TypeInv' /\ Others(r)
    <3>1. /\ pc' \in [Runners -> Choosing \union Holding \union Ended]
          /\ exitCode' \in [Runners -> {0, 1, NoValue}]
          /\ \A q \in Runners : q # r => pc'[q] = pc[q] /\ exitCode'[q] = exitCode[q]
      BY <2>3 DEF Drops, TypeInv, Holding, Busy, Ending, Ended
    <3>2. verdict' \in [Runners -> Verdicts] /\ \A q \in Runners : q # r => verdict'[q] = verdict[q]
      BY <2>2 DEF TypeInv
    <3> QED
      BY <1>3, <1>4, <2>2, <3>1, <3>2 DEF TypeInv, Others
  <2>5. verdict'[r] = v
    BY <2>2 DEF TypeInv
  <2>6. Closes(r, v, x)
    BY <2>1, <2>2, <2>5 DEF Closes
  <2> QED
    BY <1>3, <1>6, <2>4, <2>6
<1> QED
  BY <1>5, <1>6

\* What an event does to the runner itself.
LEMMA EventsOutcome ==
  ASSUME TypeInv, NEW r \in Runners, Events(r)
  PROVE  /\ \/ pc' = pc /\ exitCode' = exitCode
            \/ pc'[r] = "judge" /\ exitCode' = exitCode
            \/ pc'[r] = "done" /\ exitCode'[r] = 1
         /\ faults' = faults \/ Fault
<1>1. CASE ReadOutput(r) \/ Timeout(r)
  BY <1>1 DEF ReadOutput, Timeout, run
<1>2. ASSUME NEW kept, Drops(r, kept)
      PROVE  /\ \/ pc'[r] = "judge" /\ exitCode' = exitCode
                \/ pc'[r] = "done" /\ exitCode'[r] = 1
             /\ faults' = faults \/ Fault
  BY <1>2 DEF Drops, TypeInv
<1>3. CASE ErrorEvent(r)
  BY <1>2, <1>3, ErrorEventType
<1>4. CASE CloseEvent(r)
  BY <1>2, <1>4, CloseEventType DEF Closes
<1> QED
  BY <1>1, <1>3, <1>4 DEF Events

LEMMA ChildWritesType ==
  ASSUME TypeInv, NEW r \in Runners, ChildWrites(r)
  PROVE  /\ TypeInv' /\ Others(r)
         /\ child'[r].of = child[r].of /\ child'[r].closed = child[r].closed
<1>1. child[r] \in Children /\ child[r].out \in Seq(Outputs) /\ child[r].err \in Seq(Outputs)
  BY DEF TypeInv, Children
<1>2. PICK o \in Outputs : \/ child' = [child EXCEPT ![r].out = Append(@, o)]
                           \/ child' = [child EXCEPT ![r].err = Append(@, o)]
  BY DEF ChildWrites
<1>3. Append(child[r].out, o) \in Seq(Outputs) /\ Append(child[r].err, o) \in Seq(Outputs)
  BY <1>1
<1>4. /\ [child[r] EXCEPT !.out = Append(child[r].out, o)] \in Children
      /\ [child[r] EXCEPT !.err = Append(child[r].err, o)] \in Children
  BY <1>1, <1>3, ChildFields
<1>5. PICK c \in Children : /\ child' = [child EXCEPT ![r] = c]
                            /\ c.of = child[r].of /\ c.closed = child[r].closed
  <2>1. CASE child' = [child EXCEPT ![r].out = Append(@, o)]
    BY <1>1, <1>4, <2>1 DEF Children
  <2>2. CASE child' = [child EXCEPT ![r].err = Append(@, o)]
    BY <1>1, <1>4, <2>2 DEF Children
  <2> QED
    BY <1>2, <2>1, <2>2
<1>6. UNCHANGED <<pc, run, todo, shared, call, verdict, faults, sandbox>>
  BY DEF ChildWrites, Silent
<1> QED
  BY <1>5, <1>6 DEF TypeInv, Others, run, shared

LEMMA ChildMutatesType ==
  ASSUME TypeInv, NEW r \in Runners, todo[r] # {}, ChildMutates(r)
  PROVE  /\ TypeInv' /\ Others(r) /\ child'[r] = child[r]
         /\ sandbox'[r].state = sandbox[r].state /\ sandbox'[r].pre = sandbox[r].pre
<1>1. PICK t \in Trees : sandbox' = [sandbox EXCEPT ![r].tree = t]
  BY FixtureType, TreesOf DEF ChildMutates
<1>2. sandbox[r] \in Sandboxes
  BY DEF TypeInv
<1>3. [sandbox[r] EXCEPT !.tree = t] \in Sandboxes
  BY <1>2 DEF Sandboxes
<1>4. PICK x \in Sandboxes : /\ sandbox' = [sandbox EXCEPT ![r] = x]
                             /\ x.state = sandbox[r].state /\ x.pre = sandbox[r].pre
  BY <1>1, <1>2, <1>3 DEF Sandboxes
<1>5. UNCHANGED <<pc, run, todo, shared, call, verdict, faults, child>>
  BY DEF ChildMutates, Silent
<1> QED
  BY <1>4, <1>5 DEF TypeInv, Others, run, shared

LEMMA ChildTracesType ==
  ASSUME TypeInv, NEW r \in Runners, ChildTraces(r)
  PROVE  /\ TypeInv' /\ Others(r)
         /\ child'[r].of = child[r].of /\ child'[r].closed = child[r].closed
<1>1. child[r] \in Children
  BY DEF TypeInv
<1>2. [child[r] EXCEPT !.trace = "torn"] \in Children /\ [child[r] EXCEPT !.trace = "written"] \in Children
  BY <1>1, ChildFields
<1>3. PICK c \in Children : /\ child' = [child EXCEPT ![r] = c]
                            /\ c.of = child[r].of /\ c.closed = child[r].closed
  <2>1. CASE child' = [child EXCEPT ![r].trace = "torn"]
    BY <1>1, <1>2, <2>1 DEF Children
  <2>2. ASSUME NEW t \in Traces, child' = [child EXCEPT ![r].trace = "written", ![r].events = t]
        PROVE  \E c \in Children : /\ child' = [child EXCEPT ![r] = c]
                                   /\ c.of = child[r].of /\ c.closed = child[r].closed
    <3> DEFINE c == [child[r] EXCEPT !.trace = "written", !.events = t]
    <3>1. c \in Children
      BY <1>2, ChildFields
    <3>2. c.of = child[r].of /\ c.closed = child[r].closed
      BY <1>1 DEF Children
    <3>3. child' = [child EXCEPT ![r] = c]
      BY <2>2 DEF TypeInv
    <3> QED
      BY <3>1, <3>2, <3>3, Zenon
  <2> QED
    BY <2>1, <2>2 DEF ChildTraces
<1>4. UNCHANGED <<pc, run, todo, shared, call, verdict, faults, sandbox>>
  BY DEF ChildTraces, Silent
<1> QED
  BY <1>3, <1>4 DEF TypeInv, Others, run, shared

LEMMA ChildEndsType ==
  ASSUME TypeInv, NEW r \in Runners, ChildEnds(r)
  PROVE  /\ TypeInv' /\ Others(r)
         /\ child'[r].of = child[r].of /\ child'[r].closed = child[r].closed
<1>1. child[r] \in Children
  BY DEF TypeInv
<1>2. [child[r] EXCEPT !.end = "exit"] \in Children /\ [child[r] EXCEPT !.end = "signal"] \in Children
  BY <1>1, ChildFields
<1>3. PICK c \in Children : /\ child' = [child EXCEPT ![r] = c]
                            /\ c.of = child[r].of /\ c.closed = child[r].closed
  <2>1. CASE child' = [child EXCEPT ![r].end = "signal"]
    BY <1>1, <1>2, <2>1 DEF Children
  <2>2. ASSUME NEW n \in Codes, child' = [child EXCEPT ![r].end = "exit", ![r].code = n]
        PROVE  \E c \in Children : /\ child' = [child EXCEPT ![r] = c]
                                   /\ c.of = child[r].of /\ c.closed = child[r].closed
    <3> DEFINE c == [child[r] EXCEPT !.end = "exit", !.code = n]
    <3>1. c \in Children
      BY <1>2, ChildFields
    <3>2. c.of = child[r].of /\ c.closed = child[r].closed
      BY <1>1 DEF Children
    <3>3. child' = [child EXCEPT ![r] = c]
      BY <2>2 DEF TypeInv
    <3> QED
      BY <3>1, <3>2, <3>3, Zenon
  <2> QED
    BY <2>1, <2>2 DEF ChildEnds
<1>4. UNCHANGED <<pc, run, todo, shared, call, verdict, faults, sandbox>>
  BY DEF ChildEnds, Silent
<1> QED
  BY <1>3, <1>4 DEF TypeInv, Others, run, shared

-----------------------------------------------------------------------------
(* The phases of one fixture.                                              *)

Before == Choosing \union Starting
After  == Ending \union {"next"}

\* Nothing is started, or what was started has settled.
Fresh(r)   == child[r] = NoChild /\ ~call[r].settled /\ call[r].timer = "off" /\ call[r].exit = NoValue
Settled(r) == /\ child[r].of # NoValue /\ child[r].end # "none"
              /\ call[r].settled /\ call[r].timer # "armed"

PhaseInv(r) ==
  /\ pc[r] \in Busy => todo[r] # {}
  /\ pc[r] \in Before => Fresh(r)
  /\ pc[r] = "running" =>
       /\ child[r].of = Fixture(r) /\ ~child[r].closed
       /\ ~call[r].settled /\ call[r].exit = NoValue /\ call[r].timer # "off"
       /\ call[r].timer = "fired" => child[r].end \in {"exit", "signal"}
  /\ pc[r] \in After => Fresh(r) \/ Settled(r)

\* Outside of "running" the command does nothing, and only close or a read may come.
LEMMA Quiet ==
  ASSUME TypeInv, NEW r \in Runners, PhaseInv(r), pc[r] \in Before \union After
  PROVE  /\ ~Command(r) /\ ~Timeout(r) /\ ~ErrorEvent(r)
         /\ Fresh(r) => ~Events(r)
         /\ CloseEvent(r) => call[r].settled
<1>1. CASE Fresh(r)
  <2>1. child[r].of = NoValue /\ child[r].end = "none" /\ child[r].out = <<>> /\ child[r].err = <<>>
    BY <1>1 DEF Fresh, NoChild
  <2>2. ~Command(r) /\ ~Timeout(r) /\ ~ErrorEvent(r) /\ ~CloseEvent(r)
    BY <1>1, <2>1 DEF Fresh, Command, ChildWrites, ChildMutates, ChildTraces, ChildEnds, Alive, Timeout,
         ErrorEvent, CloseEvent
  <2>3. call[r].out \in Seq(Outputs) /\ call[r].err \in Seq(Outputs)
    BY DEF TypeInv, Calls
  <2>4. ~ReadOutput(r)
    BY <2>1, <2>3 DEF ReadOutput
  <2> QED
    BY <2>2, <2>4 DEF Events
<1>2. CASE Settled(r)
  <2>1. ~Command(r) /\ ~Timeout(r) /\ ~ErrorEvent(r) /\ call[r].settled /\ child[r].of # NoValue
    BY <1>2 DEF Settled, Command, ChildWrites, ChildMutates, ChildTraces, ChildEnds, Alive, Timeout, ErrorEvent
  <2> QED
    BY <2>1 DEF Fresh, NoChild
<1> QED
  BY <1>1, <1>2 DEF PhaseInv

LEMMA HarnessPhase ==
  ASSUME TypeInv, TypeInv', NEW r \in Runners, PhaseInv(r), Harness(r)
  PROVE  PhaseInv(r)'
<1> USE DEF Before, After, Choosing, Starting, Ending, Busy
<1>1. CASE Select(r)
  BY <1>1 DEF Select, Exits, Goto, TypeInv, PhaseInv, Fresh
<1>2. CASE ListRuns(r)
  BY <1>2 DEF ListRuns, Goto, TypeInv, PhaseInv, Fresh
<1>3. CASE Reserve(r)
  BY <1>3 DEF Reserve, Exits, Goto, TypeInv, PhaseInv, Fresh
<1>4. CASE Load(r)
  <2>1. child'[r] = NoChild /\ call'[r] = NoCall /\ pc'[r] \in {"materialize", "cleanup"} /\ todo'[r] # {}
    BY <1>4 DEF Load, TypeInv, Goto
  <2> QED
    BY <2>1 DEF PhaseInv, Fresh, NoCall
<1>5. CASE Materialize(r)
  <2>1. pc'[r] \in {"prepare", "cleanup"} /\ UNCHANGED <<child, call, todo>> /\ pc[r] = "materialize"
    BY <1>5 DEF Materialize, TypeInv, Goto
  <2> QED
    BY <2>1 DEF PhaseInv, Fresh
<1>6. CASE Prepare(r)
  <2>1. pc'[r] \in {"spawn", "judge"} /\ UNCHANGED <<child, todo>> /\ pc[r] = "prepare"
    BY <1>6 DEF Prepare, TypeInv, Goto
  <2> QED
    BY <1>6, <2>1, PrepareType DEF PhaseInv, Fresh
<1>7. CASE Spawn(r)
  <2>1. pc[r] = "spawn" /\ todo[r] # {} /\ todo' = todo /\ Fresh(r)
    BY <1>7 DEF Spawn, PhaseInv
  <2>2. Fixture(r)' = Fixture(r)
    BY <2>1 DEF Fixture
  <2> QED
    BY <1>7, <2>1, <2>2, SpawnType DEF PhaseInv, Fresh, NoChild
<1>8. CASE Judge(r)
  <2>1. pc'[r] = "cleanup" /\ UNCHANGED <<child, call, todo>> /\ pc[r] = "judge"
    BY <1>8 DEF Judge, TypeInv, Goto
  <2> QED
    BY <2>1 DEF PhaseInv, Fresh, Settled
<1>9. CASE Cleanup(r)
  <2>1. pc'[r] = "record" /\ UNCHANGED <<child, call, todo>> /\ pc[r] = "cleanup"
    BY <1>9 DEF Cleanup, TypeInv, Goto
  <2> QED
    BY <2>1 DEF PhaseInv, Fresh, Settled
<1>10. CASE Record(r)
  <2>1. pc'[r] \in {"next", "done"} /\ UNCHANGED <<child, call>> /\ pc[r] = "record"
    BY <1>10 DEF Record, TypeInv, Goto, Exits
  <2> QED
    BY <2>1 DEF PhaseInv, Fresh, Settled
<1>11. CASE Summarise(r)
  BY <1>11 DEF Summarise, Exits, Goto, TypeInv, PhaseInv
<1> QED
  BY <1>1, <1>2, <1>3, <1>4, <1>5, <1>6, <1>7, <1>8, <1>9, <1>10, <1>11 DEF Harness

LEMMA EventsPhase ==
  ASSUME TypeInv, NEW r \in Runners, PhaseInv(r), pc[r] \notin Ended, Events(r) \/ Command(r)
  PROVE  PhaseInv(r)'
<1> USE DEF After, Ending, Busy
<1>1. Fixture(r)' = Fixture(r) /\ todo' = todo
  BY DEF Fixture, Events, ReadOutput, Timeout, ErrorEvent, CloseEvent, Command, ChildWrites, ChildMutates,
         ChildTraces, ChildEnds, Silent
<1>2. CASE pc[r] = "running"
  <2>1. todo[r] # {} /\ Fixture(r) \in Entries /\ child[r].of = Fixture(r) /\ child[r].of # NoValue
    BY <1>2, FixtureType, CatalogAssumption DEF PhaseInv
  <2>2. CASE ReadOutput(r)
    <3>1. UNCHANGED <<pc, child>>
      BY <2>2 DEF ReadOutput
    <3> QED
      BY <1>1, <1>2, <2>2, <3>1, ReadOutputType DEF PhaseInv, Before, Choosing, Starting
  <2>3. CASE Timeout(r)
    <3>1. UNCHANGED pc
      BY <2>3 DEF Timeout
    <3> QED
      BY <1>1, <1>2, <2>3, <3>1, TimeoutType DEF PhaseInv, Before, Choosing, Starting
  <2>4. CASE ErrorEvent(r)
    <3>1. child' = child /\ child[r].end = "failed"
      BY <2>4 DEF ErrorEvent
    <3>2. pc'[r] \in {"judge", "done"}
      BY <2>4, ErrorEventType DEF Drops, TypeInv
    <3> QED
      BY <1>1, <1>2, <2>1, <2>4, <3>1, <3>2, ErrorEventType DEF PhaseInv, Before, Choosing, Starting, Settled
  <2>5. CASE CloseEvent(r)
    <3>1. ~call[r].settled /\ child[r].end # "none"
      BY <1>2, <2>5 DEF PhaseInv, CloseEvent
    <3>2. child'[r] = [child[r] EXCEPT !.closed = TRUE]
      BY <2>5, CloseEventType
    <3>3. child'[r].of = child[r].of /\ child'[r].end = child[r].end
      BY <3>2 DEF TypeInv, Children
    <3>4. pc'[r] \in {"judge", "done"} /\ call'[r].settled /\ call'[r].timer # "armed"
      <4>1. PICK v \in Verdicts, x \in Codes \union {0, NoValue} : Closes(r, v, x)
        BY <2>5, <3>1, CloseEventType
      <4>2. PICK kept : Drops(r, kept)
        BY <4>1 DEF Closes
      <4> QED
        BY <4>1, <4>2 DEF Closes, Drops, TypeInv
    <3> QED
      BY <1>1, <1>2, <2>1, <3>1, <3>3, <3>4 DEF PhaseInv, Before, Choosing, Starting, Settled
  <2>6. CASE Command(r)
    <3>1. UNCHANGED <<pc, call>> /\ child[r].end = "none"
      BY <2>6 DEF Command, ChildWrites, ChildMutates, ChildTraces, ChildEnds, Silent, Alive
    <3>2. child'[r].of = child[r].of /\ child'[r].closed = child[r].closed
      BY <2>1, <2>6, ChildWritesType, ChildMutatesType, ChildTracesType, ChildEndsType DEF Command
    <3> QED
      BY <1>1, <1>2, <3>1, <3>2 DEF PhaseInv, Before, Choosing, Starting
  <2> QED
    BY <2>2, <2>3, <2>4, <2>5, <2>6 DEF Events
<1>3. CASE pc[r] \in Before \union After
  <2>1. pc[r] \in After /\ Settled(r)
    BY <1>3, Quiet DEF PhaseInv
  <2>2. CASE ReadOutput(r)
    <3>1. UNCHANGED <<pc, child>>
      BY <2>2 DEF ReadOutput
    <3> QED
      BY <1>1, <2>1, <2>2, <3>1, ReadOutputType DEF PhaseInv, Before, Choosing, Starting, Settled
  <2>3. CASE CloseEvent(r)
    <3>1. UNCHANGED <<pc, call, verdict>> /\ child'[r] = [child[r] EXCEPT !.closed = TRUE]
      BY <1>3, <2>3, Quiet, CloseEventType
    <3>2. child'[r].of = child[r].of /\ child'[r].end = child[r].end
      BY <3>1 DEF TypeInv, Children
    <3> QED
      BY <1>1, <2>1, <3>1, <3>2 DEF PhaseInv, Before, Choosing, Starting, Settled
  <2> QED
    BY <1>3, <2>2, <2>3, Quiet DEF Events
<1>4. pc[r] \in Before \union After \union {"running"}
  BY DEF TypeInv, Holding, Before
<1> QED
  BY <1>2, <1>3, <1>4

-----------------------------------------------------------------------------
(* The oracles and the manifests.                                          *)

LEMMA TreesAreTrees ==
  ASSUME NEW t \in Trees
  PROVE  IsTree(t)
<1>1. IsTree(<<>>)
  BY DEF IsTree
<1>2. \A d \in Entries : IsTree(d.tree)
  BY CatalogAssumption
<1>3. \A d \in Entries : \A x \in TreesAfter(d) : IsTree(x)
  BY CommandsAssumption
<1> QED
  BY <1>1, <1>2, <1>3 DEF Trees

\* Two trees with no difference are the same.
LEMMA NoDifference ==
  ASSUME NEW pre, NEW post, IsTree(pre), IsTree(post),
         Touched(diffFilesystemSnapshots(pre, post)) = {}
  PROVE  post = pre
<1>1. DOMAIN post \ DOMAIN pre = {} /\ DOMAIN pre \ DOMAIN post = {}
  BY DEF Touched, diffFilesystemSnapshots
<1>2. DOMAIN post = DOMAIN pre
  BY <1>1
<1>3. \A p \in DOMAIN pre : post[p].kind = pre[p].kind /\ post[p].bytes = pre[p].bytes
  BY <1>2 DEF Touched, diffFilesystemSnapshots
<1>4. ASSUME NEW p \in DOMAIN pre
      PROVE  post[p] = pre[p]
  <2>1. pre[p] = [kind |-> pre[p].kind, bytes |-> pre[p].bytes]
    BY DEF IsTree
  <2>2. post[p] = [kind |-> post[p].kind, bytes |-> post[p].bytes]
    BY <1>2 DEF IsTree
  <2> QED
    BY <1>3, <2>1, <2>2, Zenon
<1>5. pre = [p \in DOMAIN pre |-> pre[p]] /\ post = [p \in DOMAIN post |-> post[p]]
  BY DEF IsTree
<1>6. [p \in DOMAIN post |-> post[p]] = [p \in DOMAIN pre |-> pre[p]]
  BY <1>2, <1>4
<1> QED
  BY <1>5, <1>6, Zenon

LEMMA SameTree ==
  ASSUME NEW t, IsTree(t)
  PROVE  Touched(diffFilesystemSnapshots(t, t)) = {}
BY DEF Touched, diffFilesystemSnapshots

LEMMA Promises ==
  ASSUME NEW d \in Entries, ManifestValid(d)
  PROVE  LET m == d.manifest
         IN  /\ detectSubcommand(m) \notin {"init", "map", "scaffold"} \/ m.exit_code # 0 => NoMutation(m)
             /\ detectSubcommand(m) \in {"scan", "check", "diff", "explain", "bundle"}
                  /\ hasImmediateScanJsonFlag(m) =>
                    m.stdout.kind = IF PrintsJson(m) THEN "golden" ELSE "empty"
<1> DEFINE m == d.manifest
           sub == detectSubcommand(m)
<1>1. validateManifestSemantics(m)
  BY DEF ManifestValid
<1>2. m.filesystem.kind \in FilesystemKinds
  BY DEF ManifestValid, ShapeValid
<1>3. CASE sub = "none"
  BY <1>1, <1>3 DEF validateManifestSemantics, validateUsageErrorCommandSemantics
<1>4. CASE sub = "scan" /\ hasImmediateScanJsonFlag(m)
  <2>1. validateScanJsonSemantics(m)
    BY <1>1, <1>4 DEF validateManifestSemantics
  <2> QED
    BY <1>4, <2>1 DEF validateScanJsonSemantics, GoldenStdout, PrintsJson
<1>5. CASE sub = "scan" /\ ~hasImmediateScanJsonFlag(m)
  <2>1. validateHumanScanSemantics(m)
    BY <1>1, <1>5 DEF validateManifestSemantics
  <2> QED
    BY <1>5, <2>1 DEF validateHumanScanSemantics
<1>6. CASE sub \in {"init", "map", "scaffold"}
  <2>1. validateHumanWriteCommandSemantics(m)
    BY <1>1, <1>6 DEF validateManifestSemantics
  <2> QED
    BY <1>2, <1>6, <2>1 DEF validateHumanWriteCommandSemantics, NoMutation, FilesystemKinds
<1>7. CASE sub \notin {"none", "scan", "init", "map", "scaffold"}
  <2>1. validateArtifactCommandSemantics(m)
    BY <1>1, <1>7 DEF validateManifestSemantics
  <2>2. ASSUME hasImmediateScanJsonFlag(m), sub \in {"check", "diff", "explain", "bundle"}
        PROVE  hasArtifactMachineOutput(m)
    <3>1. m.command \in Seq(STRING)
      BY CatalogAssumption
    <3> QED
      BY <2>2, <3>1 DEF hasArtifactMachineOutput, hasImmediateScanJsonFlag, Contains
  <2>3. m.exit_code = 5 => sub = "check"
    BY <2>1 DEF validateArtifactCommandSemantics
  <2> QED
    BY <1>7, <2>1, <2>2, <2>3 DEF validateArtifactCommandSemantics, GoldenStdout, PrintsJson
<1> QED
  BY <1>3, <1>4, <1>5, <1>6, <1>7

-----------------------------------------------------------------------------
(* What a verdict says.                                                    *)

Observed(r, d) == child[r].of = d /\ child[r].end = "exit" /\ child[r].closed

\* A verdict v for the fixture d, with the exit code x, is what happened.
Justified(r, v, d, x) ==
  /\ v = "process.timeout" <=> call[r].timer = "fired"
  /\ v = "process" => child[r].of = d /\ child[r].end \in {"failed", "signal"}
  /\ v \in {"none", "exit_code", "stdout", "stderr", "filesystem"} => Observed(r, d)
  /\ v = "exit_code" => child[r].code # d.manifest.exit_code
  /\ v = "filesystem" => sandbox[r].tree # d.tree \/ d.manifest.exit_code = 0
  /\ x # NoValue => Observed(r, d) /\ x = child[r].code

\* What a command that passes the oracles did.
Passed(r, d) ==
  LET m == d.manifest
  IN  /\ child[r].of = d /\ child[r].end = "exit" /\ child[r].code = m.exit_code
      /\ StdoutAccepted(d, child[r].out) /\ StderrAccepted(d, child[r].err)
      /\ detectSubcommand(m) \notin {"init", "map", "scaffold"} \/ m.exit_code # 0 =>
           sandbox[r].tree = d.tree
      /\ detectSubcommand(m) \in {"scan", "check", "diff", "explain", "bundle"}
           /\ hasImmediateScanJsonFlag(m) =>
             child[r].out = IF PrintsJson(m) THEN d.golden ELSE <<>>

\* Before the oracles: a command that was read to its end, in the sandbox it got.
ToJudge(r) ==
  /\ sandbox[r].state = "ready" /\ sandbox[r].pre = Fixture(r).tree /\ ManifestValid(Fixture(r))
  /\ verdict[r] = "none" =>
       call[r].exit = child[r].code /\ call[r].out = child[r].out /\ call[r].err = child[r].err

VerdictInv(r) ==
  /\ pc[r] \in Starting \union {"running"} => ManifestValid(Fixture(r))
  /\ pc[r] \in {"prepare", "spawn", "running"} =>
       sandbox[r].state = "ready" /\ sandbox[r].pre = Fixture(r).tree
  /\ pc[r] = "judge" => ToJudge(r)
  /\ pc[r] \in Ending => Justified(r, verdict[r], Fixture(r), call[r].exit)
  /\ pc[r] \in {"cleanup", "record"} /\ verdict[r] = "none" => Passed(r, Fixture(r))
  /\ pc[r] = "cleanup" /\ verdict[r] = "none" => sandbox[r].state = "ready"
  /\ pc[r] = "record" /\ verdict[r] = "none" => sandbox[r].state = "removed"
  /\ pc[r] \in Choosing => records[r] = <<>>
  /\ JustRecorded(r) =>
       LET last == LastRecord(r)
       IN  /\ Justified(r, last.verdict, last.fixture, last.exit)
           /\ last.verdict = "none" => Passed(r, last.fixture) /\ sandbox[r].state = "removed"

\* The oracles: what they fail on, and what they let pass.
LEMMA Oracles ==
  ASSUME TypeInv, NEW r \in Runners, NEW d \in Entries, ManifestValid(d),
         Observed(r, d), sandbox[r].pre = d.tree,
         NEW v, v = FirstFailure(d, child[r].code, child[r].out, child[r].err, sandbox[r].tree,
                                 diffFilesystemSnapshots(sandbox[r].pre, sandbox[r].tree))
  PROVE  /\ v \in {"none", "exit_code", "stdout", "stderr", "filesystem"}
         /\ v = "exit_code" => child[r].code # d.manifest.exit_code
         /\ v = "filesystem" => sandbox[r].tree # d.tree \/ d.manifest.exit_code = 0
         /\ v = "none" => Passed(r, d)
<1> DEFINE m == d.manifest
           diff == diffFilesystemSnapshots(sandbox[r].pre, sandbox[r].tree)
<1>1. /\ v \in {"none", "exit_code", "stdout", "stderr", "filesystem"}
      /\ v = "exit_code" => child[r].code # d.manifest.exit_code
      /\ v = "filesystem" => ~FilesystemAccepted(d, sandbox[r].tree, diff)
      /\ v = "none" => /\ child[r].code = d.manifest.exit_code
                       /\ StdoutAccepted(d, child[r].out) /\ StderrAccepted(d, child[r].err)
                       /\ FilesystemAccepted(d, sandbox[r].tree, diff)
  BY Zenon DEF FirstFailure
<1>2. IsTree(sandbox[r].tree) /\ IsTree(d.tree)
  BY TreesAreTrees, CatalogAssumption DEF TypeInv, Sandboxes
<1>3. ASSUME v = "filesystem", sandbox[r].tree = d.tree
      PROVE  m.exit_code = 0
  <2>1. Touched(diff) = {}
    BY <1>2, <1>3, SameTree
  <2>2. ~NoMutation(m)
    BY <1>1, <1>3, <2>1 DEF FilesystemAccepted, NoMutation
  <2> QED
    BY <2>2, Promises
<1>4. ASSUME v = "none", detectSubcommand(m) \notin {"init", "map", "scaffold"} \/ m.exit_code # 0
      PROVE  sandbox[r].tree = d.tree
  <2>1. NoMutation(m)
    BY <1>4, Promises
  <2>2. Touched(diff) = {}
    BY <1>1, <1>4, <2>1 DEF FilesystemAccepted, NoMutation
  <2> QED
    BY <1>2, <2>2, NoDifference
<1>5. ASSUME v = "none", detectSubcommand(m) \in {"scan", "check", "diff", "explain", "bundle"},
             hasImmediateScanJsonFlag(m)
      PROVE  child[r].out = IF PrintsJson(m) THEN d.golden ELSE <<>>
  <2>1. m.stdout.kind = IF PrintsJson(m) THEN "golden" ELSE "empty"
    BY <1>5, Promises
  <2>2. StdoutAccepted(d, child[r].out)
    BY <1>1, <1>5
  <2> QED
    BY <2>1, <2>2 DEF StdoutAccepted, ExpectedStdout
<1> QED
  BY <1>1, <1>3, <1>4, <1>5 DEF Passed, Observed

LEMMA HarnessVerdict ==
  ASSUME TypeInv, TypeInv', NEW r \in Runners, PhaseInv(r), VerdictInv(r), Harness(r)
  PROVE  VerdictInv(r)'
<1> USE DEF Choosing, Starting, Ending
<1>1. CASE Select(r) \/ ListRuns(r) \/ Reserve(r)
  <2>1. /\ pc[r] \in Choosing /\ pc'[r] \in {"list", "reserve", "next", "done"}
        /\ UNCHANGED records
    BY <1>1 DEF Select, ListRuns, Reserve, Exits, Goto, TypeInv
  <2> QED
    BY <2>1 DEF VerdictInv, JustRecorded
<1>2. CASE Load(r)
  <2>1. /\ UNCHANGED todo /\ child'[r] = NoChild /\ call'[r] = NoCall
        /\ \/ pc'[r] = "materialize" /\ ManifestValid(Fixture(r))
           \/ pc'[r] = "cleanup" /\ verdict'[r] = "manifest"
    BY <1>2 DEF Load, Goto, Fails, TypeInv
  <2>2. Fixture(r)' = Fixture(r)
    BY <2>1 DEF Fixture
  <2> QED
    BY <2>1, <2>2 DEF VerdictInv, JustRecorded, Justified, NoCall
<1>3. CASE Materialize(r)
  <2>1. /\ UNCHANGED <<todo, child, call>> /\ Fresh(r) /\ ManifestValid(Fixture(r))
        /\ \/ /\ pc'[r] = "prepare"
              /\ sandbox'[r] = [state |-> "ready", pre |-> Fixture(r).tree, tree |-> Fixture(r).tree]
           \/ pc'[r] = "cleanup" /\ verdict'[r] = "sandbox"
    BY <1>3 DEF Materialize, Goto, Fails, TypeInv, PhaseInv, VerdictInv, Before
  <2>2. Fixture(r)' = Fixture(r)
    BY <2>1 DEF Fixture
  <2> QED
    BY <2>1, <2>2 DEF VerdictInv, JustRecorded, Justified, Fresh
<1>4. CASE Prepare(r)
  <2>1. /\ UNCHANGED <<todo, child, sandbox>> /\ Fresh(r) /\ ManifestValid(Fixture(r))
        /\ sandbox[r].state = "ready" /\ sandbox[r].pre = Fixture(r).tree
        /\ \/ pc'[r] = "spawn"
           \/ pc'[r] = "judge" /\ verdict'[r] = "harness"
    BY <1>4 DEF Prepare, Goto, Fails, TypeInv, PhaseInv, VerdictInv, Before
  <2>2. Fixture(r)' = Fixture(r)
    BY <2>1 DEF Fixture
  <2> QED
    BY <1>4, <2>1, <2>2, PrepareType DEF VerdictInv, JustRecorded, Justified, ToJudge, Fresh
<1>5. CASE Spawn(r)
  <2>1. /\ UNCHANGED <<todo, sandbox>> /\ Fresh(r) /\ ManifestValid(Fixture(r)) /\ todo[r] # {}
        /\ sandbox[r].state = "ready" /\ sandbox[r].pre = Fixture(r).tree
    BY <1>5 DEF Spawn, PhaseInv, VerdictInv, Before, Busy
  <2>2. Fixture(r)' = Fixture(r)
    BY <2>1 DEF Fixture
  <2> QED
    BY <1>5, <2>1, <2>2, SpawnType DEF VerdictInv, JustRecorded, Justified, ToJudge, Fresh
<1>6. CASE Judge(r)
  <2>1. /\ UNCHANGED <<todo, child, call, sandbox>> /\ pc[r] = "judge" /\ pc'[r] = "cleanup" /\ ToJudge(r)
        /\ Justified(r, verdict[r], Fixture(r), call[r].exit) /\ todo[r] # {}
    BY <1>6 DEF Judge, Goto, TypeInv, PhaseInv, VerdictInv, Busy
  <2>2. Fixture(r)' = Fixture(r) /\ Fixture(r) \in Entries
    BY <2>1, FixtureType DEF Fixture
  <2>3. \/ verdict[r] # "none" /\ verdict'[r] = verdict[r]
        \/ verdict[r] = "none" /\ verdict'[r] = "harness"
        \/ /\ verdict[r] = "none"
           /\ verdict'[r] = FirstFailure(Fixture(r), call[r].exit, call[r].out, call[r].err,
                    sandbox[r].tree, diffFilesystemSnapshots(sandbox[r].pre, sandbox[r].tree))
    BY <1>6 DEF Judge, Fails, TypeInv
  <2>4. /\ Justified(r, verdict'[r], Fixture(r), call[r].exit)
        /\ verdict'[r] = "none" => Passed(r, Fixture(r))
    <3>1. CASE verdict[r] # "none"
      BY <2>1, <2>3, <3>1
    <3>2. CASE verdict[r] = "none"
      <4>1. Observed(r, Fixture(r)) /\ call[r].timer # "fired"
        BY <2>1, <3>2 DEF Justified
      <4>2. CASE verdict'[r] = "harness"
        BY <2>1, <3>2, <4>1, <4>2 DEF Justified
      <4>3. CASE verdict'[r] = FirstFailure(Fixture(r), child[r].code, child[r].out, child[r].err,
                    sandbox[r].tree, diffFilesystemSnapshots(sandbox[r].pre, sandbox[r].tree))
        <5>1. /\ verdict'[r] \in {"none", "exit_code", "stdout", "stderr", "filesystem"}
              /\ verdict'[r] = "exit_code" => child[r].code # Fixture(r).manifest.exit_code
              /\ verdict'[r] = "filesystem" =>
                   sandbox[r].tree # Fixture(r).tree \/ Fixture(r).manifest.exit_code = 0
              /\ verdict'[r] = "none" => Passed(r, Fixture(r))
          BY <2>1, <2>2, <4>1, <4>3, Oracles DEF ToJudge
        <5> QED
          BY <2>1, <3>2, <4>1, <5>1 DEF Justified
      <4> QED
        BY <2>1, <2>3, <3>2, <4>2, <4>3 DEF ToJudge
    <3> QED
      BY <3>1, <3>2
  <2>5. /\ Justified(r, verdict[r], Fixture(r), call[r].exit)'
        /\ verdict'[r] = "none" => Passed(r, Fixture(r))'
    BY <2>1, <2>2, <2>4 DEF Justified, Observed, Passed
  <2> QED
    BY <2>1, <2>5 DEF VerdictInv, JustRecorded, ToJudge
<1>7. CASE Cleanup(r)
  <2>1. /\ UNCHANGED <<todo, child, call>> /\ pc[r] = "cleanup" /\ pc'[r] = "record"
        /\ Justified(r, verdict[r], Fixture(r), call[r].exit)
        /\ verdict[r] = "none" => Passed(r, Fixture(r)) /\ sandbox[r].state = "ready"
    BY <1>7 DEF Cleanup, Goto, TypeInv, VerdictInv
  <2>2. Fixture(r)' = Fixture(r)
    BY <2>1 DEF Fixture
  <2>3. /\ sandbox'[r].tree = sandbox[r].tree
        /\ \/ verdict'[r] = verdict[r] /\ sandbox'[r].state = "removed"
           \/ verdict'[r] = verdict[r] /\ verdict[r] # "none"
           \/ verdict'[r] = "sandbox" /\ verdict[r] = "none"
    BY <1>7, <2>1 DEF Cleanup, Fails, TypeInv, Sandboxes
  <2>4. /\ Justified(r, verdict[r], Fixture(r), call[r].exit)'
        /\ verdict'[r] = "none" => Passed(r, Fixture(r))' /\ sandbox'[r].state = "removed"
    BY <2>1, <2>2, <2>3 DEF Justified, Observed, Passed
  <2> QED
    BY <2>1, <2>4 DEF VerdictInv, JustRecorded
<1>8. CASE Record(r)
  <2>1. CASE pc'[r] = "done"
    BY <2>1 DEF VerdictInv, JustRecorded
  <2>2. CASE pc'[r] # "done"
    <3> DEFINE last == [by |-> r, fixture |-> Fixture(r), verdict |-> verdict[r], exit |-> call[r].exit,
                        traced |-> call[r].traced, phase |-> LastFailedPhase(r)]
    <3>1. /\ pc[r] = "record" /\ pc'[r] = "next" /\ UNCHANGED <<child, call, sandbox>>
          /\ records' = [records EXCEPT ![r] = Append(@, last)]
      BY <1>8, <2>2 DEF Record, Goto, Exits, TypeInv
    <3>2. records'[r] = Append(records[r], last)
      BY <3>1 DEF TypeInv
    <3>3. LastRecord(r)' = last
      BY <3>2 DEF LastRecord, TypeInv
    <3>4. last.verdict = verdict[r] /\ last.fixture = Fixture(r) /\ last.exit = call[r].exit
      OBVIOUS
    <3>5. /\ Justified(r, verdict[r], Fixture(r), call[r].exit)
          /\ verdict[r] = "none" => Passed(r, Fixture(r)) /\ sandbox[r].state = "removed"
      BY <3>1 DEF VerdictInv
    <3> HIDE DEF last
    <3> QED
      BY <3>1, <3>3, <3>4, <3>5 DEF VerdictInv, JustRecorded, Justified, Observed, Passed
  <2> QED
    BY <2>1, <2>2
<1>9. CASE Summarise(r)
  BY <1>9 DEF Summarise, Exits, Goto, TypeInv, VerdictInv, JustRecorded
<1> QED
  BY <1>1, <1>2, <1>3, <1>4, <1>5, <1>6, <1>7, <1>8, <1>9 DEF Harness

LEMMA EventsVerdict ==
  ASSUME TypeInv, NEW r \in Runners, PhaseInv(r), VerdictInv(r), pc[r] \notin Ended,
         Events(r) \/ Command(r)
  PROVE  VerdictInv(r)'
<1>1. /\ Fixture(r)' = Fixture(r) /\ LastRecord(r)' = LastRecord(r) /\ UNCHANGED <<todo, records>>
      /\ Events(r) => UNCHANGED sandbox
  BY DEF Fixture, LastRecord, Events, ReadOutput, Timeout, ErrorEvent, CloseEvent, Command, ChildWrites,
         ChildMutates, ChildTraces, ChildEnds, Silent, run
<1>2. CASE pc[r] = "running"
  <2>1. /\ child[r].of = Fixture(r) /\ ~call[r].settled /\ call[r].timer # "off" /\ call[r].exit = NoValue
        /\ ManifestValid(Fixture(r)) /\ sandbox[r].state = "ready" /\ sandbox[r].pre = Fixture(r).tree
        /\ todo[r] # {}
        /\ call[r].timer = "fired" => child[r].end \in {"exit", "signal"}
    BY <1>2 DEF PhaseInv, VerdictInv, Busy
  <2>2. CASE UNCHANGED pc /\ sandbox'[r].state = sandbox[r].state /\ sandbox'[r].pre = sandbox[r].pre
    BY <1>1, <1>2, <2>1, <2>2 DEF VerdictInv, Ending, Choosing, JustRecorded
  <2>3. CASE ReadOutput(r) \/ Timeout(r) \/ ChildWrites(r) \/ ChildTraces(r) \/ ChildEnds(r)
    <3>1. UNCHANGED <<pc, sandbox>>
      BY <2>3 DEF ReadOutput, Timeout, ChildWrites, ChildTraces, ChildEnds, Silent
    <3> QED
      BY <2>2, <3>1
  <2>4. CASE ChildMutates(r)
    <3>1. UNCHANGED pc
      BY <2>4 DEF ChildMutates, Silent
    <3> QED
      BY <2>1, <2>2, <2>4, <3>1, ChildMutatesType
  <2>5. CASE ErrorEvent(r)
    <3>1. /\ pc'[r] \in {"judge", "done"} /\ verdict'[r] = "process" /\ UNCHANGED <<child, sandbox>>
          /\ child[r].end = "failed"
      BY <2>5, ErrorEventType DEF ErrorEvent, Drops, TypeInv
    <3>2. call'[r].timer # "fired" /\ call'[r].exit = NoValue
      BY <2>1, <2>5, <3>1, ErrorEventType
    <3> QED
      BY <1>1, <2>1, <3>1, <3>2 DEF VerdictInv, Starting, Ending, Choosing, JustRecorded, Justified, ToJudge
  <2>6. CASE CloseEvent(r)
    <3>1. child'[r] = [child[r] EXCEPT !.closed = TRUE]
      BY <2>6, CloseEventType
    <3>2. /\ child'[r].of = child[r].of /\ child'[r].end = child[r].end /\ child'[r].closed
          /\ child'[r].code = child[r].code /\ child'[r].out = child[r].out /\ child'[r].err = child[r].err
      BY <3>1 DEF TypeInv, Children
    <3>3. PICK v \in Verdicts, x \in Codes \union {0, NoValue} : Closes(r, v, x)
      BY <2>1, <2>6, CloseEventType
    <3>4. /\ pc'[r] \in {"judge", "done"} /\ verdict'[r] = v /\ call'[r].exit = x /\ UNCHANGED sandbox
          /\ call'[r].out = child'[r].out /\ call'[r].err = child'[r].err
          /\ call'[r].timer = "fired" <=> call[r].timer = "fired"
      BY <2>6, <3>2, <3>3 DEF Closes, Drops, CloseEvent, TypeInv
    <3>5. child[r].end \in {"exit", "signal"}
      BY <2>1, <2>6 DEF CloseEvent
    <3>6. Justified(r, v, Fixture(r), x)'
      BY <1>1, <2>1, <3>2, <3>3, <3>4, <3>5 DEF Justified, Observed, Closes
    <3>7. ToJudge(r)'
      BY <1>1, <2>1, <3>2, <3>3, <3>4 DEF ToJudge, Closes
    <3> QED
      BY <3>4, <3>6, <3>7 DEF VerdictInv, Starting, Ending, Choosing, JustRecorded
  <2> QED
    BY <2>3, <2>4, <2>5, <2>6 DEF Events, Command
<1>3. CASE pc[r] \in Before \union After
  <2>1. ~Fresh(r) /\ pc[r] \in After /\ (ReadOutput(r) \/ CloseEvent(r))
    BY <1>3, Quiet DEF PhaseInv, Events
  <2>2. UNCHANGED <<pc, verdict, sandbox>>
    BY <1>1, <1>3, <2>1, Quiet, CloseEventType DEF ReadOutput, Events
  <2>3. /\ child'[r].of = child[r].of /\ child'[r].end = child[r].end
        /\ child[r].closed => child'[r].closed
        /\ child'[r].code = child[r].code /\ child'[r].out = child[r].out /\ child'[r].err = child[r].err
    <3>1. CASE ReadOutput(r)
      BY <3>1 DEF ReadOutput
    <3>2. CASE CloseEvent(r)
      <4>1. child'[r] = [child[r] EXCEPT !.closed = TRUE]
        BY <3>2, CloseEventType
      <4> QED
        BY <4>1 DEF TypeInv, Children
    <3> QED
      BY <2>1, <3>1, <3>2
  <2>4. call'[r].timer = call[r].timer /\ call'[r].exit = call[r].exit
    BY <1>3, <2>1, Quiet, CloseEventType, ReadOutputType
  <2>5. ASSUME call[r].out = child[r].out, call[r].err = child[r].err
        PROVE  call'[r].out = call[r].out /\ call'[r].err = call[r].err
    <3>1. child[r].out \in Seq(Outputs) /\ child[r].err \in Seq(Outputs)
      BY DEF TypeInv, Children
    <3>2. ~ReadOutput(r)
      BY <2>5, <3>1 DEF ReadOutput
    <3> QED
      BY <1>3, <2>1, <3>2, Quiet, CloseEventType
  <2>6. ASSUME NEW v, NEW d, NEW x, Justified(r, v, d, x)
        PROVE  /\ v = "process.timeout" <=> call'[r].timer = "fired"
               /\ v = "process" => child'[r].of = d /\ child'[r].end \in {"failed", "signal"}
               /\ v \in {"none", "exit_code", "stdout", "stderr", "filesystem"} => Observed(r, d)'
               /\ v = "exit_code" => child'[r].code # d.manifest.exit_code
               /\ v = "filesystem" => sandbox'[r].tree # d.tree \/ d.manifest.exit_code = 0
               /\ x # NoValue => /\ child'[r].of = d /\ child'[r].end = "exit" /\ child'[r].closed
                                 /\ x = child'[r].code
    BY <2>2, <2>3, <2>4, <2>6 DEF Justified, Observed
  <2> QED
    BY <1>1, <2>1, <2>2, <2>3, <2>4, <2>5, <2>6 DEF VerdictInv, Starting, Ending, Choosing, After,
       JustRecorded, Justified, Observed, Passed, ToJudge
<1>4. pc[r] \in Before \union After \union {"running"}
  BY DEF TypeInv, Holding, Busy, Before, After
<1> QED
  BY <1>2, <1>3, <1>4

-----------------------------------------------------------------------------
(* Run directories and results.                                            *)

LEMMA KeysDiffer ==
  ASSUME NEW r \in Runners, NEW q \in Runners, NEW i \in DOMAIN Catalog, NEW j \in DOMAIN Catalog,
         Key(r, i) = Key(q, j)
  PROVE  i = j /\ Run(r) = Run(q)
<1>1. Catalog[i].family = Catalog[j].family /\ Catalog[i].id = Catalog[j].id /\ Run(r) = Run(q)
  BY DEF Key
<1> QED
  BY <1>1, CatalogAssumption

\* What a record adds to the results: one that was not there.
LEMMA RecordResults ==
  ASSUME TypeInv, OwnersInv, NEW r \in Runners, todo[r] # {}, Record(r)
  PROVE  /\ Min(todo[r]) \in todo[r] /\ Key(r, Min(todo[r])) \notin DOMAIN artifacts
         /\ \A k \in DOMAIN artifacts : k \in DOMAIN artifacts' /\ artifacts'[k] = artifacts[k]
         /\ DOMAIN artifacts' \subseteq DOMAIN artifacts \union {Key(r, Min(todo[r]))}
         /\ pc'[r] # "done" => /\ Key(r, Min(todo[r])) \in DOMAIN artifacts'
                               /\ artifacts'[Key(r, Min(todo[r]))].verdict = verdict[r]
                               /\ records'[r] = Append(records[r], artifacts'[Key(r, Min(todo[r]))])
<1> DEFINE key == Key(r, Min(todo[r]))
           result == [by |-> r, fixture |-> Fixture(r), verdict |-> verdict[r], exit |-> call[r].exit,
                      traced |-> call[r].traced, phase |-> LastFailedPhase(r)]
           written == [k \in DOMAIN artifacts \union {key} |-> IF k = key THEN result ELSE artifacts[k]]
<1>1. Min(todo[r]) \in todo[r]
  BY MinOfPlaces DEF TypeInv
<1>2. key \notin DOMAIN artifacts
  BY <1>1 DEF OwnersInv, Record, Holding, Busy, Ending
<1>3. DOMAIN written = {key} \union DOMAIN artifacts /\ written[key] = result
  BY Zenon
<1>4. \A k \in DOMAIN artifacts : written[k] = artifacts[k]
  BY <1>2
<1>5. /\ artifacts' \in {artifacts, written}
      /\ pc'[r] # "done" => artifacts' = written /\ records'[r] = Append(records[r], result)
  <2>1. key = <<Run(r), Fixture(r).family, Fixture(r).id>>
    BY DEF Key, Fixture
  <2> HIDE DEF key
  <2> QED
    BY <2>1 DEF Record, Exits, Goto, TypeInv
<1>6. result.verdict = verdict[r]
  OBVIOUS
<1> HIDE DEF result, written, key
<1> QED
  BY <1>1, <1>2, <1>3, <1>4, <1>5, <1>6 DEF key

LEMMA OwnersKept ==
  ASSUME TypeInv, OwnersInv, NEW r \in Runners, Others(r), UNCHANGED <<sel, runs, artifacts>>,
         pc'[r] \in Holding => pc[r] \in Holding /\ UNCHANGED <<runDir, todo>>
  PROVE  OwnersInv'
<1>1. ASSUME NEW q \in Runners, pc'[q] \in Holding
      PROVE  pc[q] \in Holding /\ Run(q)' = Run(q) /\ todo'[q] = todo[q]
  BY <1>1 DEF Others, Run, Label
<1>2. ASSUME NEW q \in Runners, pc'[q] \in Holding, NEW i \in todo'[q]
      PROVE  Key(q, i)' = Key(q, i)
  BY <1>1, <1>2 DEF Key
<1> QED
  BY <1>1, <1>2 DEF OwnersInv

LEMMA ReserveOwners ==
  ASSUME TypeInv, OwnersInv, NEW r \in Runners, Reserve(r), Others(r)
  PROVE  OwnersInv'
<1>1. CASE pc'[r] # "next"
  <2>1. pc'[r] \notin Holding /\ UNCHANGED <<sel, runs, artifacts>>
    BY <1>1 DEF Reserve, Exits, Goto, TypeInv, Holding, Busy, Starting, Ending
  <2> QED
    BY <2>1, OwnersKept
<1>2. CASE pc'[r] = "next"
  <2>1. /\ Run(r) \notin runs /\ runs' = runs \union {Run(r)} /\ pc[r] \notin Holding
        /\ UNCHANGED <<sel, runDir, todo, artifacts>>
    BY <1>2 DEF Reserve, Exits, Goto, TypeInv, Holding, Busy, Starting, Ending
  <2>2. \A q \in Runners : Run(q)' = Run(q) /\ \A i \in todo[q] : Key(q, i)' = Key(q, i)
    BY <2>1 DEF Key, Run, Label
  <2>3. \A q \in Runners : q # r /\ pc'[q] \in Holding => Run(q) # Run(r) /\ pc[q] \in Holding
    BY <2>1 DEF OwnersInv, Others
  <2>4. \A i \in todo[r] : Key(r, i) \notin DOMAIN artifacts
    BY <2>1 DEF OwnersInv, Key
  <2> QED
    BY <2>1, <2>2, <2>3, <2>4 DEF OwnersInv
<1> QED
  BY <1>1, <1>2

LEMMA RecordOwners ==
  ASSUME TypeInv, OwnersInv, NEW r \in Runners, todo[r] # {}, Record(r), Others(r)
  PROVE  OwnersInv'
<1>1. /\ pc[r] \in Holding /\ pc'[r] \in {"next", "done"} /\ UNCHANGED <<sel, runDir, runs>>
      /\ pc'[r] = "next" => todo'[r] = todo[r] \ {Min(todo[r])}
  BY DEF Record, Exits, Goto, TypeInv, Holding, Busy, Ending
<1>2. \A q \in Runners : Run(q)' = Run(q) /\ \A i : Key(q, i)' = Key(q, i)
  BY <1>1 DEF Key, Run, Label
<1>3. \A q \in Runners : pc'[q] \in Holding => pc[q] \in Holding /\ todo'[q] \subseteq todo[q]
  BY <1>1 DEF Others, Holding, Busy, Starting, Ending
<1>4. ASSUME NEW k \in DOMAIN artifacts'
      PROVE  k[1] \in runs
  <2>1. k \in DOMAIN artifacts \/ k = Key(r, Min(todo[r]))
    BY RecordResults
  <2>2. Key(r, Min(todo[r]))[1] \in runs
    BY <1>1 DEF OwnersInv, Key
  <2> QED
    BY <2>1, <2>2 DEF OwnersInv
<1>5. ASSUME NEW q \in Runners, pc'[q] \in Holding, NEW i \in todo'[q]
      PROVE  Key(q, i) \notin DOMAIN artifacts'
  <2>1. Key(q, i) \notin DOMAIN artifacts
    BY <1>3, <1>5 DEF OwnersInv
  <2>2. i \in DOMAIN Catalog /\ Min(todo[r]) \in DOMAIN Catalog
    BY <1>3, <1>5, RecordResults DEF TypeInv
  <2>3. Key(q, i) # Key(r, Min(todo[r]))
    <3>1. CASE q = r
      BY <1>1, <1>5, <2>2, <3>1, KeysDiffer DEF Holding, Busy, Starting, Ending
    <3>2. CASE q # r
      BY <1>1, <1>3, <1>5, <2>2, <3>2, KeysDiffer DEF OwnersInv
    <3> QED
      BY <3>1, <3>2
  <2> QED
    BY <2>1, <2>3, RecordResults
<1> QED
  BY <1>1, <1>2, <1>3, <1>4, <1>5 DEF OwnersInv

-----------------------------------------------------------------------------
(* What a run that ends with 0 has done.                                   *)

\* Every fixture that is done has its result, which is one of the records.
ResultsInv(r) ==
  /\ pc[r] \notin Ended => exitCode[r] # 0
  /\ pc[r] \in {"list", "reserve"} \union Holding =>
       todo[r] \subseteq runnableEntries(sel[r]) /\ ~SelectionFails(sel[r])
  /\ pc[r] \in {"list", "reserve"} => todo[r] = runnableEntries(sel[r])
  /\ pc[r] \in Holding => \A i \in runnableEntries(sel[r]) \ todo[r] :
       /\ Key(r, i) \in DOMAIN artifacts
       /\ \E n \in DOMAIN records[r] : records[r][n].verdict = artifacts[Key(r, i)].verdict
  /\ exitCode[r] = 0 =>
       /\ ~SelectionFails(sel[r]) /\ Run(r) \in summaries
       /\ \A i \in runnableEntries(sel[r]) :
            Key(r, i) \in DOMAIN artifacts /\ artifacts[Key(r, i)].verdict = "none"

\* A step that only adds results and summaries leaves those of the others.
LEMMA ResultsOfOthers ==
  ASSUME NEW r \in Runners, NEW q \in Runners, q # r, ResultsInv(q), Others(r), sel' = sel,
         summaries \subseteq summaries',
         \A k \in DOMAIN artifacts : k \in DOMAIN artifacts' /\ artifacts'[k] = artifacts[k]
  PROVE  ResultsInv(q)'
<1>1. /\ pc'[q] = pc[q] /\ todo'[q] = todo[q] /\ records'[q] = records[q] /\ exitCode'[q] = exitCode[q]
      /\ Run(q)' = Run(q) /\ runDir'[q] = runDir[q]
  BY DEF Others, Run, Label
<1>2. \A i : Key(q, i)' = Key(q, i)
  BY <1>1 DEF Key
<1> QED
  BY <1>1, <1>2 DEF ResultsInv

\* So does a step of the runner's own that changes none of it.
LEMMA ResultsSame ==
  ASSUME NEW r \in Runners, ResultsInv(r), UNCHANGED <<sel, runDir, todo, records, artifacts, summaries>>,
         exitCode' = exitCode \/ exitCode'[r] = 1, pc'[r] \in Holding => pc[r] \in Holding, pc[r] \notin Ended,
         pc'[r] \in Holding \union Ended
  PROVE  ResultsInv(r)'
<1>1. Run(r)' = Run(r) /\ \A i : Key(r, i)' = Key(r, i)
  BY DEF Run, Label, Key
<1> QED
  BY <1>1 DEF ResultsInv, Holding, Busy, Starting, Ending, Ended

LEMMA ChoosingResults ==
  ASSUME TypeInv, NEW r \in Runners, ResultsInv(r), Select(r) \/ ListRuns(r) \/ Reserve(r)
  PROVE  ResultsInv(r)'
<1> USE DEF Holding, Busy, Starting, Ending, Ended
<1>1. CASE Select(r)
  <2>1. /\ pc[r] = "select" /\ UNCHANGED <<sel, artifacts, summaries>>
        /\ \/ pc'[r] = "done" /\ exitCode'[r] = 1
           \/ /\ pc'[r] = "list" /\ ~SelectionFails(sel[r])
              /\ todo'[r] = runnableEntries(sel[r]) /\ exitCode' = exitCode
    BY <1>1 DEF Select, Exits, Goto, TypeInv, shared
  <2> QED
    BY <2>1 DEF ResultsInv
<1>2. CASE ListRuns(r)
  <2>1. pc[r] = "list" /\ pc'[r] = "reserve" /\ UNCHANGED <<sel, todo, exitCode>>
    BY <1>2 DEF ListRuns, Goto, TypeInv
  <2> QED
    BY <2>1 DEF ResultsInv
<1>3. CASE Reserve(r)
  <2>1. /\ pc[r] = "reserve" /\ UNCHANGED <<sel, todo>>
        /\ \/ pc'[r] \in {"reserve", "next"} /\ exitCode' = exitCode
           \/ pc'[r] = "done" /\ exitCode'[r] = 1
    BY <1>3 DEF Reserve, Exits, Goto, TypeInv
  <2> QED
    BY <2>1 DEF ResultsInv
<1> QED
  BY <1>1, <1>2, <1>3

LEMMA RecordKeepsResults ==
  ASSUME TypeInv, OwnersInv, NEW r \in Runners, ResultsInv(r), todo[r] # {}, Record(r)
  PROVE  ResultsInv(r)'
<1> DEFINE i0 == Min(todo[r])
<1>1. /\ pc[r] = "record" /\ UNCHANGED <<sel, runDir, summaries>>
      /\ \/ pc'[r] = "next" /\ exitCode' = exitCode /\ todo'[r] = todo[r] \ {i0}
         \/ pc'[r] = "done" /\ exitCode'[r] = 1
  BY DEF Record, Exits, Goto, TypeInv
<1>2. Run(r)' = Run(r) /\ \A i : Key(r, i)' = Key(r, i)
  BY <1>1 DEF Run, Label, Key
<1>3. CASE pc'[r] = "done"
  BY <1>1, <1>3 DEF ResultsInv, Holding, Busy, Starting, Ending, Ended
<1>4. CASE pc'[r] = "next"
  <2> DEFINE result == artifacts'[Key(r, i0)]
  <2>1. /\ Key(r, i0) \in DOMAIN artifacts' /\ result.verdict = verdict[r]
        /\ records'[r] = Append(records[r], result)
        /\ \A k \in DOMAIN artifacts : k \in DOMAIN artifacts' /\ artifacts'[k] = artifacts[k]
    BY <1>4, RecordResults
  <2> HIDE DEF result, i0
  <2>2. records[r] \in Seq(Results) /\ records'[r] \in Seq(Results)
    BY <1>4, RecordType DEF TypeInv
  <2>3. /\ \A n \in DOMAIN records[r] : n \in DOMAIN records'[r] /\ records'[r][n] = records[r][n]
        /\ Len(records[r]) + 1 \in DOMAIN records'[r] /\ records'[r][Len(records[r]) + 1] = result
    BY <2>1, <2>2
  <2>4. exitCode[r] # 0 /\ exitCode' = exitCode
    BY <1>1, <1>4 DEF ResultsInv, Ended
  <2>5. ASSUME NEW i \in runnableEntries(sel[r]) \ todo'[r]
        PROVE  /\ Key(r, i) \in DOMAIN artifacts'
               /\ \E n \in DOMAIN records'[r] : records'[r][n].verdict = artifacts'[Key(r, i)].verdict
    <3>1. CASE i = i0
      BY <2>1, <2>3, <3>1 DEF result
    <3>2. CASE i # i0
      <4>1. i \in runnableEntries(sel[r]) \ todo[r]
        BY <1>1, <1>4, <3>2
      <4>2. /\ Key(r, i) \in DOMAIN artifacts
            /\ \E n \in DOMAIN records[r] : records[r][n].verdict = artifacts[Key(r, i)].verdict
        BY <1>1, <4>1 DEF ResultsInv, Holding, Busy, Ending
      <4> QED
        BY <2>1, <2>3, <4>2
    <3> QED
      BY <3>1, <3>2
  <2>6. todo'[r] \subseteq runnableEntries(sel[r]) /\ ~SelectionFails(sel[r])
    BY <1>1, <1>4 DEF ResultsInv, Holding, Busy, Ending
  <2> QED
    BY <1>1, <1>2, <1>4, <2>4, <2>5, <2>6 DEF ResultsInv, Ended
<1> QED
  BY <1>1, <1>3, <1>4

LEMMA SummariseResults ==
  ASSUME TypeInv, NEW r \in Runners, ResultsInv(r), Summarise(r)
  PROVE  ResultsInv(r)'
<1>1. /\ pc[r] = "next" /\ todo[r] = {} /\ pc'[r] = "done"
      /\ UNCHANGED <<sel, runDir, todo, records, artifacts>>
      /\ exitCode'[r] = 0 => /\ summaries' = summaries \union {Run(r)}
                             /\ \A i \in DOMAIN records[r] : records[r][i].verdict = "none"
  BY DEF Summarise, Exits, Goto, TypeInv
<1>2. Run(r)' = Run(r) /\ \A i : Key(r, i)' = Key(r, i)
  BY <1>1 DEF Run, Label, Key
<1> QED
  BY <1>1, <1>2 DEF ResultsInv, Holding, Busy, Starting, Ending, Ended

-----------------------------------------------------------------------------
(* The invariant, and what follows from it.                                *)

IInv ==
  /\ TypeInv /\ OwnersInv
  /\ \A r \in Runners : PhaseInv(r) /\ VerdictInv(r) /\ ResultsInv(r)

LEMMA InitIInv == Init => IInv
<1> SUFFICES ASSUME Init PROVE IInv
  OBVIOUS
<1>1. TypeInv
  BY InitType
<1>2. OwnersInv
  BY DEF Init, OwnersInv, Holding, Busy, Starting, Ending
<1>3. ASSUME NEW r \in Runners
      PROVE  PhaseInv(r) /\ VerdictInv(r) /\ ResultsInv(r)
  <2>1. /\ pc[r] = "select" /\ child[r] = NoChild /\ call[r] = NoCall /\ records[r] = <<>>
        /\ exitCode[r] = NoValue
    BY DEF Init
  <2>2. PhaseInv(r)
    BY <2>1 DEF PhaseInv, Fresh, NoCall, Busy, Starting, Ending, After
  <2>3. VerdictInv(r)
    BY <2>1 DEF VerdictInv, Starting, Ending, JustRecorded
  <2>4. ResultsInv(r)
    BY <2>1, CommandsAssumption DEF ResultsInv, Holding, Busy, Starting, Ending
  <2> QED
    BY <2>2, <2>3, <2>4
<1> QED
  BY <1>1, <1>2, <1>3 DEF IInv

\* A step of r keeps what is known of the others.
LEMMA OthersKept ==
  ASSUME NEW r \in Runners, NEW q \in Runners, q # r, Others(r), PhaseInv(q), VerdictInv(q)
  PROVE  PhaseInv(q)' /\ VerdictInv(q)'
<1>1. /\ pc'[q] = pc[q] /\ todo'[q] = todo[q] /\ sandbox'[q] = sandbox[q] /\ child'[q] = child[q]
      /\ call'[q] = call[q] /\ verdict'[q] = verdict[q] /\ records'[q] = records[q]
  BY DEF Others
<1>2. Fixture(q)' = Fixture(q) /\ LastRecord(q)' = LastRecord(q) /\ (JustRecorded(q)' <=> JustRecorded(q))
  BY <1>1 DEF Fixture, LastRecord, JustRecorded
<1>3. PhaseInv(q)'
  BY <1>1, <1>2 DEF PhaseInv, Fresh, Settled
<1>4. VerdictInv(q)'
  BY <1>1, <1>2 DEF VerdictInv, ToJudge, Justified, Observed, Passed
<1> QED
  BY <1>3, <1>4

\* A step of one runner or its command, but for its own results and the owners.
LEMMA StepKeeps ==
  ASSUME IInv, NEW r \in Runners,
         (pc[r] \notin Ended /\ (Harness(r) \/ Events(r) \/ Command(r))) \/ Interrupt(r)
  PROVE  TypeInv' /\ Others(r) /\ PhaseInv(r)' /\ VerdictInv(r)'
<1> USE DEF IInv
<1>1. CASE Harness(r)
  <2>1. TypeInv' /\ Others(r)
    BY <1>1, SelectType, ListRunsType, ReserveType, LoadType, MaterializeType, PrepareType, SpawnType,
       JudgeType, CleanupType, RecordType, SummariseType
       DEF Harness, PhaseInv, Busy, Starting, Ending, Materialize, Spawn, Record
  <2> QED
    BY <1>1, <2>1, HarnessPhase, HarnessVerdict
<1>2. CASE pc[r] \notin Ended /\ (Events(r) \/ Command(r))
  <2>1. TypeInv' /\ Others(r)
    <3>1. CASE Events(r)
      BY <3>1, ReadOutputType, TimeoutType, ErrorEventType, CloseEventType DEF Events
    <3>2. CASE Command(r)
      <4>1. pc[r] = "running"
        BY <1>2, <3>2, Quiet DEF TypeInv, Holding, Busy, Before, After
      <4>2. todo[r] # {}
        BY <4>1 DEF PhaseInv, Busy
      <4> QED
        BY <3>2, <4>2, ChildWritesType, ChildMutatesType, ChildTracesType, ChildEndsType DEF Command
    <3> QED
      BY <1>2, <3>1, <3>2
  <2> QED
    BY <1>2, <2>1, EventsPhase, EventsVerdict
<1>3. CASE Interrupt(r)
  <2>1. pc'[r] = "killed"
    BY <1>3 DEF Interrupt, Goto, TypeInv
  <2> QED
    BY <1>3, <2>1, InterruptType DEF PhaseInv, VerdictInv, Busy, Before, After, Choosing, Starting, Ending,
       JustRecorded
<1> QED
  BY <1>1, <1>2, <1>3

\* Of all the steps only a record writes a result, one that was not there.
LEMMA StepResults ==
  ASSUME IInv, NEW r \in Runners,
         (pc[r] \notin Ended /\ (Harness(r) \/ Events(r) \/ Command(r))) \/ Interrupt(r)
  PROVE  /\ OwnersInv' /\ ResultsInv(r)' /\ sel' = sel /\ summaries \subseteq summaries'
         /\ \A k \in DOMAIN artifacts : k \in DOMAIN artifacts' /\ artifacts'[k] = artifacts[k]
<1>1. TypeInv' /\ Others(r) /\ PhaseInv(r)
  BY StepKeeps DEF IInv
<1>2. CASE Record(r)
  <2>1. todo[r] # {} /\ UNCHANGED <<sel, summaries>>
    BY <1>1, <1>2 DEF Record, PhaseInv, Busy, Ending
  <2> QED
    BY <1>1, <1>2, <2>1, RecordOwners, RecordKeepsResults, RecordResults DEF IInv
<1>3. CASE Select(r) \/ ListRuns(r) \/ Reserve(r)
  <2>1. UNCHANGED <<sel, summaries, artifacts>>
    BY <1>3 DEF Select, ListRuns, Reserve, shared
  <2>2. OwnersInv'
    <3>1. CASE Reserve(r)
      BY <1>1, <3>1, ReserveOwners DEF IInv
    <3>2. CASE Select(r) \/ ListRuns(r)
      <4>1. pc'[r] \notin Holding /\ runs' = runs
        BY <3>2 DEF Select, ListRuns, Exits, Goto, IInv, TypeInv, shared, Holding, Busy, Starting, Ending
      <4> QED
        BY <1>1, <2>1, <4>1, OwnersKept DEF IInv
    <3> QED
      BY <1>3, <3>1, <3>2
  <2> QED
    BY <1>3, <2>1, <2>2, ChoosingResults DEF IInv
<1>4. CASE Summarise(r)
  <2>1. /\ UNCHANGED <<sel, runs, artifacts>> /\ pc'[r] = "done" /\ summaries \subseteq summaries'
    BY <1>4 DEF Summarise, Exits, Goto, IInv, TypeInv
  <2> QED
    BY <1>1, <1>4, <2>1, OwnersKept, SummariseResults DEF IInv, Holding, Busy, Starting, Ending
<1>5. CASE Load(r) \/ Materialize(r) \/ Prepare(r) \/ Spawn(r) \/ Judge(r) \/ Cleanup(r)
             \/ (pc[r] \notin Ended /\ (Events(r) \/ Command(r))) \/ Interrupt(r)
  <2>1. /\ UNCHANGED <<sel, runDir, records, todo, shared>>
        /\ ~Events(r) => UNCHANGED <<exitCode>>
    BY <1>5 DEF Load, Materialize, Prepare, Spawn, Judge, Cleanup, Interrupt, Events, ReadOutput, Timeout,
         ErrorEvent, CloseEvent, Command, ChildWrites, ChildMutates, ChildTraces, ChildEnds, Silent, run
  <2>2. /\ pc[r] \notin Ended /\ pc'[r] \in Holding \union Ended
        /\ pc'[r] \in Holding => pc[r] \in Holding
    <3>1. CASE Load(r) \/ Materialize(r) \/ Prepare(r) \/ Spawn(r) \/ Judge(r) \/ Cleanup(r)
      BY <3>1 DEF Load, Materialize, Prepare, Spawn, Judge, Cleanup, Goto, IInv, TypeInv,
           Holding, Busy, Starting, Ending, Ended
    <3>2. CASE Interrupt(r)
      BY <3>2 DEF Interrupt, Goto, IInv, TypeInv, Holding, Busy, Starting, Ending, Ended
    <3>3. CASE pc[r] \notin Ended /\ (Events(r) \/ Command(r))
      <4>1. pc[r] \in Holding
        <5>1. CASE pc[r] \in Before
          <6>1. Fresh(r)
            BY <1>1, <5>1 DEF PhaseInv
          <6> QED
            BY <1>1, <3>3, <5>1, <6>1, Quiet DEF IInv
        <5> QED
          BY <3>3, <5>1 DEF IInv, TypeInv, Before
      <4>2. pc' = pc \/ pc'[r] \in {"judge", "done"}
        <5>1. CASE Events(r)
          BY <5>1, EventsOutcome DEF IInv
        <5>2. CASE Command(r)
          BY <5>2 DEF Command, ChildWrites, ChildMutates, ChildTraces, ChildEnds, Silent
        <5> QED
          BY <3>3, <5>1, <5>2
      <4> QED
        BY <3>3, <4>1, <4>2 DEF Holding, Busy, Ending, Ended
    <3> QED
      BY <1>5, <3>1, <3>2, <3>3
  <2>3. /\ UNCHANGED <<sel, runDir, records, todo, runs, artifacts, summaries>>
        /\ exitCode' = exitCode \/ exitCode'[r] = 1
    BY <2>1, EventsOutcome DEF shared, IInv
  <2> QED
    BY <1>1, <2>2, <2>3, OwnersKept, ResultsSame DEF IInv
<1> QED
  BY <1>2, <1>3, <1>4, <1>5 DEF Harness

LEMMA NextIInv == IInv /\ [Next]_vars => IInv'
<1> SUFFICES ASSUME IInv, [Next]_vars PROVE IInv'
  OBVIOUS
<1>1. CASE UNCHANGED vars
  <2>1. UNCHANGED <<pc, sel, runDir, records, exitCode, todo, runs, artifacts, summaries, sandbox, child,
                    call, verdict>>
    BY <1>1 DEF vars, run, shared
  <2>2. TypeInv'
    BY <2>1 DEF IInv, TypeInv
  <2>3. \A r \in Runners : Run(r)' = Run(r) /\ \A i : Key(r, i)' = Key(r, i)
    BY <2>1 DEF Run, Label, Key
  <2>4. OwnersInv'
    BY <2>1, <2>3 DEF IInv, OwnersInv
  <2>5. ASSUME NEW r \in Runners
        PROVE  PhaseInv(r)' /\ VerdictInv(r)' /\ ResultsInv(r)'
    <3>1. /\ Fixture(r)' = Fixture(r) /\ LastRecord(r)' = LastRecord(r)
          /\ (JustRecorded(r)' <=> JustRecorded(r))
      BY <2>1 DEF Fixture, LastRecord, JustRecorded
    <3>2. PhaseInv(r)'
      BY <2>1, <3>1 DEF IInv, PhaseInv, Fresh, Settled
    <3>3. VerdictInv(r)'
      BY <2>1, <3>1 DEF IInv, VerdictInv, ToJudge, Justified, Observed, Passed
    <3>4. ResultsInv(r)'
      BY <2>1, <2>3 DEF IInv, ResultsInv
    <3> QED
      BY <3>2, <3>3, <3>4
  <2> QED
    BY <2>2, <2>4, <2>5 DEF IInv
<1>2. CASE Next
  <2>1. PICK r \in Runners :
          (pc[r] \notin Ended /\ (Harness(r) \/ Events(r) \/ Command(r))) \/ Interrupt(r)
    BY <1>2 DEF Next
  <2>2. TypeInv' /\ OwnersInv' /\ PhaseInv(r)' /\ VerdictInv(r)' /\ ResultsInv(r)' /\ Others(r)
    BY <2>1, StepKeeps, StepResults
  <2>3. ASSUME NEW q \in Runners, q # r
        PROVE  PhaseInv(q)' /\ VerdictInv(q)' /\ ResultsInv(q)'
    BY <2>1, <2>2, <2>3, OthersKept, ResultsOfOthers, StepResults DEF IInv
  <2> QED
    BY <2>2, <2>3 DEF IInv
<1> QED
  BY <1>1, <1>2

LEMMA Invariance == Spec => []IInv
<1> QED
  BY InitIInv, NextIInv, PTL DEF Spec

-----------------------------------------------------------------------------
(* Where the runners are, and the numbers of the run directories.          *)

\* Numbers with a bound, one at least, have a highest.
LEMMA MaxOf ==
  ASSUME NEW S \in SUBSET Nat, S # {}, NEW n \in Nat, \A x \in S : x <= n
  PROVE  Max(S) \in S
<1> DEFINE B == {k \in Nat : \A x \in S : x <= k}
<1>1. B \in SUBSET Nat /\ B # {}
  OBVIOUS
<1>2. PICK b \in B : \A y \in B : ~ (<<y, b>> \in OpToRel(<, Nat))
  <2> HIDE DEF B
  <2> QED
    BY <1>1, WFMin, NatLessThanWellFounded, Zenon
<1>3. b \in Nat /\ \A x \in S : x \in Nat /\ x <= b
  <2>1. b \in B
    BY <1>2
  <2> QED
    BY <2>1
<1> HIDE DEF B
<1>4. b \in S
  <2> SUFFICES ASSUME b \notin S PROVE FALSE
    OBVIOUS
  <2>1. \A x \in S : x < b
    BY <1>3
  <2>2. b - 1 \in Nat /\ \A x \in S : x <= b - 1
    <3>1. PICK x \in S : x \in Nat /\ x < b
      BY <1>3, <2>1
    <3> QED
      BY <1>3, <2>1, <3>1
  <2>3. <<b - 1, b>> \in Nat \X Nat /\ <<b - 1, b>>[1] < <<b - 1, b>>[2]
    BY <1>3, <2>2
  <2>4. <<b - 1, b>> \in OpToRel(<, Nat)
    BY <2>3, Zenon DEF OpToRel
  <2>5. b - 1 \in B
    BY <2>2 DEF B
  <2> QED
    BY <1>2, <2>4, <2>5, Zenon
<1>5. \E x \in S : \A y \in S : x >= y
  BY <1>3, <1>4
<1> QED
  BY <1>5, Zenon DEF Max

\* The number of the run directory of a runner, and of those there are, is a number, and
\* one of those there are is the highest.
NumbersInv ==
  /\ \A r \in Runners : sel[r] \in Selections(r)
  /\ runDir \in [Runners -> Nat]
  /\ faults \in 0..MaxFaults
  /\ \E n \in Nat : \A d \in runs : d[2] \in Nat /\ d[2] <= n

LEMMA NextNumbers ==
  ASSUME IInv, NumbersInv, [Next]_vars
  PROVE  NumbersInv'
<1>1. CASE UNCHANGED vars
  BY <1>1 DEF vars, run, shared, NumbersInv
<1>2. ASSUME NEW r \in Runners, ListRuns(r)
      PROVE  NumbersInv'
  <2> DEFINE numbers == {d[2] : d \in {e \in runs : e[1] = Label(sel[r])}}
             all     == numbers \union {0}
  <2>1. PICK n \in Nat : \A d \in runs : d[2] \in Nat /\ d[2] <= n
    BY DEF NumbersInv
  <2>2. all \in SUBSET Nat /\ all # {} /\ \A x \in all : x <= n
    BY <2>1
  <2>3. Max(all) \in all
    <3> HIDE DEF all
    <3> QED
      BY <2>2, MaxOf
  <2>4. Max(all) + 1 \in Nat
    <3> HIDE DEF all
    <3>1. Max(all) \in Nat
      BY <2>2, <2>3, Zenon
    <3> QED
      BY <3>1
  <2>5. runDir' = [runDir EXCEPT ![r] = Max(all) + 1] /\ UNCHANGED <<sel, runs, faults>>
    BY <1>2 DEF ListRuns, shared
  <2> HIDE DEF all
  <2> QED
    BY <2>4, <2>5 DEF NumbersInv
<1>3. ASSUME NEW r \in Runners, Reserve(r)
      PROVE  NumbersInv'
  <2>1. PICK n \in Nat : \A d \in runs : d[2] \in Nat /\ d[2] <= n
    BY DEF NumbersInv
  <2>2. /\ runDir' = runDir \/ runDir' = [runDir EXCEPT ![r] = @ + 1]
        /\ runs' = runs \/ runs' = runs \union {Run(r)}
        /\ faults' \in 0..MaxFaults /\ sel' = sel
    BY <1>3, BoundsAssumption DEF Reserve, Fault, NoFault, NumbersInv
  <2>3. Run(r)[2] = runDir[r] /\ runDir[r] \in Nat
    BY DEF Run, NumbersInv
  <2>4. PICK m \in Nat : n <= m /\ runDir[r] <= m
    BY <2>3
  <2>5. \A d \in runs' : d[2] \in Nat /\ d[2] <= m
    BY <2>1, <2>2, <2>3, <2>4
  <2> QED
    BY <2>2, <2>3, <2>5 DEF NumbersInv
<1>4. ASSUME NEW r \in Runners,
             Select(r) \/ Load(r) \/ Materialize(r) \/ Prepare(r) \/ Spawn(r) \/ Judge(r) \/ Cleanup(r)
             \/ Record(r) \/ Summarise(r) \/ Events(r) \/ Command(r) \/ Interrupt(r)
      PROVE  NumbersInv'
  <2>1. UNCHANGED <<sel, runDir, runs>>
    BY <1>4 DEF Select, Load, Materialize, Prepare, Spawn, Judge, Cleanup, Record, Summarise, Interrupt,
         Events, ReadOutput, Timeout, ErrorEvent, CloseEvent, Command, ChildWrites, ChildMutates,
         ChildTraces, ChildEnds, Silent, run, shared
  <2>2. faults' = faults \/ Fault
    <3>1. CASE Events(r)
      BY <3>1, EventsOutcome DEF IInv
    <3>2. CASE ~Events(r)
      BY <1>4, <3>2 DEF Select, Load, Materialize, Prepare, Spawn, Judge, Cleanup, Record, Summarise,
           Interrupt, Command, ChildWrites, ChildMutates, ChildTraces, ChildEnds, Silent, NoFault
    <3> QED
      BY <3>1, <3>2
  <2> QED
    BY <2>1, <2>2, BoundsAssumption DEF NumbersInv, Fault
<1> QED
  BY <1>1, <1>2, <1>3, <1>4 DEF Next, Harness

-----------------------------------------------------------------------------
(* What a fixture leaves behind, while it runs and once it is recorded.    *)

LeftInv(r) ==
  /\ pc[r] \in {"materialize", "prepare"} => call[r].temps = {}
  /\ faults = 0 /\ pc[r] \in {"spawn", "running"} => call[r].traced = "not_emitted"
  /\ pc[r] \in Ending /\ "preload" \in call[r].temps => verdict[r] = "harness"
  /\ faults = 0 /\ pc[r] \in Ending => call[r].temps = {}
  /\ faults = 0 /\ pc[r] = "record" => sandbox[r].state # "ready"
  /\ JustRecorded(r) =>
       /\ "preload" \in call[r].temps => LastRecord(r).verdict = "harness"
       /\ faults = 0 => call[r].temps = {} /\ sandbox[r].state # "ready"

\* Faults are counted: a step after which there was none is a step without one.
LEMMA NoFaultYet ==
  ASSUME NumbersInv
  PROVE  Fault => faults' # 0
BY BoundsAssumption DEF NumbersInv, Fault

LEMMA HarnessLeft ==
  ASSUME IInv, NumbersInv, NEW r \in Runners, LeftInv(r), Harness(r)
  PROVE  LeftInv(r)'
<1> USE DEF Ending
<1>1. TypeInv /\ VerdictInv(r)
  BY DEF IInv
<1>2. Fault => faults' # 0
  BY NoFaultYet
<1>3. CASE Select(r) \/ ListRuns(r) \/ Reserve(r)
  <2>1. pc[r] \in Choosing /\ pc'[r] \in {"list", "reserve", "next", "done"} /\ UNCHANGED records
    BY <1>1, <1>3 DEF Select, ListRuns, Reserve, Exits, Goto, TypeInv, Choosing
  <2>2. ~JustRecorded(r)'
    BY <1>1, <2>1 DEF VerdictInv, JustRecorded
  <2> QED
    BY <2>1, <2>2 DEF LeftInv
<1>4. CASE Load(r)
  <2>1. /\ pc'[r] \in {"materialize", "cleanup"} /\ call'[r] = NoCall /\ sandbox'[r] = NoSandbox
    BY <1>1, <1>4 DEF Load, Goto, TypeInv
  <2> QED
    BY <2>1 DEF LeftInv, NoCall, JustRecorded
<1>5. CASE Materialize(r)
  <2>1. pc[r] = "materialize" /\ pc'[r] \in {"prepare", "cleanup"} /\ UNCHANGED call
    BY <1>1, <1>5 DEF Materialize, Goto, TypeInv
  <2> QED
    BY <2>1 DEF LeftInv, JustRecorded
<1>6. CASE Prepare(r)
  <2>1. CASE pc'[r] = "spawn"
    <3>1. faults' = 0 => call'[r].traced = "not_emitted"
      BY <1>1, <1>2, <1>6, <2>1 DEF Prepare, Goto, TypeInv, Calls
    <3> QED
      BY <2>1, <3>1 DEF LeftInv, JustRecorded
  <2>2. CASE pc'[r] # "spawn"
    <3>1. pc'[r] = "judge" /\ verdict'[r] = "harness" /\ faults' # 0
      BY <1>1, <1>2, <1>6, <2>2 DEF Prepare, Goto, Fails, TypeInv
    <3> QED
      BY <3>1 DEF LeftInv, JustRecorded
  <2> QED
    BY <2>1, <2>2
<1>7. CASE Spawn(r)
  <2>1. CASE pc'[r] = "running"
    <3>1. pc[r] = "spawn" /\ call' = [call EXCEPT ![r].timer = "armed"] /\ (faults' = 0 => faults = 0)
      BY <1>1, <1>2, <1>7, <2>1 DEF Spawn, Goto, TypeInv, NoFault
    <3>2. call'[r].traced = call[r].traced
      BY <1>1, <3>1 DEF TypeInv, Calls
    <3> QED
      BY <2>1, <3>1, <3>2 DEF LeftInv, JustRecorded
  <2>2. CASE pc'[r] # "running"
    <3>1. pc'[r] = "judge" /\ verdict'[r] = "harness" /\ faults' # 0
      BY <1>1, <1>2, <1>7, <2>2 DEF Spawn, Goto, Fails, TypeInv
    <3> QED
      BY <3>1 DEF LeftInv, JustRecorded
  <2> QED
    BY <2>1, <2>2
<1>8. CASE Judge(r)
  <2>1. /\ pc[r] = "judge" /\ pc'[r] = "cleanup" /\ UNCHANGED call
        /\ (faults' = 0 => faults = 0) /\ (verdict[r] # "none" => verdict'[r] = verdict[r])
    BY <1>1, <1>2, <1>8 DEF Judge, Goto, TypeInv, NoFault
  <2> QED
    BY <2>1 DEF LeftInv, JustRecorded
<1>9. CASE Cleanup(r)
  <2>1. /\ pc[r] = "cleanup" /\ pc'[r] = "record" /\ UNCHANGED call
        /\ (faults' = 0 => faults = 0) /\ (verdict[r] # "none" => verdict'[r] = verdict[r])
        /\ (faults' = 0 => sandbox'[r].state # "ready")
    BY <1>1, <1>2, <1>9 DEF Cleanup, Goto, Fails, TypeInv, Sandboxes, NoFault
  <2> QED
    BY <2>1 DEF LeftInv, JustRecorded
<1>10. CASE Record(r)
  <2>1. CASE pc'[r] = "done"
    BY <2>1 DEF LeftInv, JustRecorded
  <2>2. CASE pc'[r] # "done"
    <3> DEFINE last == [by |-> r, fixture |-> Fixture(r), verdict |-> verdict[r], exit |-> call[r].exit,
                        traced |-> call[r].traced, phase |-> LastFailedPhase(r)]
    <3>1. /\ pc[r] = "record" /\ pc'[r] = "next" /\ UNCHANGED <<call, sandbox, faults>>
          /\ records' = [records EXCEPT ![r] = Append(@, last)]
      BY <1>1, <1>10, <2>2 DEF Record, Goto, Exits, TypeInv, NoFault
    <3>2. records'[r] = Append(records[r], last) /\ last.verdict = verdict[r]
      BY <1>1, <3>1 DEF TypeInv
    <3>3. LastRecord(r)'.verdict = verdict[r]
      <4> HIDE DEF last
      <4> QED
        BY <1>1, <3>2 DEF LastRecord, TypeInv
    <3> HIDE DEF last
    <3> QED
      BY <3>1, <3>3 DEF LeftInv, JustRecorded
  <2> QED
    BY <2>1, <2>2
<1>11. CASE Summarise(r)
  <2>1. pc'[r] = "done"
    BY <1>1, <1>11 DEF Summarise, Exits, Goto, TypeInv
  <2> QED
    BY <2>1 DEF LeftInv, JustRecorded
<1> QED
  BY <1>3, <1>4, <1>5, <1>6, <1>7, <1>8, <1>9, <1>10, <1>11 DEF Harness

LEMMA EventsLeft ==
  ASSUME IInv, NumbersInv, NEW r \in Runners, LeftInv(r), pc[r] \notin Ended, Events(r) \/ Command(r)
  PROVE  LeftInv(r)'
<1> USE DEF Ending
<1>1. TypeInv /\ PhaseInv(r)
  BY DEF IInv
<1>2. faults \in Nat /\ (faults' = 0 => faults = 0)
  <2>1. faults \in Nat
    BY BoundsAssumption DEF NumbersInv
  <2>2. CASE Events(r)
    BY <1>1, <2>1, <2>2, NoFaultYet, EventsOutcome
  <2>3. CASE Command(r)
    BY <2>1, <2>3 DEF Command, ChildWrites, ChildMutates, ChildTraces, ChildEnds, Silent
  <2> QED
    BY <2>2, <2>3
<1>3. /\ LastRecord(r)' = LastRecord(r) /\ UNCHANGED records /\ (Events(r) => UNCHANGED sandbox)
  BY DEF LastRecord, Events, ReadOutput, Timeout, ErrorEvent, CloseEvent, Command, ChildWrites,
         ChildMutates, ChildTraces, ChildEnds, Silent, run
<1>4. ASSUME NEW kept, Drops(r, kept), pc[r] = "running"
      PROVE  LeftInv(r)'
  <2>1. pc'[r] \in {"judge", "done"} /\ (pc'[r] = "judge" => "preload" \notin kept)
    BY <1>1, <1>4 DEF Drops, TypeInv
  <2>2. pc'[r] = "judge" => "preload" \notin call'[r].temps
    BY <1>4, <2>1 DEF Drops, Disposed
  <2>3. faults' = 0 => call'[r].temps = {}
    <3> SUFFICES ASSUME faults' = 0 PROVE call'[r].temps = {}
      OBVIOUS
    <3>1. kept = {} /\ call[r].traced = "not_emitted"
      BY <1>2, <1>4, NoFaultYet DEF Drops, LeftInv
    <3> QED
      BY <1>4, <3>1 DEF Drops, Disposed
  <2> QED
    BY <2>1, <2>2, <2>3 DEF LeftInv, JustRecorded
<1>5. CASE pc[r] = "running"
  <2>1. CASE ErrorEvent(r)
    BY <1>1, <1>4, <1>5, <2>1, ErrorEventType
  <2>2. CASE CloseEvent(r)
    BY <1>1, <1>4, <1>5, <2>2, CloseEventType DEF Closes, PhaseInv
  <2>3. CASE ReadOutput(r) \/ Timeout(r) \/ Command(r)
    <3>1. UNCHANGED pc /\ call'[r].traced = call[r].traced
      <4>1. CASE ReadOutput(r)
        BY <1>1, <4>1 DEF ReadOutput, TypeInv, Calls
      <4>2. CASE Timeout(r)
        BY <1>1, <4>2 DEF Timeout, TypeInv, Calls
      <4>3. CASE Command(r)
        BY <4>3 DEF Command, ChildWrites, ChildMutates, ChildTraces, ChildEnds, Silent
      <4> QED
        BY <2>3, <4>1, <4>2, <4>3
    <3> QED
      BY <1>2, <1>5, <3>1 DEF LeftInv, JustRecorded
  <2> QED
    BY <2>1, <2>2, <2>3 DEF Events
<1>6. CASE pc[r] \in Before \union After
  <2>1. ~Fresh(r) /\ pc[r] \in After /\ (ReadOutput(r) \/ CloseEvent(r))
    BY <1>1, <1>6, Quiet DEF PhaseInv, Events
  <2>2. UNCHANGED <<pc, verdict, sandbox>> /\ call'[r].temps = call[r].temps
    BY <1>1, <1>3, <1>6, <2>1, Quiet, CloseEventType, ReadOutputType DEF ReadOutput, Events
  <2> QED
    BY <1>2, <1>3, <2>1, <2>2 DEF LeftInv, JustRecorded, After
<1> QED
  BY <1>1, <1>5, <1>6 DEF TypeInv, Holding, Busy, Before, After

\* What a step of r leaves of the others, with the count of the faults.
LEMMA OthersLeft ==
  ASSUME NEW r \in Runners, NEW q \in Runners, q # r, Others(r), LeftInv(q),
         faults' = 0 => faults = 0
  PROVE  LeftInv(q)'
<1>1. LastRecord(q)' = LastRecord(q) /\ (JustRecorded(q)' <=> JustRecorded(q))
  BY DEF Others, LastRecord, JustRecorded
<1> QED
  BY <1>1 DEF Others, LeftInv

LEMMA NextLeft ==
  ASSUME IInv, NumbersInv, [Next]_vars, \A r \in Runners : LeftInv(r)
  PROVE  \A r \in Runners : LeftInv(r)'
<1>1. CASE UNCHANGED vars
  BY <1>1 DEF vars, run, LeftInv, JustRecorded, LastRecord
<1>2. CASE Next
  <2>1. PICK r \in Runners :
          (pc[r] \notin Ended /\ (Harness(r) \/ Events(r) \/ Command(r))) \/ Interrupt(r)
    BY <1>2 DEF Next
  <2>2. TypeInv /\ TypeInv' /\ Others(r)
    BY <2>1, StepKeeps DEF IInv
  <2>3. faults' = 0 => faults = 0
    <3>1. CASE Harness(r) \/ Command(r) \/ Interrupt(r)
      BY <3>1, NoFaultYet DEF Harness, Select, ListRuns, Reserve, Load, Materialize, Prepare, Spawn, Judge,
           Cleanup, Record, Summarise, Interrupt, Command, ChildWrites, ChildMutates, ChildTraces,
           ChildEnds, Silent, NoFault
    <3>2. CASE Events(r)
      BY <2>2, <3>2, NoFaultYet, EventsOutcome
    <3> QED
      BY <2>1, <3>1, <3>2
  <2>4. LeftInv(r)'
    <3>1. CASE Interrupt(r)
      <4>1. pc'[r] = "killed"
        BY <2>2, <3>1 DEF Interrupt, Goto, TypeInv
      <4> QED
        BY <4>1 DEF LeftInv, JustRecorded, Ending
    <3> QED
      BY <2>1, <3>1, HarnessLeft, EventsLeft
  <2> QED
    BY <2>2, <2>3, <2>4, OthersLeft
<1> QED
  BY <1>1, <1>2

-----------------------------------------------------------------------------
(* The theorems.                                                           *)

\* Whatever runners run at a time, a result that was written is never lost or replaced
\* (reserveNextRunDirectory, writeFixtureRunArtifacts).
THEOREM ResultsAreKept == Spec => ResultsKept
<1>1. IInv /\ [Next]_vars =>
        [\A k \in DOMAIN artifacts : k \in DOMAIN artifacts' /\ artifacts'[k] = artifacts[k]]_vars
  BY StepResults DEF Next
<1> QED
  BY <1>1, Invariance, PTL DEF Spec, ResultsKept

\* What a recorded fixture leaves behind is what failed to be removed, and a sandbox or a
\* preload that stays is a failure on record (settle, disposeSandbox).
THEOREM RunnersCleanUp == Spec => []CleanedUp
<1> DEFINE Left == \A r \in Runners : LeftInv(r)
<1>1. Init => NumbersInv /\ Left
  <2>1. Init => NumbersInv
    BY BoundsAssumption DEF Init, NumbersInv
  <2>2. Init => Left
    BY DEF Init, LeftInv, JustRecorded, Ending
  <2> QED
    BY <2>1, <2>2
<1>2. IInv /\ NumbersInv /\ Left /\ [Next]_vars => NumbersInv' /\ Left'
  BY NextNumbers, NextLeft
<1>3. IInv /\ Left => CleanedUp
  <2> SUFFICES ASSUME IInv, Left, NEW r \in Runners, JustRecorded(r)
               PROVE  /\ child[r].of # NoValue => child[r].end # "none" /\ call[r].settled
                      /\ call[r].timer # "armed"
                      /\ sandbox[r].state = "ready" => LastRecord(r).verdict # "none"
                      /\ "preload" \in call[r].temps => LastRecord(r).verdict = "harness"
                      /\ faults = 0 => call[r].temps = {} /\ sandbox[r].state # "ready"
    BY DEF CleanedUp
  <2>1. Fresh(r) \/ Settled(r)
    BY DEF IInv, PhaseInv, After, JustRecorded
  <2>2. sandbox[r].state = "ready" => LastRecord(r).verdict # "none"
    BY DEF IInv, VerdictInv
  <2>3. /\ child[r].of # NoValue => child[r].end # "none" /\ call[r].settled
        /\ call[r].timer # "armed"
    BY <2>1 DEF Fresh, Settled, NoChild
  <2> QED
    BY <2>2, <2>3 DEF LeftInv
<1> HIDE DEF Left
<1> QED
  BY <1>1, <1>2, <1>3, Invariance, PTL DEF Spec

\* The verdict of a record is what happened to its command, whichever of the timer, the
\* error and the close came first (executeFixtureCommand).
THEOREM VerdictsAreJustified == Spec => []VerdictJustified
<1>1. IInv => VerdictJustified
  BY DEF IInv, VerdictInv, VerdictJustified, Justified, Observed
<1> QED
  BY <1>1, Invariance, PTL

\* A fixture passes only for all of what its command wrote and did (the oracles).
THEOREM PassesAreObserved == Spec => []PassMeansObserved
<1>1. IInv => PassMeansObserved
  BY DEF IInv, VerdictInv, PassMeansObserved, Passed
<1> QED
  BY <1>1, Invariance, PTL

\* Exit code 0 is given for a run of every fixture that was asked for, all passed, with
\* their results on disk, whatever other runners write (main of the runner).
THEOREM ExitZeroIsEarned == Spec => []ExitZeroMeansAllPassed
<1>1. ASSUME NEW r \in Runners
      PROVE  Asked(r) = {Catalog[i] : i \in runnableEntries(sel[r])}
  <2>1. \A i \in DOMAIN Catalog : Catalog[i] \in Entries
    BY CatalogAssumption
  <2>2. \A d \in Entries : \E i \in DOMAIN Catalog : d = Catalog[i]
    BY CatalogAssumption DEF Entries, ToSet
  <2>3. ASSUME NEW i \in DOMAIN Catalog
        PROVE  i \in runnableEntries(sel[r]) <=> Catalog[i] \in Asked(r)
    <3>1. ASSUME NEW d, d = Catalog[i]
          PROVE  i \in runnableEntries(sel[r]) <=>
                   /\ sel[r].family = NoValue \/ d.family = sel[r].family
                   /\ sel[r].fixtureId = NoValue \/ d.id = sel[r].fixtureId
                   /\ d.repo = "dir" /\ d.hasManifest
                   /\ sel[r].stdoutGoldenOnly => d.manifest.stdout.kind = "golden"
      BY <2>1, <3>1 DEF runnableEntries, selectFixtureEntries, Considered, Runnable
    <3>2. ASSUME NEW d \in Entries
          PROVE  d \in Asked(r) <=>
                   /\ sel[r].fixtureId \in {NoValue, d.id} /\ sel[r].family \in {NoValue, d.family}
                   /\ d.repo = "dir" /\ d.hasManifest
                   /\ sel[r].stdoutGoldenOnly => d.manifest.stdout.kind = "golden"
      BY DEF Asked
    <3> QED
      BY <2>1, <3>1, <3>2
  <2>4. Asked(r) \subseteq Entries /\ runnableEntries(sel[r]) \subseteq DOMAIN Catalog
    BY Zenon DEF Asked, runnableEntries, selectFixtureEntries
  <2> QED
    BY <2>1, <2>2, <2>3, <2>4
<1>2. ASSUME NEW r \in Runners, ~SelectionFails(sel[r])
      PROVE  runnableEntries(sel[r]) # {}
  BY <1>2 DEF SelectionFails, runnableEntries
<1>3. ASSUME IInv, NEW r \in Runners, exitCode[r] = 0
      PROVE  /\ Asked(r) # {} /\ Run(r) \in summaries
             /\ \A d \in Asked(r) : /\ Result(r, d) \in DOMAIN artifacts
                                    /\ artifacts[Result(r, d)].verdict = "none"
  <2>1. /\ ~SelectionFails(sel[r]) /\ Run(r) \in summaries
        /\ \A i \in runnableEntries(sel[r]) :
             Key(r, i) \in DOMAIN artifacts /\ artifacts[Key(r, i)].verdict = "none"
    BY <1>3 DEF IInv, ResultsInv
  <2>2. \A i : Key(r, i) = Result(r, Catalog[i])
    BY DEF Key, Result
  <2> QED
    BY <1>1, <1>2, <2>1, <2>2
<1>4. IInv => ExitZeroMeansAllPassed
  BY <1>3 DEF ExitZeroMeansAllPassed
<1> QED
  BY <1>4, Invariance, PTL

\* The runners and their fixtures are in the states the code gives them, and the number
\* of a run directory is one.
THEOREM FixtureRunTypeCorrect == Spec => []TypeOK
<1>1. Init => NumbersInv
  BY BoundsAssumption DEF Init, NumbersInv
<1>2. IInv /\ NumbersInv => TypeOK
  BY DEF IInv, TypeInv, NumbersInv, TypeOK, Choosing, Holding, Busy, Starting, Ending
<1> QED
  BY <1>1, <1>2, NextNumbers, Invariance, PTL DEF Spec

=============================================================================
