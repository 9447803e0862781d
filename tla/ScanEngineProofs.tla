------------------------- MODULE ScanEngineProofs -------------------------
(***************************************************************************)
(* Proofs about ScanEngine, for every set of anchors and files and every   *)
(* input: a usable mapping reaches exactly the files its seeds lead to,    *)
(* every anchor is accounted for, files are called untraced only when      *)
(* the contract allows it, and the counters agree with one another.  Two   *)
(* lemmas give the whole report as a function of the input.                *)
(***************************************************************************)
EXTENDS ScanEngine, FiniteSetTheorems, TLAPS

\* What has been looked at so far, and what has not.
Progress ==
  /\ \A a \in todo : state[a] = "none"
  /\ \A a \in Anchors : state[a] = "none" => a \notin Stored \ todo
  /\ \A a \in Anchors : state[a] # "none" => a \in Stored
  /\ \A a \in Anchors : state[a] = "stale" => a \notin Active
  /\ \A a \in Anchors : state[a] = "usable" =>
        a \in Active /\ input.mappings[a] \subseteq input.product
  /\ \A a \in Anchors : state[a] = "invalid" =>
        a \in Active /\ ~(input.mappings[a] \subseteq input.product)
  /\ pc \notin {"mappings", "reach"} => todo = {}

TInv == TypeOK /\ Progress

\* The walk from the seeds of the current mapping: what is queued is reachable,
\* and the targets of what is reached are queued.
WalkInv ==
  pc = "reach" =>
    /\ current \in Anchors /\ state[current] = "usable"
    /\ input.mappings[current] \subseteq queued
    /\ queued \subseteq ReachableFrom(input.mappings[current])
    /\ \A f \in reached : Targets(f) \subseteq queued

\* The mappings the walk has been completed for.
Walked(a) == state[a] = "usable" /\ ~(pc = "reach" /\ a = current)

ReachedInv ==
  \A a \in Anchors :
    reachedBy[a] = IF Walked(a) THEN ReachableFrom(input.mappings[a]) ELSE {}

RInv == TInv /\ WalkInv /\ ReachedInv

\* The parts of an input.
LEMMA InputParts ==
  ASSUME NEW in \in Inputs
  PROVE  /\ in.mappings \in [Anchors -> ((SUBSET Files) \ {{}}) \union {None}]
         /\ in.product \subseteq Files
         /\ in.edges \in [Files -> SUBSET Files]
         /\ in.graphFindings \subseteq {"static_edge"} \X Files
  BY InputsAssumption DEF InputType

\* The mapping of a stored anchor is its set of seeds.
LEMMA StoredSeeds ==
  ASSUME input \in Inputs, NEW a \in Stored
  PROVE  a \in Anchors /\ input.mappings[a] \subseteq Files
<1>1. a \in Anchors /\ input.mappings[a] # None
  BY DEF Stored
<1> QED BY <1>1, InputParts

\* The seeds are reachable, and so are the targets of what is reachable.
LEMMA ReachableSeeds ==
  ASSUME NEW seeds \in SUBSET Files
  PROVE  seeds \subseteq ReachableFrom(seeds)
  BY DEF ReachableFrom

LEMMA ReachableTargets ==
  ASSUME input \in Inputs, NEW seeds \in SUBSET Files, NEW f \in ReachableFrom(seeds)
  PROVE  Targets(f) \subseteq ReachableFrom(seeds)
<1>1. f \in Files /\ Targets(f) \subseteq Files
  BY InputParts DEF ReachableFrom, Targets
<1>2. ASSUME NEW g \in Targets(f), NEW set \in SUBSET Files, seeds \subseteq set, Closed(set)
      PROVE  g \in set
  BY <1>2 DEF ReachableFrom, Closed, Targets
<1> QED BY <1>1, <1>2 DEF ReachableFrom

\* A set that holds the seeds and the targets of its members, and only what is
\* reachable, is the set of the reachable files.
LEMMA ReachableClosed ==
  ASSUME NEW seeds \in SUBSET Files, NEW set \in SUBSET Files,
         seeds \subseteq set, set \subseteq ReachableFrom(seeds), Closed(set)
  PROVE  set = ReachableFrom(seeds)
  BY DEF ReachableFrom

LEMMA InitRInv == Init => RInv
<1> SUFFICES ASSUME Init PROVE RInv
  OBVIOUS
<1>1. input.graphFindings \subseteq FindingType
  BY InputParts DEF Init, FindingType
<1>2. TypeOK
  BY <1>1 DEF Init, TypeOK, Stored
<1>3. Progress
  BY DEF Init, Progress, Stored
<1>4. WalkInv /\ ReachedInv
  BY DEF Init, WalkInv, ReachedInv, Walked
<1> QED BY <1>2, <1>3, <1>4 DEF RInv, TInv

\* Every step keeps the walk right.
LEMMA NextRInv == RInv /\ [Next]_vars => RInv'
<1> SUFFICES ASSUME RInv, [Next]_vars PROVE RInv'
  OBVIOUS
<1> USE DEF RInv, TInv, TypeOK, walk, results
<1>0. input \in Inputs
  OBVIOUS
<1>1. ASSUME NEW a \in Anchors, Stale(a) PROVE RInv'
  <2>1. UNCHANGED <<input, pc, walk, reachedBy, results>>
    BY <1>1 DEF Stale
  <2>2. TypeOK'
    BY <1>1 DEF Stale, FindingType, Stored
  <2>3. Progress'
    BY <1>1 DEF Stale, Progress, Stored, Active
  <2>4. WalkInv' /\ ReachedInv'
    BY <1>1 DEF Stale, Progress, WalkInv, ReachedInv, Walked, ReachableFrom, Closed, Targets
  <2> QED BY <2>2, <2>3, <2>4
<1>2. ASSUME NEW a \in Anchors, Invalid(a) PROVE RInv'
  <2>1. input.mappings[a] \subseteq Files
    BY <1>0, <1>2, StoredSeeds DEF Invalid
  <2>2. {<<"broken_seed_path", a, f>> : f \in input.mappings[a] \ input.product}
          \subseteq FindingType
    BY <2>1 DEF FindingType
  <2>3. TypeOK'
    BY <1>2, <2>2 DEF Invalid, Stored
  <2>4. Progress'
    BY <1>2 DEF Invalid, Progress, Stored, Active
  <2>5. WalkInv' /\ ReachedInv'
    BY <1>2 DEF Invalid, Progress, WalkInv, ReachedInv, Walked, ReachableFrom, Closed, Targets
  <2> QED BY <2>3, <2>4, <2>5
<1>3. ASSUME NEW a \in Anchors, Reach(a) PROVE RInv'
  <2>1. input.mappings[a] \subseteq Files
    BY <1>0, <1>3, StoredSeeds DEF Reach
  <2>2. queued' = input.mappings[a] /\ reached' = {} /\ current' = a /\ input' = input
    BY <1>3 DEF Reach
  <2>3. TypeOK'
    BY <1>3, <2>1, <2>2 DEF Reach, Stored
  <2>4. Progress'
    BY <1>3 DEF Reach, Progress, Stored, Active
  <2>5. WalkInv'
    <3>1. input.mappings[a] \subseteq ReachableFrom(input.mappings[a])
      BY <2>1, ReachableSeeds
    <3> QED BY <1>3, <2>2, <3>1 DEF Reach, WalkInv, ReachableFrom, Closed, Targets
  <2>6. ReachedInv'
    BY <1>3, <2>2 DEF Reach, Progress, ReachedInv, Walked, ReachableFrom, Closed, Targets
  <2> QED BY <2>3, <2>4, <2>5, <2>6
<1>4. ASSUME NEW f \in Files, Visit(f) PROVE RInv'
  <2> DEFINE seeds == input.mappings[current]
  <2>1. current \in Stored /\ seeds \in SUBSET Files
    BY <1>0, <1>4, StoredSeeds DEF Visit, WalkInv, Progress
  <2>2. Targets(f) \subseteq ReachableFrom(seeds)
    BY <1>0, <1>4, <2>1, ReachableTargets DEF Visit, WalkInv
  <2>3. Targets(f) \subseteq input.product /\ input.product \subseteq Files
    BY <1>0, InputParts DEF Targets
  <2>4. queued' = queued \union Targets(f) /\ reached' = reached \union {f}
        /\ input' = input /\ current' = current /\ pc' = pc /\ state' = state
    BY <1>4, <2>3 DEF Visit
  <2>5. TypeOK'
    BY <1>4, <2>3, <2>4 DEF Visit, Stored
  <2>6. Progress'
    BY <1>4 DEF Visit, Progress, Stored, Active
  <2>7. WalkInv'
    BY <1>4, <2>2, <2>4 DEF WalkInv, ReachableFrom, Closed, Targets
  <2>8. ReachedInv'
    BY <1>4 DEF Visit, ReachedInv, Walked, ReachableFrom, Closed, Targets
  <2> QED BY <2>5, <2>6, <2>7, <2>8
<1>5. CASE Reached
  <2> DEFINE seeds == input.mappings[current]
  <2>1. current \in Stored /\ seeds \in SUBSET Files
    BY <1>0, <1>5, StoredSeeds DEF Reached, WalkInv, Progress
  <2>2. reached = ReachableFrom(seeds)
    BY <1>5, <2>1, ReachableClosed DEF Reached, WalkInv, Closed, Targets
  <2>3. TypeOK'
    BY <1>5 DEF Reached, Stored
  <2>4. Progress'
    BY <1>5 DEF Reached, Progress, Stored, Active
  <2>5. WalkInv'
    BY <1>5 DEF Reached, WalkInv
  <2>6. ReachedInv'
    BY ZenonT(40), <1>5, <2>2 DEF Reached, WalkInv, ReachedInv, Walked, ReachableFrom, Closed, Targets
  <2> QED BY <2>3, <2>4, <2>5, <2>6
<1>6. CASE Observe
  <2>1. {<<"unmapped_anchor", a>> : a \in {b \in Anchors : MappingState(b) = "absent"}}
          \subseteq FindingType
    BY DEF FindingType
  <2>2. TypeOK'
    BY <1>6, <2>1 DEF Observe, MappingState, Stored
  <2> QED BY <1>6, <2>2 DEF Observe, Progress, Stored, Active, WalkInv, ReachedInv, Walked,
                            ReachableFrom, Closed, Targets
<1>7. CASE Cover
  <2>1. TypeOK'
    BY <1>7 DEF Cover, Covering, Stored
  <2> QED BY <1>7, <2>1 DEF Cover, Progress, Stored, Active, WalkInv, ReachedInv, Walked,
                            ReachableFrom, Closed, Targets
<1>8. CASE Conclude
  <2>1. Untraced(findings) \subseteq FindingType
    BY <1>0, InputParts DEF Untraced, FindingType
  <2>2. TypeOK'
    BY <1>8, <2>1 DEF Conclude, Stored
  <2> QED BY <1>8, <2>2 DEF Conclude, Progress, Stored, Active, WalkInv, ReachedInv, Walked,
                            ReachableFrom, Closed, Targets
<1>9. CASE UNCHANGED vars
  BY <1>9 DEF vars, Progress, Stored, Active, WalkInv, ReachedInv, Walked, ReachableFrom, Closed, Targets
<1> QED BY <1>1, <1>2, <1>3, <1>4, <1>5, <1>6, <1>7, <1>8, <1>9 DEF Next

\* Every variable keeps its type.
THEOREM ScanTypeCorrect == Spec => []TypeOK
<1>1. RInv => TypeOK
  BY DEF RInv, TInv
<1> QED BY <1>1, InitRInv, NextRInv, PTL DEF Spec

\* For every graph, cyclic or not: a usable mapping reaches exactly the files its
\* seeds lead to, and no other mapping reaches any.
THEOREM ReachesExactly == Spec => []ReachedExact
<1>1. RInv => ReachedExact
  BY DEF RInv, TInv, Progress, ReachedInv, Walked, ReachedExact, Usable
<1> QED BY <1>1, InitRInv, NextRInv, PTL DEF Spec

-----------------------------------------------------------------------------

\* Whether the files without coverage are to be called untraced, by the states.
MayTrace ==
  /\ input.graphFindings = {}
  /\ \A a \in Anchors : state[a] \notin {"stale", "invalid"}
  /\ Usable # {} /\ Active \subseteq Usable

\* Which findings there are so far, kind by kind.
FindingsInv ==
  /\ \A a \in Anchors : <<"stale_mapping_anchor", a>> \in findings <=> state[a] = "stale"
  /\ \A a \in Anchors, f \in Files : <<"broken_seed_path", a, f>> \in findings <=>
        state[a] = "invalid" /\ f \in input.mappings[a] \ input.product
  /\ \A a \in Anchors : <<"unmapped_anchor", a>> \in findings <=>
        pc \in {"cover", "conclude", "done"} /\ MappingState(a) = "absent"
  /\ \A f \in Files : <<"static_edge", f>> \in findings <=>
        <<"static_edge", f>> \in input.graphFindings
  /\ \A f \in Files : <<"untraced_product_file", f>> \in findings <=>
        pc = "done" /\ MayTrace /\ f \in input.product /\ covering[f] = {}

\* What has been reported, once it has been.
ResultsInv ==
  /\ pc \in {"cover", "conclude", "done"} => \A a \in Anchors : observed[a] = MappingState(a)
  /\ pc \in {"conclude", "done"} =>
        \A f \in input.product : covering[f] = Covering(f)

AInv == RInv /\ FindingsInv /\ ResultsInv

\* The findings degrade the scan when a mapping is stale or invalid, or the graph
\* has findings.
LEMMA Degraded ==
  ASSUME AInv
  PROVE  analysisHealth(findings) = "degraded" <=>
           \/ input.graphFindings # {}
           \/ \E a \in Anchors : state[a] \in {"stale", "invalid"}
<1> USE DEF AInv, RInv, TInv, TypeOK
<1>1. ASSUME NEW x \in findings, x[1] \in Degrading
      PROVE  \/ input.graphFindings # {}
             \/ \E a \in Anchors : state[a] \in {"stale", "invalid"}
  <2>1. CASE x[1] = "stale_mapping_anchor"
    <3>1. PICK a \in Anchors : x = <<"stale_mapping_anchor", a>>
      BY <2>1 DEF FindingType
    <3> QED BY <3>1 DEF FindingsInv
  <2>2. CASE x[1] = "broken_seed_path"
    <3>1. PICK a \in Anchors, f \in Files : x = <<"broken_seed_path", a, f>>
      BY <2>2 DEF FindingType
    <3> QED BY <3>1 DEF FindingsInv
  <2>3. CASE x[1] = "static_edge"
    <3>1. PICK f \in Files : x = <<"static_edge", f>>
      BY <2>3 DEF FindingType
    <3> QED BY <3>1 DEF FindingsInv
  <2> QED BY <1>1, <2>1, <2>2, <2>3 DEF Degrading
<1>2. ASSUME input.graphFindings # {}
      PROVE  \E x \in findings : x[1] \in Degrading
  <2>1. input.graphFindings \subseteq {"static_edge"} \X Files
    BY InputParts
  <2>2. PICK x \in input.graphFindings : TRUE
    BY <1>2
  <2>3. PICK f \in Files : x = <<"static_edge", f>>
    BY <2>1, <2>2
  <2>4. <<"static_edge", f>> \in findings
    BY <2>2, <2>3 DEF FindingsInv
  <2> QED BY <2>4 DEF Degrading
<1>3. ASSUME NEW a \in Anchors, state[a] = "stale"
      PROVE  \E x \in findings : x[1] \in Degrading
  <2>1. <<"stale_mapping_anchor", a>> \in findings
    BY <1>3 DEF FindingsInv
  <2> QED BY <2>1 DEF Degrading
<1>4. ASSUME NEW a \in Anchors, state[a] = "invalid"
      PROVE  \E x \in findings : x[1] \in Degrading
  <2>1. a \in Stored
    BY <1>4 DEF Progress
  <2>2. PICK f \in Files : f \in input.mappings[a] \ input.product
    BY <1>4, <2>1, StoredSeeds DEF Progress
  <2>3. <<"broken_seed_path", a, f>> \in findings
    BY <1>4, <2>2 DEF FindingsInv
  <2> QED BY <2>3 DEF Degrading
<1> QED BY <1>1, <1>2, <1>3, <1>4 DEF analysisHealth

LEMMA InitAInv == Init => AInv
<1> SUFFICES ASSUME Init PROVE AInv
  OBVIOUS
<1>1. input \in Inputs /\ findings = input.graphFindings
  BY DEF Init
<1>2. findings \subseteq {"static_edge"} \X Files
  BY <1>1, InputParts
<1>3. FindingsInv
  BY <1>1, <1>2 DEF Init, FindingsInv
<1> QED BY <1>3, InitRInv DEF Init, AInv, ResultsInv

\* Every step keeps the findings in line with the states.
LEMMA NextAInv == AInv /\ [Next]_vars => AInv'
<1> SUFFICES ASSUME AInv, [Next]_vars PROVE AInv'
  OBVIOUS
<1>0. RInv'
  BY NextRInv DEF AInv
<1> USE DEF AInv, walk, results
<1>1. ASSUME NEW a \in Anchors, Stale(a) PROVE AInv'
  <2>1. FindingsInv'
    BY <1>1 DEF Stale, FindingsInv, RInv, TInv, TypeOK, Progress
  <2> QED BY <1>0, <1>1, <2>1 DEF Stale, ResultsInv
<1>2. ASSUME NEW a \in Anchors, Invalid(a) PROVE AInv'
  <2>1. FindingsInv'
    BY <1>2 DEF Invalid, FindingsInv, RInv, TInv, TypeOK, Progress
  <2> QED BY <1>0, <1>2, <2>1 DEF Invalid, ResultsInv
<1>3. ASSUME NEW a \in Anchors, Reach(a) PROVE AInv'
  <2>1. FindingsInv'
    BY <1>3 DEF Reach, FindingsInv, RInv, TInv, TypeOK, Progress
  <2> QED BY <1>0, <1>3, <2>1 DEF Reach, ResultsInv
<1>4. ASSUME NEW f \in Files, Visit(f) PROVE AInv'
  BY <1>0, <1>4 DEF Visit, FindingsInv, ResultsInv
<1>5. CASE Reached
  BY <1>0, <1>5 DEF Reached, FindingsInv, ResultsInv
<1>6. CASE Observe
  <2>1. \A a \in Anchors : MappingState(a)' = MappingState(a)
    BY <1>6 DEF Observe, MappingState, Observed, Active
  <2>2. FindingsInv'
    BY <1>6, <2>1 DEF Observe, FindingsInv
  <2>3. ResultsInv'
    BY <1>6, <2>1 DEF Observe, ResultsInv
  <2> QED BY <1>0, <2>2, <2>3
<1>7. CASE Cover
  <2>1. \A a \in Anchors : MappingState(a)' = MappingState(a)
    BY <1>7 DEF Cover, MappingState, Observed, Active
  <2>2. FindingsInv'
    BY <1>7, <2>1 DEF Cover, FindingsInv
  <2>3. ResultsInv'
    <3>1. input \in Inputs /\ input.product \subseteq Files
      BY InputParts DEF RInv, TInv, TypeOK
    <3> QED BY <1>7, <2>1, <3>1 DEF Cover, Covering, ResultsInv
  <2> QED BY <1>0, <2>2, <2>3
<1>8. CASE Conclude
  <2>1. \A a \in Anchors : MappingState(a)' = MappingState(a)
    BY <1>8 DEF Conclude, MappingState, Observed, Active
  <2>2. MayTrace' = MayTrace
    BY <1>8 DEF Conclude, MayTrace, Usable, Stored, Active
  <2>3. \A f \in Files : <<"untraced_product_file", f>> \in Untraced(findings) <=>
          MayTrace /\ f \in input.product /\ covering[f] = {}
    BY Degraded DEF Untraced, MayTrace
  <2>4. \A x \in Untraced(findings) : x[1] = "untraced_product_file"
    BY DEF Untraced
  <2>5. FindingsInv'
    BY <1>8, <2>1, <2>2, <2>3, <2>4 DEF Conclude, FindingsInv
  <2>6. ResultsInv'
    BY <1>8, <2>1 DEF Conclude, Covering, ResultsInv
  <2> QED BY <1>0, <2>5, <2>6
<1>9. CASE UNCHANGED vars
  BY <1>0, <1>9 DEF vars, FindingsInv, ResultsInv, MappingState, MayTrace, Usable, Stored,
                    Active, Observed, Covering
<1> QED BY <1>1, <1>2, <1>3, <1>4, <1>5, <1>6, <1>7, <1>8, <1>9 DEF Next

\* What Found finds, kind by kind.
LEMMA FoundMeaning ==
  ASSUME NEW kind, NEW v
  PROVE  v \in Found(kind) <=> \E x \in findings : x[1] = kind /\ x[2] = v
  BY DEF Found

LEMMA FoundPairs ==
  ASSUME AInv, NEW v
  PROVE  /\ v \in Found("stale_mapping_anchor") <=> v \in Anchors /\ state[v] = "stale"
         /\ v \in Found("unmapped_anchor") <=>
              /\ v \in Anchors
              /\ pc \in {"cover", "conclude", "done"} /\ MappingState(v) = "absent"
         /\ v \in Found("untraced_product_file") <=>
              /\ v \in Files
              /\ pc = "done" /\ MayTrace /\ v \in input.product /\ covering[v] = {}
<1> USE DEF AInv, RInv, TInv, TypeOK
<1>1. ASSUME NEW x \in findings, x[1] \in {"stale_mapping_anchor", "unmapped_anchor"}
      PROVE  x[2] \in Anchors /\ x = <<x[1], x[2]>>
  BY <1>1 DEF FindingType
<1>2. ASSUME NEW x \in findings, x[1] = "untraced_product_file"
      PROVE  x[2] \in Files /\ x = <<x[1], x[2]>>
  BY <1>2 DEF FindingType
<1>3. \A kind : <<kind, v>> \in findings => v \in Found(kind)
  BY FoundMeaning
<1>4. v \in Found("stale_mapping_anchor") <=>
        v \in Anchors /\ <<"stale_mapping_anchor", v>> \in findings
  BY <1>1, <1>3, FoundMeaning
<1>5. v \in Found("unmapped_anchor") <=> v \in Anchors /\ <<"unmapped_anchor", v>> \in findings
  BY <1>1, <1>3, FoundMeaning
<1>6. v \in Found("untraced_product_file") <=>
        v \in Files /\ <<"untraced_product_file", v>> \in findings
  BY <1>2, <1>3, FoundMeaning
<1> QED BY <1>4, <1>5, <1>6 DEF FindingsInv

LEMMA FoundBroken ==
  ASSUME AInv, NEW v
  PROVE  v \in Found("broken_seed_path") <=> v \in Anchors /\ state[v] = "invalid"
<1> USE DEF AInv, RInv, TInv, TypeOK
<1>1. ASSUME NEW x \in findings, x[1] = "broken_seed_path"
      PROVE  x[2] \in Anchors /\ state[x[2]] = "invalid"
  <2>1. PICK a \in Anchors, f \in Files : x = <<"broken_seed_path", a, f>>
    BY <1>1 DEF FindingType
  <2> QED BY <2>1 DEF FindingsInv
<1>2. ASSUME v \in Anchors, state[v] = "invalid"
      PROVE  v \in Found("broken_seed_path")
  <2>1. PICK f \in Files : f \in input.mappings[v] \ input.product
    BY <1>2, StoredSeeds DEF Progress
  <2>2. <<"broken_seed_path", v, f>> \in findings
    BY <1>2, <2>1 DEF FindingsInv
  <2> QED BY <2>2, FoundMeaning
<1> QED BY <1>1, <1>2, FoundMeaning

\* Every active anchor is accounted for exactly once, and every stored mapping.
THEOREM AccountsForAnchors == Spec => []AnchorsAccounted
<1>1. ASSUME AInv, pc = "done" PROVE AnchorsAccounted
  <2> USE DEF RInv, TInv, TypeOK
  <2>1. Stored \subseteq Anchors /\ Active \subseteq Observed /\ Observed \subseteq Anchors
    BY DEF Stored, Active, Observed
  <2>2. \A a \in Anchors :
          /\ state[a] = "stale" <=> a \in Stored \ Active
          /\ state[a] = "invalid" <=> a \in (Active \intersect Stored) \ Usable
          /\ MappingState(a) = "absent" <=> a \in Active \ Stored
    BY <1>1, <2>1 DEF AInv, Progress, Usable, MappingState
  <2>3. Found("stale_mapping_anchor") = Stored \ Active
    BY <1>1, <2>1, <2>2, FoundPairs
  <2>4. Found("unmapped_anchor") = Active \ Stored
    BY <1>1, <2>1, <2>2, FoundPairs
  <2>5. Found("broken_seed_path") = (Active \intersect Stored) \ Usable
    BY <1>1, <2>1, <2>2, FoundBroken
  <2>6. \A a \in Anchors :
          /\ observed[a] = "usable" <=> a \in Usable
          /\ observed[a] = "invalid" <=> state[a] = "invalid"
          /\ observed[a] = "absent" <=> a \in Active \ Stored
    BY <1>1, <2>1, <2>2 DEF AInv, ResultsInv, MappingState, Usable, Progress
  <2> QED BY <2>2, <2>3, <2>4, <2>5, <2>6 DEF AnchorsAccounted
<1>2. AInv => AnchorsAccounted
  BY <1>1 DEF AnchorsAccounted
<1> QED BY <1>2, InitAInv, NextAInv, PTL DEF Spec

\* Files are called untraced exactly when the contract allows it.
THEOREM TracesByTheRule == Spec => []UntracedRule
<1>1. ASSUME AInv, pc = "done" PROVE UntracedRule
  <2> DEFINE sound == /\ input.graphFindings = {}
                      /\ Stored = Active /\ Stored # {}
                      /\ \A a \in Stored : input.mappings[a] \subseteq input.product
             traced == UNION {ReachableFrom(input.mappings[a]) : a \in Stored}
  <2> USE DEF RInv, TInv, TypeOK
  <2>1. MayTrace <=> sound
    <3>1. Stored \subseteq Anchors /\ Active \subseteq Anchors /\ todo = {}
      BY <1>1 DEF AInv, Stored, Active, Progress
    <3>2. ASSUME MayTrace PROVE sound
      BY ZenonT(40), <1>1, <3>1, <3>2 DEF AInv, MayTrace, Usable, Progress
    <3>3. ASSUME sound PROVE MayTrace
      BY <1>1, <3>1, <3>3 DEF AInv, MayTrace, Usable, Progress
    <3> QED BY <3>2, <3>3
  <2>2. ASSUME sound PROVE \A f \in input.product : covering[f] = {} <=> f \notin traced
    <3>1. \A a \in Anchors : Walked(a) <=> a \in Stored
      BY <1>1, <2>1, <2>2 DEF AInv, Walked, MayTrace, Usable, Progress
    <3>2. \A a \in Anchors : reachedBy[a] = IF a \in Stored
                                            THEN ReachableFrom(input.mappings[a]) ELSE {}
      BY <1>1, <3>1 DEF AInv, ReachedInv
    <3>3. Stored \subseteq Anchors
      BY DEF Stored
    <3>4. \A f \in input.product : covering[f] = Covering(f)
      BY <1>1 DEF AInv, ResultsInv
    <3>5. \A f : Covering(f) = {} <=> f \notin traced
      BY <3>2, <3>3 DEF Covering
    <3> QED BY <3>4, <3>5
  <2>3. input.product \subseteq Files
    BY <1>1, InputParts DEF AInv
  <2>4. Found("untraced_product_file") = IF sound THEN input.product \ traced ELSE {}
    BY <1>1, <2>1, <2>2, <2>3, FoundPairs
  <2>5. Found("untraced_product_file") # {} => analysisHealth(findings) = "clean"
    BY <1>1, <2>1, <2>4, Degraded DEF MayTrace, analysisHealth
  <2> QED BY <2>4, <2>5 DEF UntracedRule
<1>2. AInv => UntracedRule
  BY <1>1 DEF UntracedRule
<1> QED BY <1>2, InitAInv, NextAInv, PTL DEF Spec

-----------------------------------------------------------------------------
(* the report as a function of the input *)

\* The mappings that count, and what has to hold for files to be called untraced.
CountingMappings ==
  {a \in Anchors : input.status[a] = "active" /\ input.mappings[a] # None
                   /\ input.mappings[a] \subseteq input.product}

TracingAllowed ==
  /\ input.graphFindings = {} /\ CountingMappings # {}
  /\ \A a \in Anchors : input.mappings[a] # None <=> a \in CountingMappings
  /\ \A a \in Anchors : input.status[a] = "active" <=> a \in CountingMappings

\* When the engine is done, the mappings that count are the usable ones.
LEMMA CountingUsable ==
  ASSUME AInv, pc = "done"
  PROVE  /\ CountingMappings = {a \in Anchors : state[a] = "usable"}
         /\ \A a \in Anchors : input.mappings[a] # None <=> state[a] # "none"
         /\ \A a \in Anchors : state[a] = "stale" <=>
              input.mappings[a] # None /\ input.status[a] # "active"
         /\ \A a \in Anchors : state[a] = "invalid" <=>
              /\ input.mappings[a] # None /\ input.status[a] = "active"
              /\ ~(input.mappings[a] \subseteq input.product)
<1>1. /\ todo = {} /\ Progress
      /\ \A a \in Anchors : state[a] \in {"none", "stale", "invalid", "usable"}
  BY DEF AInv, RInv, TInv, TypeOK, Progress
<1>2. \A a \in Anchors : a \in Stored <=> input.mappings[a] # None
  BY DEF Stored
<1>3. \A a \in Anchors : a \in Active <=> input.status[a] = "active"
  BY DEF Active
<1> QED BY <1>1, <1>2, <1>3 DEF Progress, CountingMappings

\* What is reached and what covers a file.
LEMMA ReportReached ==
  ASSUME AInv, pc = "done"
  PROVE  /\ reachedBy = [a \in Anchors |->
                           IF a \in CountingMappings
                           THEN ReachableFrom(input.mappings[a]) ELSE {}]
         /\ \A f \in input.product : covering[f] = {a \in Anchors : f \in reachedBy[a]}
<1>1. reachedBy \in [Anchors -> SUBSET Files]
  BY DEF AInv, RInv, TInv, TypeOK
<1>2. \A a \in Anchors : Walked(a) <=> a \in CountingMappings
  BY CountingUsable DEF Walked
<1>3. \A a \in Anchors : reachedBy[a] = IF a \in CountingMappings
                                        THEN ReachableFrom(input.mappings[a]) ELSE {}
  BY <1>2 DEF AInv, RInv, ReachedInv
<1>4. \A f \in input.product : covering[f] = {a \in Anchors : f \in reachedBy[a]}
  BY DEF AInv, ResultsInv, Covering
<1> QED BY <1>1, <1>3, <1>4

\* The findings, one by one.
LEMMA ReportFindings ==
  ASSUME AInv, pc = "done"
  PROVE  findings =
           {<<"stale_mapping_anchor", a>> :
              a \in {b \in Anchors : input.mappings[b] # None /\ input.status[b] # "active"}}
           \union {<<"unmapped_anchor", a>> :
              a \in {b \in Anchors : input.mappings[b] = None /\ input.status[b] = "active"}}
           \union (UNION {{<<"broken_seed_path", a, f>> : f \in input.mappings[a] \ input.product} :
              a \in {b \in Anchors : input.mappings[b] # None /\ input.status[b] = "active"}})
           \union input.graphFindings
           \union {<<"untraced_product_file", f>> :
              f \in {g \in input.product : TracingAllowed /\ covering[g] = {}}}
<1> DEFINE stale    == {<<"stale_mapping_anchor", a>> :
              a \in {b \in Anchors : input.mappings[b] # None /\ input.status[b] # "active"}}
           unmapped == {<<"unmapped_anchor", a>> :
              a \in {b \in Anchors : input.mappings[b] = None /\ input.status[b] = "active"}}
           broken   == UNION {{<<"broken_seed_path", a, f>> : f \in input.mappings[a] \ input.product} :
              a \in {b \in Anchors : input.mappings[b] # None /\ input.status[b] = "active"}}
           untraced == {<<"untraced_product_file", f>> :
              f \in {g \in input.product : TracingAllowed /\ covering[g] = {}}}
           report   == stale \union unmapped \union broken \union input.graphFindings \union untraced
<1> SUFFICES findings = report
  OBVIOUS
<1>1. /\ input.product \subseteq Files /\ input.graphFindings \subseteq {"static_edge"} \X Files
      /\ \A a \in Anchors : input.mappings[a] = None \/ input.mappings[a] \subseteq Files
      /\ \A a \in Anchors : input.mappings[a] # None =>
           input.mappings[a] \subseteq Files /\ input.mappings[a] # {}
  <2>1. input \in Inputs
    BY DEF AInv, RInv, TInv, TypeOK
  <2>2. \A a \in Anchors : input.mappings[a] \in ((SUBSET Files) \ {{}}) \union {None}
    BY <2>1, InputParts
  <2> QED BY <2>1, <2>2, InputParts
<1>2. \A a \in Anchors : MappingState(a) = "absent" <=>
        input.mappings[a] = None /\ input.status[a] = "active"
  BY CountingUsable DEF MappingState, Observed, Active, CountingMappings
<1>3. MayTrace <=> TracingAllowed
  BY CountingUsable DEF MayTrace, TracingAllowed, Usable, Stored, Active, CountingMappings
<1>4. findings \subseteq FindingType /\ FindingsInv
  BY DEF AInv, RInv, TInv, TypeOK
<1>5. \A a \in Anchors : <<"stale_mapping_anchor", a>> \in findings <=>
        input.mappings[a] # None /\ input.status[a] # "active"
  BY <1>4, CountingUsable DEF FindingsInv
<1>6. \A a \in Anchors : <<"unmapped_anchor", a>> \in findings <=>
        input.mappings[a] = None /\ input.status[a] = "active"
  BY <1>2, <1>4 DEF FindingsInv
<1>7. \A a \in Anchors, f \in Files : <<"broken_seed_path", a, f>> \in findings <=>
        /\ input.mappings[a] # None /\ input.status[a] = "active"
        /\ f \in input.mappings[a] \ input.product
  BY <1>1, <1>4, CountingUsable DEF FindingsInv
<1>8. \A f \in Files : <<"static_edge", f>> \in findings <=>
        <<"static_edge", f>> \in input.graphFindings
  BY <1>4 DEF FindingsInv
<1>9. \A f \in Files : <<"untraced_product_file", f>> \in findings <=>
        TracingAllowed /\ f \in input.product /\ covering[f] = {}
  BY <1>3, <1>4 DEF FindingsInv
<1>10. \A x : x \in stale <=> \E a \in Anchors : x = <<"stale_mapping_anchor", a>> /\ x \in findings
  BY <1>5
<1>11. \A x : x \in unmapped <=> \E a \in Anchors : x = <<"unmapped_anchor", a>> /\ x \in findings
  BY <1>6
<1>12. \A x : x \in broken <=>
         \E a \in Anchors, f \in Files : x = <<"broken_seed_path", a, f>> /\ x \in findings
  <2>1. \A x : x \in broken <=>
          \E a \in Anchors : /\ input.mappings[a] # None /\ input.status[a] = "active"
                             /\ \E f \in input.mappings[a] \ input.product :
                                  x = <<"broken_seed_path", a, f>>
    OBVIOUS
  <2> HIDE DEF broken
  <2> QED BY <1>1, <1>7, <2>1
<1>13. \A x : x \in untraced <=>
         \E f \in Files : x = <<"untraced_product_file", f>> /\ x \in findings
  <2>1. \A x : x \in untraced <=>
          \E f \in input.product : TracingAllowed /\ covering[f] = {}
                                   /\ x = <<"untraced_product_file", f>>
    OBVIOUS
  <2> HIDE DEF untraced
  <2> QED BY <1>1, <1>9, <2>1
<1>14. \A x : x \in input.graphFindings <=>
         \E f \in Files : x = <<"static_edge", f>> /\ x \in findings
  <2>1. \A x \in input.graphFindings : \E f \in Files : x = <<"static_edge", f>>
    BY <1>1
  <2> QED BY <1>8, <2>1
<1> HIDE DEF stale, unmapped, broken, untraced
<1>15. \A x \in findings : x \in report
  <2> TAKE x \in findings
  <2>1. \/ \E a \in Anchors : x = <<"stale_mapping_anchor", a>> \/ x = <<"unmapped_anchor", a>>
        \/ \E f \in Files : x = <<"static_edge", f>> \/ x = <<"untraced_product_file", f>>
        \/ \E a \in Anchors, f \in Files : x = <<"broken_seed_path", a, f>>
    BY <1>4 DEF FindingType
  <2> QED BY <1>10, <1>11, <1>12, <1>13, <1>14, <2>1
<1>16. \A x \in report : x \in findings
  BY <1>10, <1>11, <1>12, <1>13, <1>14
<1>17. findings = report
  BY <1>15, <1>16
<1> QED BY <1>17

-----------------------------------------------------------------------------
(* sums over the anchors *)

\* Induction over the numbers, with the numbers it holds of as a set.
LEMMA InductionOverNat ==
  ASSUME NEW N, 0 \in N, \A n \in Nat : n \in N => n + 1 \in N
  PROVE  Nat \subseteq N
<1> SUFFICES ASSUME Nat \ N # {} PROVE FALSE
  OBVIOUS
<1>1. PICK n \in Nat \ N : \A m \in Nat \ N : <<m, n>> \notin OpToRel(<, Nat)
  BY WFMin, NatLessThanWellFounded, Zenon
<1>2. n - 1 \in Nat /\ n - 1 < n
  <2>1. n \in Nat /\ n # 0
    BY <1>1
  <2> QED BY <2>1
<1>3. n - 1 \in N
  <2> SUFFICES ASSUME n - 1 \notin N PROVE FALSE
    OBVIOUS
  <2>1. <<n - 1, n>> \in Nat \X Nat /\ <<n - 1, n>>[1] < <<n - 1, n>>[2]
    BY <1>2
  <2>2. <<n - 1, n>> \in OpToRel(<, Nat)
    BY <2>1, Zenon DEF OpToRel
  <2> QED BY <1>1, <1>2, <2>2, Zenon
<1>4. (n - 1) + 1 \in N
  BY <1>2, <1>3
<1>5. (n - 1) + 1 = n
  <2>1. n \in Nat
    BY <1>1
  <2> QED BY <2>1
<1> QED BY <1>1, <1>4, <1>5

\* A nonempty set has a minimal member, in any well-founded order.
LEMMA MinimalMember ==
  ASSUME NEW all, NEW order, IsWellFoundedOn(order, all), NEW set, set \subseteq all, set # {}
  PROVE  \E x \in set : \A y \in set : ~(<<y, x>> \in order)
  BY WFMin

\* Induction over the subsets of a finite set: what holds of a set when it holds of
\* its proper subsets holds of all.
LEMMA InductionOverSubsets ==
  ASSUME NEW S, IsFiniteSet(S), NEW P,
         \A T \in SUBSET S : (\A U \in SUBSET T : U # T => U \in P) => T \in P
  PROVE  SUBSET S \subseteq P
<1> SUFFICES ASSUME (SUBSET S) \ P # {} PROVE FALSE
  OBVIOUS
<1>1. IsWellFoundedOn(StrictSubsetOrdering(S), FiniteSubsetsOf(S))
  BY FS_StrictSubsetOrderingWellFounded
<1>2. PICK T \in (SUBSET S) \ P :
        \A U \in (SUBSET S) \ P : ~(<<U, T>> \in StrictSubsetOrdering(S))
  <2> DEFINE bad == (SUBSET S) \ P
  <2>1. bad \subseteq FiniteSubsetsOf(S) /\ bad # {}
    BY FS_FiniteSubsetsOfFinite
  <2> HIDE DEF bad
  <2>2. \E T \in bad : \A U \in bad : ~(<<U, T>> \in StrictSubsetOrdering(S))
    BY <1>1, <2>1, MinimalMember
  <2> QED BY <2>2 DEF bad
<1>3. ASSUME NEW U \in SUBSET T, U # T PROVE U \in P
  <2> SUFFICES ASSUME U \notin P PROVE FALSE
    OBVIOUS
  <2>1. <<U, T>> \in (SUBSET S) \X (SUBSET S) /\ <<U, T>>[1] \subseteq <<U, T>>[2]
        /\ <<U, T>>[1] # <<U, T>>[2]
    BY <1>3
  <2>2. <<U, T>> \in StrictSubsetOrdering(S)
    BY <2>1, Zenon DEF StrictSubsetOrdering
  <2> QED BY <1>2, <2>1, <2>2
<1> QED BY <1>2, <1>3, Zenon

\* The anchor a sum takes next, and the sum with it.
Pick(s) == CHOOSE x \in s : TRUE
SumStep(count, g, s) == IF s = {} THEN 0 ELSE count[Pick(s)] + g[s \ {Pick(s)}]

\* There is a function from the subsets to their sums, one element at a time.
LEMMA SumExists ==
  ASSUME NEW S, IsFiniteSet(S), NEW count \in [S -> Nat]
  PROVE  \E g \in [SUBSET S -> Nat] : \A s \in SUBSET S : g[s] = SumStep(count, g, s)
<1> DEFINE Upto(g, n) == \A s \in SUBSET S : Cardinality(s) <= n => g[s] = SumStep(count, g, s)
           N == {n \in Nat : \E g \in [SUBSET S -> Nat] : Upto(g, n)}
<1>0. \A s \in SUBSET S : /\ IsFiniteSet(s) /\ Cardinality(s) \in Nat
                          /\ Cardinality(s) <= Cardinality(S)
                          /\ Cardinality(s) = 0 <=> s = {}
  BY FS_Subset, FS_CardinalityType, FS_EmptySet
<1>1. \A s \in SUBSET S : s # {} => Pick(s) \in s /\ s \ {Pick(s)} \in SUBSET S
                                    /\ Cardinality(s \ {Pick(s)}) = Cardinality(s) - 1
  BY <1>0, FS_RemoveElement DEF Pick
<1>2. \A g \in [SUBSET S -> Nat], s \in SUBSET S : SumStep(count, g, s) \in Nat
  BY SMTT(20), <1>1 DEF SumStep
<1>3. 0 \in N
  <2> DEFINE g == [s \in SUBSET S |-> 0]
  <2>1. g \in [SUBSET S -> Nat] /\ Upto(g, 0)
    BY <1>0 DEF SumStep
  <2> QED BY <2>1
<1>4. ASSUME NEW n \in Nat, n \in N PROVE n + 1 \in N
  <2>1. PICK g \in [SUBSET S -> Nat] : Upto(g, n)
    BY <1>4
  <2> DEFINE h == [s \in SUBSET S |-> IF Cardinality(s) <= n THEN g[s] ELSE SumStep(count, g, s)]
  <2>2. h \in [SUBSET S -> Nat]
    BY <1>2, <2>1
  <2>3. ASSUME NEW s \in SUBSET S, Cardinality(s) <= n + 1
        PROVE  h[s] = SumStep(count, h, s)
    <3>1. s # {} => h[s \ {Pick(s)}] = g[s \ {Pick(s)}]
      BY <1>0, <1>1, <2>3
    <3>2. SumStep(count, h, s) = SumStep(count, g, s)
      BY <3>1 DEF SumStep
    <3>3. h[s] = SumStep(count, g, s)
      BY <1>0, <2>1
    <3> QED BY <3>2, <3>3
  <2> HIDE DEF h
  <2> QED BY <2>2, <2>3
<1>5. Cardinality(S) \in N
  <2> HIDE DEF N
  <2> QED BY <1>0, <1>3, <1>4, InductionOverNat
<1>6. PICK g \in [SUBSET S -> Nat] : Upto(g, Cardinality(S))
  BY <1>5
<1>7. \A s \in SUBSET S : g[s] = SumStep(count, g, s)
  BY <1>0, <1>6
<1> QED BY <1>7

\* Total is the last value of such a function.
LEMMA TotalIs ==
  ASSUME NEW count \in [Anchors -> Nat]
  PROVE  \E g \in [SUBSET Anchors -> Nat] :
            /\ \A s \in SUBSET Anchors : g[s] = SumStep(count, g, s)
            /\ Total(count) = g[Anchors]
<1> DEFINE iter == CHOOSE iter : iter = [s \in SUBSET Anchors |-> SumStep(count, iter, s)]
<1>0. PICK g \in [SUBSET Anchors -> Nat] : \A s \in SUBSET Anchors : g[s] = SumStep(count, g, s)
  BY InputsAssumption, SumExists
<1>1. g = [s \in SUBSET Anchors |-> SumStep(count, g, s)]
  BY <1>0
<1>2. iter = [s \in SUBSET Anchors |-> SumStep(count, iter, s)]
  BY <1>1, Zenon
<1>3. Total(count) = iter[Anchors]
  BY DEF Total, MapThenSumSet, MapThenFoldSet, SumStep, Pick
<1> HIDE DEF iter
<1>4. ASSUME NEW T \in SUBSET Anchors, \A U \in SUBSET T : U # T => iter[U] \in Nat
      PROVE  iter[T] \in Nat
  <2>1. iter[T] = SumStep(count, iter, T)
    BY <1>2
  <2>2. T # {} => Pick(T) \in T
    BY DEF Pick
  <2>3. T # {} => iter[T \ {Pick(T)}] \in Nat /\ count[Pick(T)] \in Nat
    BY <1>4, <2>2
  <2> QED BY <2>1, <2>3 DEF SumStep
<1>5. SUBSET Anchors \subseteq {T \in SUBSET Anchors : iter[T] \in Nat}
  <2> DEFINE P == {T \in SUBSET Anchors : iter[T] \in Nat}
  <2>1. \A T \in SUBSET Anchors : (\A U \in SUBSET T : U # T => U \in P) => T \in P
    BY <1>4
  <2> HIDE DEF P
  <2>2. SUBSET Anchors \subseteq P
    BY <2>1, InputsAssumption, InductionOverSubsets
  <2> QED BY <2>2 DEF P
<1>6. iter \in [SUBSET Anchors -> Nat]
  BY <1>2, <1>5
<1> QED BY <1>2, <1>3, <1>6

\* What is so for no anchors, and for a set of anchors when it is for the set without
\* one of them, is so for all.
LEMMA InductionOverAnchors ==
  ASSUME NEW P, {} \in P,
         \A T \in SUBSET Anchors : T # {} /\ T \ {Pick(T)} \in P => T \in P
  PROVE  Anchors \in P
<1>1. \A T \in SUBSET Anchors : (\A U \in SUBSET T : U # T => U \in P) => T \in P
  BY DEF Pick
<1>2. SUBSET Anchors \subseteq P
  BY <1>1, InputsAssumption, InductionOverSubsets
<1> QED BY <1>2

\* The files that one anchor covers alone, counted by anchor, are the files with a
\* single cover.
LEMMA TotalUnique ==
  ASSUME NEW F, IsFiniteSet(F), NEW cover \in [F -> SUBSET Anchors]
  PROVE  Total([a \in Anchors |-> Cardinality({f \in F : cover[f] = {a}})]) =
           Cardinality({f \in F : \E a \in Anchors : cover[f] = {a}})
<1> DEFINE Alone(a)  == {f \in F : cover[f] = {a}}
           Single(T) == {f \in F : \E a \in T : cover[f] = {a}}
           count     == [a \in Anchors |-> Cardinality(Alone(a))]
<1>0. \A T \in SUBSET F : IsFiniteSet(T) /\ Cardinality(T) \in Nat
  BY FS_Subset, FS_CardinalityType
<1>1. count \in [Anchors -> Nat]
  BY <1>0
<1>2. PICK g \in [SUBSET Anchors -> Nat] :
         /\ \A s \in SUBSET Anchors : g[s] = SumStep(count, g, s)
         /\ Total(count) = g[Anchors]
  <2> HIDE DEF count
  <2> QED BY <1>1, TotalIs
<1> DEFINE P == {T \in SUBSET Anchors : g[T] = Cardinality(Single(T))}
<1>3. {} \in P
  <2>1. Single({}) = {}
    OBVIOUS
  <2>2. g[{}] = 0
    BY <1>2 DEF SumStep
  <2> QED BY <2>1, <2>2, FS_EmptySet
<1>4. ASSUME NEW T \in SUBSET Anchors, T # {}, T \ {Pick(T)} \in P PROVE T \in P
  <2> DEFINE a == Pick(T)
             U == T \ {a}
  <2>1. a \in T
    BY <1>4 DEF Pick
  <2>2. g[T] = Cardinality(Alone(a)) + Cardinality(Single(U))
    BY <1>2, <1>4, <2>1 DEF SumStep
  <2>3. Single(T) = Alone(a) \union Single(U)
    BY <2>1
  <2>4. Alone(a) \intersect Single(U) = {}
    OBVIOUS
  <2>5. Cardinality(Single(T)) = Cardinality(Alone(a)) + Cardinality(Single(U))
    <3> DEFINE A == Alone(a)
               B == Single(U)
               C == Single(T)
    <3>1. IsFiniteSet(A) /\ IsFiniteSet(B) /\ Cardinality(A) \in Nat /\ Cardinality(B) \in Nat
      BY <1>0
    <3>2. C = A \union B /\ A \intersect B = {}
      BY <2>3, <2>4
    <3> HIDE DEF A, B, C
    <3>3. Cardinality(C) = Cardinality(A) + Cardinality(B)
      <4>1. Cardinality(A \union B) = Cardinality(A) + Cardinality(B) - Cardinality(A \intersect B)
        BY <3>1, FS_Union
      <4>2. Cardinality(A \intersect B) = 0
        BY <3>2, FS_EmptySet
      <4> QED BY <3>1, <3>2, <4>1, <4>2
    <3> QED BY <3>3 DEF A, B, C
  <2> QED BY <2>2, <2>5
<1>5. Anchors \in P
  <2> HIDE DEF P
  <2> QED BY <1>3, <1>4, InductionOverAnchors
<1> QED BY <1>2, <1>5

\* Files that two anchors at least cover are counted twice at least.
LEMMA TotalShared ==
  ASSUME NEW M, IsFiniteSet(M), NEW cover \in [M -> SUBSET Anchors],
         \A f \in M : \E a, b \in cover[f] : a # b
  PROVE  Total([a \in Anchors |-> Cardinality({f \in M : a \in cover[f]})]) >= 2 * Cardinality(M)
<1> DEFINE Of(a)  == {f \in M : a \in cover[f]}
           One(T) == {f \in M : \E a \in T : a \in cover[f]}
           Two(T) == {f \in M : \E a, b \in T : a # b /\ a \in cover[f] /\ b \in cover[f]}
           count  == [a \in Anchors |-> Cardinality(Of(a))]
<1>0. \A T \in SUBSET M : IsFiniteSet(T) /\ Cardinality(T) \in Nat
  BY FS_Subset, FS_CardinalityType
<1>1. count \in [Anchors -> Nat]
  BY <1>0
<1>2. PICK g \in [SUBSET Anchors -> Nat] :
         /\ \A s \in SUBSET Anchors : g[s] = SumStep(count, g, s)
         /\ Total(count) = g[Anchors]
  <2> HIDE DEF count
  <2> QED BY <1>1, TotalIs
<1> DEFINE P == {T \in SUBSET Anchors : g[T] >= Cardinality(One(T)) + Cardinality(Two(T))}
<1>3. {} \in P
  <2>1. One({}) = {} /\ Two({}) = {}
    OBVIOUS
  <2>2. g[{}] = 0
    BY <1>2 DEF SumStep
  <2>3. Cardinality(One({})) = 0 /\ Cardinality(Two({})) = 0
    BY <2>1, FS_EmptySet
  <2> QED BY <2>2, <2>3
<1>4. ASSUME NEW T \in SUBSET Anchors, T # {}, T \ {Pick(T)} \in P PROVE T \in P
  <2> DEFINE a == Pick(T)
             U == T \ {a}
             A == Of(a)
             B == One(U)
             C == Two(U)
  <2>1. a \in T
    BY <1>4 DEF Pick
  <2>2. g[T] = Cardinality(A) + g[U] /\ g[U] >= Cardinality(B) + Cardinality(C)
    BY <1>2, <1>4, <2>1 DEF SumStep
  <2>3. One(T) = A \union B
    BY <2>1
  <2>4. Two(T) = C \union (A \intersect B)
    BY <2>1
  <2>5. A \in SUBSET M /\ B \in SUBSET M /\ C \in SUBSET M /\ g[U] \in Nat
    BY <2>1
  <2> HIDE DEF A, B, C
  <2>6. Cardinality(A \union B) = Cardinality(A) + Cardinality(B) - Cardinality(A \intersect B)
    BY <1>0, <2>5, FS_Union
  <2>7. Cardinality(C \union (A \intersect B)) =
          Cardinality(C) + Cardinality(A \intersect B) - Cardinality(C \intersect (A \intersect B))
    <3>1. IsFiniteSet(A \intersect B)
      BY <1>0, <2>5
    <3> QED BY <1>0, <2>5, <3>1, FS_Union
  <2>8. Cardinality(A) \in Nat /\ Cardinality(B) \in Nat /\ Cardinality(C) \in Nat
        /\ Cardinality(A \intersect B) \in Nat /\ Cardinality(C \intersect (A \intersect B)) \in Nat
    BY <1>0, <2>5
  <2>9. g[T] >= Cardinality(One(T)) + Cardinality(Two(T))
    <3> HIDE DEF One, Two, U
    <3> QED BY <2>2, <2>3, <2>4, <2>5, <2>6, <2>7, <2>8
  <2> QED BY <2>9
<1>5. Anchors \in P
  <2> HIDE DEF P
  <2> QED BY <1>3, <1>4, InductionOverAnchors
<1>6. One(Anchors) = M /\ Two(Anchors) = M
  OBVIOUS
<1>7. g[Anchors] >= Cardinality(M) + Cardinality(M) /\ Cardinality(M) \in Nat
  BY <1>0, <1>5, <1>6
<1> QED BY <1>2, <1>7

-----------------------------------------------------------------------------
(* the counters *)

\* The counters are those of the walks, from the time they are taken.
CountersInv ==
  pc \in {"conclude", "done"} =>
    /\ metrics = [a \in Anchors |-> IF a \in Stored \union Observed
                                    THEN AnchorMetrics(a) ELSE NoMetrics]
    /\ summary = Summary

MInv == RInv /\ CountersInv

LEMMA InitMInv == Init => MInv
  BY InitRInv DEF Init, MInv, CountersInv

LEMMA NextMInv == MInv /\ [Next]_vars => MInv'
<1> SUFFICES ASSUME MInv, [Next]_vars PROVE MInv'
  OBVIOUS
<1>0. RInv'
  BY NextRInv DEF MInv
<1>1. ASSUME UNCHANGED <<input, state, reachedBy>>
      PROVE  /\ \A a \in Anchors : AnchorMetrics(a)' = AnchorMetrics(a)
             /\ Summary' = Summary /\ Stored' = Stored /\ Observed' = Observed
  BY <1>1 DEF AnchorMetrics, Summary, Covering, Usable, Stored, Observed
<1>2. CASE Cover
  BY <1>0, <1>1, <1>2 DEF Cover, MInv, CountersInv
<1>3. CASE Conclude
  BY <1>0, <1>1, <1>3 DEF Conclude, results, MInv, CountersInv
<1>4. CASE UNCHANGED vars
  BY <1>0, <1>1, <1>4 DEF vars, results, MInv, CountersInv
<1>5. ASSUME pc' \notin {"conclude", "done"} PROVE MInv'
  BY <1>0, <1>5 DEF MInv, CountersInv
<1> QED BY <1>2, <1>3, <1>4, <1>5 DEF Next, Stale, Invalid, Reach, Visit, Reached, Observe

\* What a set of a size is.
LEMMA SizeOf ==
  ASSUME NEW T, IsFiniteSet(T)
  PROVE  /\ Cardinality(T) \in Nat
         /\ Cardinality(T) = 0 <=> T = {}
         /\ Cardinality(T) = 1 <=> \E a : T = {a}
         /\ Cardinality(T) >= 2 <=> \E a, b \in T : a # b
<1>1. Cardinality(T) \in Nat /\ (Cardinality(T) = 0 <=> T = {})
      /\ (Cardinality(T) = 1 <=> \E a : T = {a})
  BY FS_CardinalityType, FS_EmptySet, FS_Singleton
<1>2. (\E a, b \in T : a # b) <=> T # {} /\ ~(\E a : T = {a})
  OBVIOUS
<1> QED BY <1>1, <1>2

\* When the walks are over: they are among the product files and start at the seeds.
LEMMA ReachedParts ==
  ASSUME RInv, pc \in {"conclude", "done"}, NEW a \in Anchors
  PROVE  /\ reachedBy[a] \subseteq input.product
         /\ a \in Usable => input.mappings[a] \subseteq reachedBy[a]
         /\ a \notin Usable => reachedBy[a] = {}
<1> USE DEF RInv, TInv, TypeOK
<1>1. reachedBy[a] = IF a \in Usable THEN ReachableFrom(input.mappings[a]) ELSE {}
  BY DEF ReachedInv, Walked, Usable, Progress
<1>2. input.product \subseteq Files /\ Closed(input.product)
  BY InputParts DEF Closed
<1>3. ASSUME a \in Usable
      PROVE  /\ input.mappings[a] \subseteq ReachableFrom(input.mappings[a])
             /\ ReachableFrom(input.mappings[a]) \subseteq input.product
  <2>1. input.mappings[a] \subseteq input.product
    BY <1>3 DEF Usable, Progress
  <2> QED BY <1>2, <2>1 DEF ReachableFrom
<1> QED BY <1>1, <1>3

\* The counters of an anchor, by the files that have it among their covers.
LEMMA AnchorCounters ==
  ASSUME MInv, pc \in {"conclude", "done"}, NEW a \in Anchors
  PROVE  /\ metrics[a].unique = Cardinality({f \in reachedBy[a] : Cardinality(Covering(f)) = 1})
         /\ metrics[a].shared = Cardinality({f \in reachedBy[a] : Cardinality(Covering(f)) >= 2})
         /\ metrics[a].reached = Cardinality(reachedBy[a])
         /\ a \in Usable => metrics[a].transitive =
              Cardinality(reachedBy[a]) - Cardinality(input.mappings[a])
<1>0. metrics[a] = IF a \in Stored \union Observed THEN AnchorMetrics(a) ELSE NoMetrics
  BY DEF MInv, CountersInv
<1>1. CASE a \in Usable
  <2>1. metrics[a] = AnchorMetrics(a) /\ a \in Stored
    BY <1>0, <1>1 DEF Usable
  <2> QED BY <1>1, <2>1 DEF AnchorMetrics
<1>2. CASE a \notin Usable
  <2>1. reachedBy[a] = {}
    BY <1>2, ReachedParts DEF MInv
  <2>2. metrics[a].unique = 0 /\ metrics[a].shared = 0 /\ metrics[a].reached = 0
    <3>1. \A n : /\ [NoMetrics EXCEPT !.seed = n].unique = 0
                 /\ [NoMetrics EXCEPT !.seed = n].shared = 0
                 /\ [NoMetrics EXCEPT !.seed = n].reached = 0
      BY DEF NoMetrics
    <3>2. NoMetrics.unique = 0 /\ NoMetrics.shared = 0 /\ NoMetrics.reached = 0
      BY DEF NoMetrics
    <3> QED BY <1>0, <1>2, <3>1, <3>2 DEF AnchorMetrics
  <2>3. {f \in reachedBy[a] : Cardinality(Covering(f)) = 1} = {}
        /\ {f \in reachedBy[a] : Cardinality(Covering(f)) >= 2} = {}
    BY <2>1
  <2>4. Cardinality({}) = 0
    BY FS_EmptySet
  <2> QED BY <1>2, <2>1, <2>2, <2>3, <2>4
<1> QED BY <1>1, <1>2

\* A set is the two parts that a condition makes of it.
LEMMA TwoParts ==
  ASSUME NEW S, IsFiniteSet(S), NEW A, NEW B, S = A \union B, A \intersect B = {}
  PROVE  /\ IsFiniteSet(A) /\ Cardinality(A) \in Nat
         /\ IsFiniteSet(B) /\ Cardinality(B) \in Nat
         /\ Cardinality(S) = Cardinality(A) + Cardinality(B)
<1>1. IsFiniteSet(A) /\ IsFiniteSet(B) /\ Cardinality(A) \in Nat /\ Cardinality(B) \in Nat
  <2>1. A \subseteq S /\ B \subseteq S
    OBVIOUS
  <2> QED BY <2>1, FS_Subset, FS_CardinalityType
<1>2. Cardinality(A \union B) = Cardinality(A) + Cardinality(B) - Cardinality(A \intersect B)
  BY <1>1, FS_Union
<1>3. Cardinality(A \intersect B) = 0
  BY FS_EmptySet
<1> QED BY <1>1, <1>2, <1>3

\* The counters agree, when they have been taken.
LEMMA CountersRight == MInv => MetricsAgree
<1> SUFFICES ASSUME MInv, pc \in {"conclude", "done"} PROVE MetricsAgree
  BY DEF MetricsAgree
<1> DEFINE P      == input.product
           One    == {f \in P : Cardinality(Covering(f)) = 1}
           Many   == {f \in P : Cardinality(Covering(f)) >= 2}
           Some   == {f \in P : Covering(f) # {}}
           Own(a) == {f \in reachedBy[a] : Cardinality(Covering(f)) = 1}
           Our(a) == {f \in reachedBy[a] : Cardinality(Covering(f)) >= 2}
<1>1. IsFiniteSet(P) /\ \A T \in SUBSET P : IsFiniteSet(T) /\ Cardinality(T) \in Nat
  BY InputParts, InputsAssumption, FS_Subset, FS_CardinalityType DEF MInv, RInv, TInv, TypeOK
<1>2. \A a \in Anchors : /\ reachedBy[a] \subseteq P
                         /\ a \in Usable => input.mappings[a] \subseteq reachedBy[a]
                         /\ a \notin Usable => reachedBy[a] = {}
  BY ReachedParts DEF MInv
<1>3. \A f : /\ Covering(f) \subseteq Anchors
             /\ Cardinality(Covering(f)) \in Nat
             /\ Cardinality(Covering(f)) = 0 <=> Covering(f) = {}
             /\ Cardinality(Covering(f)) = 1 <=> \E a : Covering(f) = {a}
             /\ Cardinality(Covering(f)) >= 2 <=> \E a, b \in Covering(f) : a # b
  <2>1. \A f : Covering(f) \subseteq Anchors /\ IsFiniteSet(Covering(f))
    BY InputsAssumption, FS_Subset DEF Covering
  <2> QED BY <2>1, SizeOf
<1>4. summary = Summary
  BY DEF MInv, CountersInv
<1>5. /\ summary.product = Cardinality(P) /\ summary.covered = Cardinality(Some)
      /\ summary.uncovered = Cardinality(P) - Cardinality(Some)
      /\ summary.seeded = Cardinality(UNION {input.mappings[a] : a \in Usable})
      /\ summary.single = Cardinality(One) /\ summary.multi = Cardinality(Many)
  BY <1>4 DEF Summary
<1>6. ASSUME NEW a \in Anchors
      PROVE  /\ metrics[a].unique + metrics[a].shared = metrics[a].reached
             /\ a \in Usable =>
                  metrics[a].transitive = Cardinality(reachedBy[a] \ input.mappings[a])
  <2>1. IsFiniteSet(reachedBy[a])
    BY <1>1, <1>2
  <2>2. Cardinality(reachedBy[a]) = Cardinality(Own(a)) + Cardinality(Our(a))
    <3>1. \A f \in reachedBy[a] : Cardinality(Covering(f)) \in Nat /\ Covering(f) # {}
      BY <1>3 DEF Covering
    <3> DEFINE A == Own(a)
               B == Our(a)
    <3>2. reachedBy[a] = A \union B /\ A \intersect B = {}
      BY <1>3, <3>1
    <3> HIDE DEF A, B
    <3>3. Cardinality(reachedBy[a]) = Cardinality(A) + Cardinality(B)
      BY <2>1, <3>2, TwoParts
    <3> QED BY <3>3 DEF A, B
  <2>3. ASSUME a \in Usable
        PROVE  Cardinality(reachedBy[a]) - Cardinality(input.mappings[a]) =
                 Cardinality(reachedBy[a] \ input.mappings[a])
    <3> DEFINE A == input.mappings[a]
               B == reachedBy[a] \ A
    <3>1. reachedBy[a] = A \union B /\ A \intersect B = {}
      BY <1>2, <2>3
    <3> HIDE DEF A, B
    <3>2. /\ Cardinality(A) \in Nat /\ Cardinality(B) \in Nat
          /\ Cardinality(reachedBy[a]) = Cardinality(A) + Cardinality(B)
      BY <2>1, <3>1, TwoParts
    <3>3. Cardinality(reachedBy[a]) - Cardinality(A) = Cardinality(B)
      BY <3>2
    <3> QED BY <3>3 DEF A, B
  <2> QED BY <2>2, <2>3, AnchorCounters
<1>7. Some = UNION {reachedBy[a] : a \in Anchors}
  BY <1>2 DEF Covering
<1>8. Cardinality(Some) = Cardinality(One) + Cardinality(Many)
  <2>1. Some = One \union Many /\ One \intersect Many = {}
    BY <1>3
  <2>2. IsFiniteSet(Some)
    BY <1>1
  <2> HIDE DEF Some, One, Many
  <2> QED BY <2>1, <2>2, TwoParts
<1>9. summary.covered + summary.uncovered = summary.product
  <2>1. Cardinality(Some) \in Nat /\ Cardinality(P) \in Nat
    BY <1>1
  <2> HIDE DEF Some, P
  <2> QED BY <1>5, <2>1
<1>10. summary.seeded <= summary.covered
  <2> DEFINE seeded == UNION {input.mappings[a] : a \in Usable}
  <2>1. Usable \subseteq Anchors
    BY DEF Usable, Stored
  <2>2. seeded \subseteq UNION {reachedBy[a] : a \in Anchors}
    BY <1>2, <2>1
  <2>3. seeded \subseteq Some /\ IsFiniteSet(Some)
    BY <1>1, <1>7, <2>2
  <2> HIDE DEF seeded, Some
  <2>4. Cardinality(seeded) <= Cardinality(Some)
    BY <2>3, FS_Subset
  <2> QED BY <1>5, <2>4 DEF seeded
<1>11. summary.single = Total([a \in Anchors |-> metrics[a].unique])
  <2> DEFINE cover == [f \in P |-> Covering(f)]
  <2>1. cover \in [P -> SUBSET Anchors]
    BY <1>3
  <2>2. Total([a \in Anchors |-> Cardinality({f \in P : cover[f] = {a}})]) =
          Cardinality({f \in P : \E a \in Anchors : cover[f] = {a}})
    <3> HIDE DEF cover, P
    <3> QED BY <1>1, <2>1, TotalUnique
  <2>3. {f \in P : \E a \in Anchors : cover[f] = {a}} = One
    BY <1>3
  <2>4. \A a \in Anchors : {f \in P : cover[f] = {a}} = Own(a)
    <3>1. \A a \in Anchors : \A f : a \in Covering(f) <=> f \in reachedBy[a]
      BY DEF Covering
    <3>2. \A a \in Anchors, f \in P : cover[f] = {a} <=>
            a \in Covering(f) /\ Cardinality(Covering(f)) = 1
      BY ZenonT(40), <1>3
    <3> HIDE DEF cover
    <3> QED BY <1>2, <3>1, <3>2
  <2>5. \A a \in Anchors : metrics[a].unique = Cardinality({f \in P : cover[f] = {a}})
    BY <2>4, AnchorCounters
  <2>6. [a \in Anchors |-> metrics[a].unique] =
          [a \in Anchors |-> Cardinality({f \in P : cover[f] = {a}})]
    BY <2>5
  <2> QED BY <1>5, <2>2, <2>3, <2>6
<1>12. Total([a \in Anchors |-> metrics[a].shared]) >= 2 * summary.multi
  <2> DEFINE cover == [f \in Many |-> Covering(f)]
  <2>1. cover \in [Many -> SUBSET Anchors] /\ IsFiniteSet(Many)
    BY <1>1, <1>3
  <2>2. \A f \in Many : \E a, b \in cover[f] : a # b
    BY <1>3
  <2>3. Total([a \in Anchors |-> Cardinality({f \in Many : a \in cover[f]})])
          >= 2 * Cardinality(Many)
    <3> HIDE DEF cover, Many
    <3> QED BY <2>1, <2>2, TotalShared
  <2>4. \A a \in Anchors : {f \in Many : a \in cover[f]} = Our(a)
    <3>1. \A a \in Anchors : \A f : a \in Covering(f) <=> f \in reachedBy[a]
      BY DEF Covering
    <3>2. \A f \in Many : cover[f] = Covering(f)
      OBVIOUS
    <3> HIDE DEF cover
    <3> QED BY <1>2, <3>1, <3>2
  <2>5. \A a \in Anchors : metrics[a].shared = Cardinality({f \in Many : a \in cover[f]})
    BY <2>4, AnchorCounters
  <2>6. [a \in Anchors |-> metrics[a].shared] =
          [a \in Anchors |-> Cardinality({f \in Many : a \in cover[f]})]
    BY <2>5
  <2> QED BY <1>5, <2>3, <2>6
<1> HIDE DEF One, Many, Some, P
<1>13. summary.covered = summary.single + summary.multi
  BY <1>5, <1>8
<1> QED BY <1>5, <1>6, <1>7, <1>9, <1>10, <1>11, <1>12, <1>13 DEF MetricsAgree

\* The counters of the anchors and of the scan agree with one another, whatever the
\* mappings reach: summed over the anchors, the files reached by one alone are the
\* files with a single cover, and those reached by several are counted twice at least.
THEOREM CountersAgree == Spec => []MetricsAgree
  BY InitMInv, NextMInv, CountersRight, PTL DEF Spec
=============================================================================
