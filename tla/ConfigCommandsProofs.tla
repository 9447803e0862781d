----------------------- MODULE ConfigCommandsProofs -----------------------
(***************************************************************************)
(* Proofs about ConfigCommands: what holds of anchormap.yaml however       *)
(* commands and edits interleave, and what holds when nothing else happens *)
(* while a command runs.                                                   *)
(***************************************************************************)
EXTENDS ConfigCommands, WellFoundedInduction, TLAPS

\* A process follows the handler of its own command.
Follows ==
  \A p \in Procs :
    /\ pc[p] \in InitSteps => request[p].kind = "init"
    /\ pc[p] \in MapSteps => request[p].kind = "map"

\* Past the load, map holds a valid configuration.
LoadedValid ==
  \A p \in Procs :
    (pc[p] \in MapSteps \ {"load"} \/ (pc[p] = "write" /\ request[p].kind = "map")) =>
      loaded[p] \in Mappings

TInv == TypeOK /\ Follows /\ LoadedValid

\* The seeds of a map are a nonempty set of files.
LEMMA SeedSetType ==
  ASSUME NEW r \in Requests, r.kind = "map"
  PROVE  r.anchor \in Anchors /\ SeedSet(r) \in (SUBSET Files) \ {{}}
<1>1. r \in [kind : {"map"}, anchor : Anchors, seeds : Seq(Files), replace : BOOLEAN]
  BY RequestsAssumption DEF RequestType
<1>2. r.seeds \in Seq(Files) /\ r.seeds # <<>>
  BY <1>1, RequestsAssumption
<1>3. r.seeds[1] \in SeedSet(r)
  BY <1>2 DEF SeedSet, ToSet
<1>4. SeedSet(r) \subseteq Files
  BY <1>2 DEF SeedSet, ToSet
<1> QED BY <1>1, <1>3, <1>4

\* What a command writes is a configuration.
LEMMA NewConfigType ==
  ASSUME TInv, NEW p \in Procs, pc[p] = "write"
  PROVE  NewConfig(p) \in Mappings
<1>1. request[p] \in Requests
  BY DEF TInv, TypeOK
<1>2. CASE request[p].kind = "init"
  BY <1>2 DEF NewConfig, Mappings
<1>3. CASE request[p].kind = "map"
  BY <1>1, <1>3, SeedSetType DEF NewConfig, Mappings, TInv, LoadedValid
<1> QED BY <1>1, <1>2, <1>3, RequestsAssumption DEF RequestType

LEMMA InitTInv == Init => TInv
  BY ConfigsAssumption, CheckoutsAssumption, MaxEditsAssumption
     DEF Init, TInv, TypeOK, Follows, LoadedValid, InitSteps, MapSteps, Mappings, MappingsOf

\* Every step keeps the types and the handlers apart.
LEMMA NextTInv == TInv /\ [Next]_vars => TInv'
<1> SUFFICES ASSUME TInv, [Next]_vars PROVE TInv'
  OBVIOUS
<1> USE DEF TInv, TypeOK, Follows, LoadedValid, InitSteps, MapSteps, Continue, Exit
<1>1. ASSUME NEW p \in Procs, NEW r \in Requests, Start(p, r) PROVE TInv'
  BY <1>1, RequestsAssumption DEF Start, RequestType
<1>2. ASSUME NEW p \in Procs, InitLstat(p) \/ InitRoots(p) PROVE TInv'
  BY <1>2 DEF InitLstat, InitRoots
<1>3. ASSUME NEW p \in Procs, MapLoad(p) PROVE TInv'
  BY <1>3 DEF MapLoad
<1>4. ASSUME NEW p \in Procs, MapSeeds(p) PROVE TInv'
  <2>1. SeedVerdict(request[p].seeds, checkout.files) \in {0, 3, 4}
    BY DEF SeedVerdict
  <2> QED BY <1>4, <2>1 DEF MapSeeds
<1>5. ASSUME NEW p \in Procs, MapIndex(p) PROVE TInv'
  BY <1>5, SeedSetType DEF MapIndex
<1>6. ASSUME NEW p \in Procs, MapDiscover(p) \/ MapGraph(p) PROVE TInv'
  BY <1>6 DEF MapDiscover, MapGraph
<1>7. ASSUME NEW p \in Procs, Commit(p) PROVE TInv'
  BY <1>7, NewConfigType DEF Commit
<1>8. ASSUME NEW p \in Procs, WriteFails(p) PROVE TInv'
  BY <1>8 DEF WriteFails
<1>9. CASE EditCheckout
  BY <1>9, MaxEditsAssumption DEF EditCheckout
<1>10. CASE EditConfig
  <2>1. config' \in Mappings \union {Absent, Invalid}
    BY <1>10, ConfigsAssumption DEF EditConfig
  <2>2. MappingsOf(config') \subseteq Anchors \X (SUBSET Files)
    BY <2>1 DEF MappingsOf, Mappings
  <2> QED BY <1>10, <2>1, <2>2, MaxEditsAssumption DEF EditConfig
<1>11. CASE UNCHANGED vars
  BY <1>11 DEF vars
<1> QED BY <1>1, <1>2, <1>3, <1>4, <1>5, <1>6, <1>7, <1>8, <1>9, <1>10, <1>11
        DEF Next, Command

\* Every variable keeps its type, whatever interleaves.
THEOREM CommandsTypeCorrect == Spec => []TypeOK
<1>1. Spec => []TInv
  BY InitTInv, NextTInv, PTL DEF Spec
<1>2. TInv => TypeOK
  BY DEF TInv
<1> QED BY <1>1, <1>2, PTL

-----------------------------------------------------------------------------

\* What map loaded was vouched for, and so is what it is about to add.
PlansVouched ==
  \A p \in Procs :
    /\ MappingsOf(loaded[p]) \subseteq vouched
    /\ pc[p] \in {"discover", "graph"} \/ (pc[p] = "write" /\ request[p].kind = "map") =>
         <<request[p].anchor, SeedSet(request[p])>> \in vouched

VInv == TInv /\ MappingsVouched /\ PlansVouched

\* A command writes vouched mappings only.
LEMMA NewConfigVouched ==
  ASSUME VInv, NEW p \in Procs, pc[p] = "write"
  PROVE  MappingsOf(NewConfig(p)) \subseteq vouched
<1>1. request[p] \in Requests /\ NewConfig(p) \in Mappings
  BY NewConfigType DEF VInv, TInv, TypeOK
<1>2. NewConfig(p) \notin {Absent, Invalid}
  BY <1>1, ConfigsAssumption
<1>3. CASE request[p].kind = "init"
  BY <1>2, <1>3 DEF NewConfig, MappingsOf
<1>4. CASE request[p].kind = "map"
  <2>1. loaded[p] \in Mappings /\ loaded[p] \notin {Absent, Invalid}
    BY <1>4, ConfigsAssumption DEF VInv, TInv, LoadedValid
  <2>2. \A a \in Anchors : a # request[p].anchor => NewConfig(p)[a] = loaded[p][a]
    BY <1>4, <2>1 DEF NewConfig, Mappings
  <2>3. NewConfig(p)[request[p].anchor] = SeedSet(request[p])
    BY <1>1, <1>4, <2>1, SeedSetType DEF NewConfig, Mappings
  <2> QED BY <1>2, <1>4, <2>1, <2>2, <2>3 DEF MappingsOf, VInv, PlansVouched
<1> QED BY <1>1, <1>3, <1>4, RequestsAssumption DEF RequestType

LEMMA InitVInv == Init => VInv
<1> SUFFICES ASSUME Init PROVE VInv
  OBVIOUS
<1>1. MappingsOf(Absent) = {}
  BY DEF MappingsOf
<1> QED BY <1>1, InitTInv DEF Init, VInv, MappingsVouched, PlansVouched

\* Every step keeps what is vouched for.
LEMMA NextVInv == VInv /\ [Next]_vars => VInv'
<1> SUFFICES ASSUME VInv, [Next]_vars PROVE VInv'
  OBVIOUS
<1>0. TInv'
  BY NextTInv DEF VInv
<1> USE DEF VInv, TInv, TypeOK, Follows, MappingsVouched, PlansVouched, InitSteps, MapSteps,
            Continue, Exit
<1>1. ASSUME NEW p \in Procs, NEW r \in Requests, Start(p, r) PROVE VInv'
  BY <1>0, <1>1 DEF Start
<1>2. ASSUME NEW p \in Procs, InitLstat(p) \/ InitRoots(p) PROVE VInv'
  BY <1>0, <1>2 DEF InitLstat, InitRoots
<1>3. ASSUME NEW p \in Procs, MapLoad(p) PROVE VInv'
  BY <1>0, <1>3 DEF MapLoad
<1>4. ASSUME NEW p \in Procs, MapSeeds(p) PROVE VInv'
  BY <1>0, <1>4 DEF MapSeeds
<1>5. ASSUME NEW p \in Procs, MapIndex(p) PROVE VInv'
  BY <1>0, <1>5 DEF MapIndex
<1>6. ASSUME NEW p \in Procs, MapDiscover(p) \/ MapGraph(p) PROVE VInv'
  BY <1>0, <1>6 DEF MapDiscover, MapGraph
<1>7. ASSUME NEW p \in Procs, Commit(p) PROVE VInv'
  BY <1>0, <1>7, NewConfigVouched DEF Commit
<1>8. ASSUME NEW p \in Procs, WriteFails(p) PROVE VInv'
  BY <1>0, <1>8 DEF WriteFails
<1>9. CASE EditCheckout
  BY <1>0, <1>9 DEF EditCheckout
<1>10. CASE EditConfig
  BY <1>0, <1>10 DEF EditConfig
<1>11. CASE UNCHANGED vars
  BY <1>0, <1>11 DEF vars
<1> QED BY <1>1, <1>2, <1>3, <1>4, <1>5, <1>6, <1>7, <1>8, <1>9, <1>10, <1>11
        DEF Next, Command

\* However commands and edits interleave, no mapping is made up: each one in
\* anchormap.yaml was written by hand or asked for while its anchor was active.
THEOREM NothingInvented == Spec => []MappingsVouched
<1>1. Spec => []VInv
  BY InitVInv, NextVInv, PTL DEF Spec
<1>2. VInv => MappingsVouched
  BY DEF VInv
<1> QED BY <1>1, <1>2, PTL

-----------------------------------------------------------------------------

OneAtATime == \A p, q \in Procs : Busy(p) /\ Busy(q) => p = q

\* What a command has checked so far is still so.
ChecksHold ==
  \A p \in Procs :
    /\ pc[p] = "roots" \/ (pc[p] = "write" /\ request[p].kind = "init") => config = Absent
    /\ pc[p] = "write" => checkout.roots
    /\ pc[p] \in MapSteps \ {"load"} \/ (pc[p] = "write" /\ request[p].kind = "map") =>
         /\ loaded[p] = config /\ checkout.roots
         /\ config[request[p].anchor] = None \/ request[p].replace
    /\ pc[p] \in {"index", "discover", "graph"}
       \/ (pc[p] = "write" /\ request[p].kind = "map") =>
         \A f \in SeedSet(request[p]) : checkout.files[f] = "file"
    /\ pc[p] \in {"discover", "graph"} \/ (pc[p] = "write" /\ request[p].kind = "map") =>
         checkout.index /\ checkout.specs[request[p].anchor] = "active"
    /\ pc[p] = "write" /\ request[p].kind = "map" => checkout.tree = "ok"

XInv == TInv /\ OneAtATime /\ ChecksHold

\* Seeds pass only when every one of them is a file.
LEMMA SeedVerdictMeaning ==
  ASSUME NEW r \in Requests, r.kind = "map", NEW files,
         SeedVerdict(r.seeds, files) = 0
  PROVE  \A f \in SeedSet(r) : files[f] = "file"
<1>1. r.seeds \in Seq(Files)
  BY RequestsAssumption DEF RequestType
<1>2. {i \in DOMAIN r.seeds : files[r.seeds[i]] # "file"} = {}
  BY DEF SeedVerdict
<1> QED BY <1>1, <1>2 DEF SeedSet, ToSet

LEMMA InitXInv == Init => XInv
<1> SUFFICES ASSUME Init PROVE XInv
  OBVIOUS
<1> QED BY InitTInv DEF Init, XInv, OneAtATime, ChecksHold, Busy, InitSteps, MapSteps

\* Alone, a command finds the configuration and the checkout as it left them.
LEMMA NextXInv ==
  ASSUME Exclusive, XInv, [Next]_vars
  PROVE  XInv'
<1>0. TInv'
  BY NextTInv DEF XInv
<1> USE DEF XInv, TInv, TypeOK, Follows, LoadedValid, OneAtATime, ChecksHold, Busy,
            InitSteps, MapSteps, Continue, Exit
<1>1. ASSUME NEW p \in Procs, NEW r \in Requests, Start(p, r) PROVE XInv'
  BY <1>0, <1>1 DEF Start, Alone
<1>2. ASSUME NEW p \in Procs, InitLstat(p) \/ InitRoots(p) PROVE XInv'
  BY <1>0, <1>2 DEF InitLstat, InitRoots
<1>3. ASSUME NEW p \in Procs, MapLoad(p) PROVE XInv'
  BY <1>0, <1>3 DEF MapLoad
<1>4. ASSUME NEW p \in Procs, MapSeeds(p) PROVE XInv'
  <2>1. request[p] \in Requests /\ request[p].kind = "map"
    BY <1>4 DEF MapSeeds
  <2>2. CASE SeedVerdict(request[p].seeds, checkout.files) = 0
    <3>1. \A f \in SeedSet(request[p]) : checkout.files[f] = "file"
      BY <2>1, <2>2, SeedVerdictMeaning
    <3> QED BY <1>0, <1>4, <2>2, <3>1 DEF MapSeeds
  <2>3. CASE SeedVerdict(request[p].seeds, checkout.files) # 0
    BY <1>0, <1>4, <2>3 DEF MapSeeds
  <2> QED BY <2>2, <2>3
<1>5. ASSUME NEW p \in Procs, MapIndex(p) PROVE XInv'
  BY <1>0, <1>5 DEF MapIndex
<1>6. ASSUME NEW p \in Procs, MapDiscover(p) \/ MapGraph(p) PROVE XInv'
  BY <1>0, <1>6 DEF MapDiscover, MapGraph
<1>7. ASSUME NEW p \in Procs, Commit(p) PROVE XInv'
  BY <1>0, <1>7 DEF Commit
<1>8. ASSUME NEW p \in Procs, WriteFails(p) PROVE XInv'
  BY <1>0, <1>8 DEF WriteFails
<1>9. CASE EditCheckout
  BY <1>0, <1>9 DEF EditCheckout, Alone
<1>10. CASE EditConfig
  BY <1>0, <1>10 DEF EditConfig, Alone
<1>11. CASE UNCHANGED vars
  BY <1>0, <1>11 DEF vars
<1> QED BY <1>1, <1>2, <1>3, <1>4, <1>5, <1>6, <1>7, <1>8, <1>9, <1>10, <1>11
        DEF Next, Command

\* Only Commit ends a write with exit code 0.
LEMMA OnlyCommitCommits ==
  ASSUME TInv, [Next]_vars, NEW p \in Procs, Commits(p)
  PROVE  Commit(p)
<1> USE DEF Commits, Continue, Exit, TInv, TypeOK
<1>1. ASSUME NEW q \in Procs, NEW r \in Requests, Start(q, r) PROVE FALSE
  BY <1>1 DEF Start
<1>2. ASSUME NEW q \in Procs, Command(q) PROVE Commit(p)
  <2>1. p = q
    BY <1>2 DEF Command, InitLstat, InitRoots, MapLoad, MapSeeds, MapIndex, MapDiscover,
               MapGraph, Commit, WriteFails
  <2> QED BY <1>2, <2>1 DEF Command, InitLstat, InitRoots, MapLoad, MapSeeds, MapIndex,
                            MapDiscover, MapGraph, WriteFails
<1>3. CASE EditCheckout \/ EditConfig \/ UNCHANGED vars
  BY <1>3 DEF EditCheckout, EditConfig, vars
<1> QED BY <1>1, <1>2, <1>3 DEF Next

\* Alone, map changes the mapping of its anchor and no other.
THEOREM MapAloneTouchesItsAnchorOnly ==
  ASSUME Exclusive
  PROVE  Spec => MapTouchesItsAnchorOnly
<1>1. ASSUME XInv, [Next]_vars, NEW p \in Procs, Commits(p), request[p].kind = "map"
      PROVE  /\ config \in Mappings
             /\ config' = [config EXCEPT ![request[p].anchor] = SeedSet(request[p])]
  <2>1. Commit(p)
    BY <1>1, OnlyCommitCommits DEF XInv
  <2> QED BY <1>1, <2>1 DEF Commit, NewConfig, XInv, ChecksHold, TInv, LoadedValid
<1>2. XInv /\ [Next]_vars =>
        [\A p \in Procs : Commits(p) /\ request[p].kind = "map" =>
           /\ config \in Mappings
           /\ config' = [config EXCEPT ![request[p].anchor] = SeedSet(request[p])]]_vars
  BY <1>1
<1> QED BY <1>2, InitXInv, NextXInv, PTL DEF Spec, MapTouchesItsAnchorOnly

\* Alone, map replaces a mapping only with --replace.
THEOREM MapAloneReplacesOnRequest ==
  ASSUME Exclusive
  PROVE  Spec => MapReplacesOnRequest
<1>1. ASSUME XInv, [Next]_vars, NEW p \in Procs, Commits(p), request[p].kind = "map",
             ~request[p].replace
      PROVE  config \in Mappings /\ config[request[p].anchor] = None
  BY <1>1 DEF Commits, XInv, ChecksHold, TInv, LoadedValid
<1>2. XInv /\ [Next]_vars =>
        [\A p \in Procs : Commits(p) /\ request[p].kind = "map" /\ ~request[p].replace =>
           config \in Mappings /\ config[request[p].anchor] = None]_vars
  BY <1>1
<1> QED BY <1>2, InitXInv, NextXInv, PTL DEF Spec, MapReplacesOnRequest

\* Alone, init writes anchormap.yaml only where there is none.
THEOREM InitAloneCreatesOnly ==
  ASSUME Exclusive
  PROVE  Spec => InitCreatesOnly
<1>1. XInv /\ [Next]_vars =>
        [\A p \in Procs : Commits(p) /\ request[p].kind = "init" => config = Absent]_vars
  BY DEF Commits, XInv, ChecksHold
<1> QED BY <1>1, InitXInv, NextXInv, PTL DEF Spec, InitCreatesOnly

\* Alone, map writes a mapping that is sound for the checkout it is written to.
THEOREM MapAloneWritesSoundMapping ==
  ASSUME Exclusive
  PROVE  Spec => MapWritesSoundMapping
<1>1. XInv /\ [Next]_vars =>
        [\A p \in Procs : Commits(p) /\ request[p].kind = "map" =>
           /\ checkout.roots /\ checkout.index /\ checkout.tree = "ok"
           /\ checkout.specs[request[p].anchor] = "active"
           /\ \A f \in SeedSet(request[p]) : checkout.files[f] = "file"]_vars
  BY DEF Commits, XInv, ChecksHold
<1> QED BY <1>1, InitXInv, NextXInv, PTL DEF Spec, MapWritesSoundMapping
-----------------------------------------------------------------------------

\* A nonempty set of numbers has a least one.
LEMMA LeastOf ==
  ASSUME NEW S, S \subseteq Nat, S # {}
  PROVE  \E x \in S : \A y \in S : x <= y
<1>1. PICK x \in S : \A y \in S : <<y, x>> \notin OpToRel(<, Nat)
  BY WFMin, NatLessThanWellFounded, Zenon
<1>2. ASSUME NEW y \in S PROVE x <= y
  <2> SUFFICES ASSUME y < x PROVE FALSE
    OBVIOUS
  <2>1. <<y, x>> \in Nat \X Nat /\ <<y, x>>[1] < <<y, x>>[2]
    OBVIOUS
  <2>2. <<y, x>> \in OpToRel(<, Nat)
    BY <2>1, Zenon DEF OpToRel
  <2> QED BY <1>1, <2>2, Zenon
<1> QED BY <1>2

\* The seed that decides is one of the command line's: the verdict is the code
\* its state calls for.
LEMMA SeedVerdictReason ==
  ASSUME NEW r \in Requests, r.kind = "map",
         NEW files \in [Files -> {"file", "missing", "inaccessible"}],
         SeedVerdict(r.seeds, files) # 0
  PROVE  \/ /\ SeedVerdict(r.seeds, files) = 3
            /\ \E f \in SeedSet(r) : files[f] = "inaccessible"
         \/ /\ SeedVerdict(r.seeds, files) = 4
            /\ \E f \in SeedSet(r) : files[f] = "missing"
<1> DEFINE bad   == {i \in DOMAIN r.seeds : files[r.seeds[i]] # "file"}
           first == CHOOSE i \in bad : \A j \in bad : i <= j
<1>1. r.seeds \in Seq(Files)
  BY RequestsAssumption DEF RequestType
<1>2. bad # {} /\ bad \subseteq Nat
  BY <1>1 DEF SeedVerdict
<1>3. first \in bad
  <2>1. \E i \in bad : \A j \in bad : i <= j
    BY <1>2, LeastOf
  <2> QED BY <2>1, Zenon
<1> HIDE DEF first
<1>4. r.seeds[first] \in SeedSet(r) /\ r.seeds[first] \in Files /\ files[r.seeds[first]] # "file"
  BY <1>1, <1>3 DEF SeedSet, ToSet
<1>5. SeedVerdict(r.seeds, files) = IF files[r.seeds[first]] = "inaccessible" THEN 3 ELSE 4
  BY <1>2, Zenon DEF SeedVerdict, first, bad
<1> HIDE DEF bad
<1> QED BY <1>4, <1>5

\* The step that ends a process is one of its own command.
LEMMA EndsByCommand ==
  ASSUME TInv, [Next]_vars, NEW p \in Procs, Ends(p)
  PROVE  Command(p)
<1> USE DEF Ends, Continue, Exit, TInv, TypeOK
<1>1. ASSUME NEW q \in Procs, NEW r \in Requests, Start(q, r) PROVE FALSE
  BY <1>1 DEF Start
<1>2. ASSUME NEW q \in Procs, Command(q) PROVE Command(p)
  <2>1. p = q
    BY <1>2 DEF Command, InitLstat, InitRoots, MapLoad, MapSeeds, MapIndex, MapDiscover,
               MapGraph, Commit, WriteFails
  <2> QED BY <1>2, <2>1
<1>3. CASE EditCheckout \/ EditConfig \/ UNCHANGED vars
  BY <1>3 DEF EditCheckout, EditConfig, vars
<1> QED BY <1>1, <1>2, <1>3 DEF Next

\* Past its checks a command has no reason left to fail.
LEMMA WriteHasNoReason ==
  ASSUME XInv, NEW p \in Procs, pc[p] = "write"
  PROVE  Reasons(p) = {}
<1>1. request[p] \in Requests
  BY DEF XInv, TInv, TypeOK
<1>2. CASE request[p].kind = "init"
  BY <1>2 DEF Reasons, XInv, ChecksHold
<1>3. CASE request[p].kind = "map"
  <2>1. config \in Mappings /\ config \notin {Absent, Invalid}
    BY <1>3, ConfigsAssumption DEF XInv, ChecksHold, TInv, LoadedValid
  <2> QED BY <1>3, <2>1 DEF Reasons, XInv, ChecksHold
<1> QED BY <1>1, <1>2, <1>3, RequestsAssumption DEF RequestType

\* Every early exit has the code of a condition that fails at that moment.
LEMMA ExitHasReason ==
  ASSUME XInv, NEW p \in Procs, Command(p), Ends(p), pc[p] # "write"
  PROVE  code'[p] \in Reasons(p)
<1> USE DEF Ends, Continue, Exit, TInv, TypeOK, XInv, Follows, InitSteps, MapSteps, Reasons
<1>1. CASE InitLstat(p) \/ InitRoots(p)
  BY <1>1 DEF InitLstat, InitRoots
<1>2. CASE MapLoad(p)
  BY <1>2 DEF MapLoad
<1>3. CASE MapSeeds(p)
  <2>1. request[p] \in Requests /\ request[p].kind = "map"
    BY <1>3 DEF MapSeeds
  <2>2. checkout.files \in [Files -> {"file", "missing", "inaccessible"}]
    BY CheckoutsAssumption DEF CheckoutType
  <2>3. SeedVerdict(request[p].seeds, checkout.files) # 0
        /\ code'[p] = SeedVerdict(request[p].seeds, checkout.files)
    BY <1>3 DEF MapSeeds
  <2> QED BY <2>1, <2>2, <2>3, SeedVerdictReason
<1>4. CASE MapIndex(p)
  BY <1>4 DEF MapIndex
<1>5. CASE MapDiscover(p) \/ MapGraph(p)
  BY <1>5 DEF MapDiscover, MapGraph, ChecksHold
<1> QED BY <1>1, <1>2, <1>3, <1>4, <1>5 DEF Command, Commit, WriteFails

\* A command that reaches its write ends with 0 or 1.
LEMMA WriteEnds ==
  ASSUME TInv, NEW p \in Procs, Command(p), Ends(p), pc[p] = "write"
  PROVE  code'[p] \in {0, 1}
  BY DEF Command, Ends, InitLstat, InitRoots, MapLoad, MapSeeds, MapIndex, MapDiscover,
         MapGraph, Commit, WriteFails, Exit, TInv, TypeOK

\* Alone, init and map end with a code that a failing condition of that moment
\* calls for, and reach their write only when every condition holds.
THEOREM AloneExitCodeJustified ==
  ASSUME Exclusive
  PROVE  Spec => ExitCodeJustified
<1>1. ASSUME XInv, [Next]_vars, NEW p \in Procs, Ends(p)
      PROVE  IF Reasons(p) = {} THEN code'[p] \in {0, 1} ELSE code'[p] \in Reasons(p)
  <2>1. Command(p)
    BY <1>1, EndsByCommand DEF XInv
  <2>2. CASE pc[p] = "write"
    BY <1>1, <2>1, <2>2, WriteHasNoReason, WriteEnds DEF XInv
  <2>3. CASE pc[p] # "write"
    BY <1>1, <2>1, <2>3, ExitHasReason
  <2> QED BY <2>2, <2>3
<1>2. XInv /\ [Next]_vars =>
        [\A p \in Procs : Ends(p) =>
           IF Reasons(p) = {} THEN code'[p] \in {0, 1} ELSE code'[p] \in Reasons(p)]_vars
  BY <1>1
<1> QED BY <1>2, InitXInv, NextXInv, PTL DEF Spec, ExitCodeJustified
=============================================================================
