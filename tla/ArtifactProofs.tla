-------------------------- MODULE ArtifactProofs --------------------------
(***************************************************************************)
(* Proofs about ArtifactCommands: a check decides exactly what its policy  *)
(* says, a diff accounts for all that differs between its scans, what the  *)
(* commands write is read back as it was written, the paths of an          *)
(* explanation are the shortest, and the order of the options of a command *)
(* line has no effect, for every project, every policy, every history of   *)
(* files and every list of arguments.                                      *)
(*                                                                         *)
(* The decision of evaluatePolicy compares a rounded percentage and counts *)
(* the entries of lists it has sorted; the property counts files.  So the  *)
(* proof first shows what sorting by rank does to a finite set, then that  *)
(* rounding down loses nothing against a whole limit, then that the four   *)
(* kinds of violation are there exactly when the policy says so.  What a   *)
(* scan file says of its own counters is trusted by the program; that the  *)
(* scans the tool vouches for count right is part of the invariant CInv.   *)
(*                                                                         *)
(* A diff needs no invariant but that one.  Its lists are sorted sets, and *)
(* a sorted set lists the set; findings are compared as tuples of ranks,   *)
(* in a strict order, so that sorting them loses none; and the files of    *)
(* two scans fall into parts, over which the covered ones are counted.     *)
(*                                                                         *)
(* Reading back needs the types of all that a command computes: the scan   *)
(* of any project, the result of any policy and the differences of any two *)
(* scans satisfy the predicates of their readers, and on a value that      *)
(* satisfies them the writer changes nothing.                              *)
(*                                                                         *)
(* An explanation walks the imports breadth first.  What is true after     *)
(* each turn is that the queue is ordered by distance and never spans more *)
(* than one step beyond the file to look at next; CInv says of the scans   *)
(* the tool vouches for that the walk meets all that an anchor reaches.    *)
(*                                                                         *)
(* A command line is read by a loop.  What the loop reads from the k-th    *)
(* argument on is written without a loop: refused unless every argument    *)
(* fits, and otherwise each option with the values at the places behind    *)
(* it, in their order.  This satisfies the equation of the loop, which has *)
(* no other solution; and the requirements of the nine commands that       *)
(* follow the loop are those of the property.                              *)
(***************************************************************************)
EXTENDS ArtifactCommands, FiniteSetTheorems, FunctionTheorems, NaturalsInduction,
        SequenceTheorems, WellFoundedInduction, TLAPS

\* R puts the elements of S one after the other.
StrictOrder(S, R) ==
  /\ \A x \in S : <<x, x>> \notin R
  /\ \A x, y \in S : x = y \/ <<x, y>> \in R \/ <<y, x>> \in R
  /\ \A x, y, z \in S : <<x, y>> \in R /\ <<y, z>> \in R => <<x, z>> \in R

\* A list of S in which each element stands at its rank, the number of those before it.
Below(S, R, x) == {y \in S : <<y, x>> \in R}
InRank(list, S, R) ==
  /\ list \in [1..Cardinality(S) -> S]
  /\ \A k \in 1..Cardinality(S) : Cardinality(Below(S, R, list[k])) = k - 1

\* In a strict order of a finite set each element has a number of its own of elements
\* before it, and every number up to that of the elements is taken.
LEMMA Ranks ==
  ASSUME NEW S, IsFiniteSet(S), NEW R, StrictOrder(S, R)
  PROVE  /\ Cardinality(S) \in Nat
         /\ \A x \in S : Cardinality(Below(S, R, x)) \in 0..(Cardinality(S) - 1)
         /\ \A x, y \in S : <<x, y>> \in R =>
              Cardinality(Below(S, R, x)) < Cardinality(Below(S, R, y))
         /\ \A k \in 1..Cardinality(S) : \E x \in S : Cardinality(Below(S, R, x)) = k - 1
<1> DEFINE n == Cardinality(S)
           rank == [x \in S |-> Cardinality(Below(S, R, x))]
<1>1. n \in Nat
  BY FS_CardinalityType
<1>2. \A x \in S : /\ IsFiniteSet(Below(S, R, x)) /\ Cardinality(Below(S, R, x)) \in Nat
                   /\ Cardinality(Below(S, R, x)) <= n
                   /\ Cardinality(Below(S, R, x)) = n => Below(S, R, x) = S
  <2> TAKE x \in S
  <2>1. Below(S, R, x) \in SUBSET S
    BY DEF Below
  <2> QED BY <2>1, FS_Subset, FS_CardinalityType
<1>3. \A x \in S : Cardinality(Below(S, R, x)) \in 0..(n - 1)
  <2> TAKE x \in S
  <2>1. x \notin Below(S, R, x)
    BY DEF Below, StrictOrder
  <2> QED BY <1>1, <1>2, <2>1
<1>4. \A x, y \in S : <<x, y>> \in R => Cardinality(Below(S, R, x)) < Cardinality(Below(S, R, y))
  <2> SUFFICES ASSUME NEW x \in S, NEW y \in S, <<x, y>> \in R
               PROVE  Cardinality(Below(S, R, x)) < Cardinality(Below(S, R, y))
    OBVIOUS
  <2>1. Below(S, R, x) \in SUBSET Below(S, R, y)
    BY DEF Below, StrictOrder
  <2>2. x \in Below(S, R, y) /\ x \notin Below(S, R, x)
    BY DEF Below, StrictOrder
  <2>3. /\ Cardinality(Below(S, R, x)) <= Cardinality(Below(S, R, y))
        /\ Cardinality(Below(S, R, y)) # Cardinality(Below(S, R, x))
    BY <1>2, <2>1, <2>2, FS_Subset
  <2> QED BY <1>2, <2>3
<1>5. rank \in Injection(S, 0..(n - 1))
  <2>1. rank \in [S -> 0..(n - 1)]
    BY <1>3
  <2>2. \A x, y \in S : rank[x] = rank[y] => x = y
    <3> SUFFICES ASSUME NEW x \in S, NEW y \in S, x # y
                 PROVE  rank[x] # rank[y]
      OBVIOUS
    <3>1. <<x, y>> \in R \/ <<y, x>> \in R
      BY DEF StrictOrder
    <3> QED BY <1>2, <1>4, <3>1
  <2> HIDE DEF rank
  <2> QED BY <2>1, <2>2, Fun_IsInj
<1>6. IsFiniteSet(0..(n - 1)) /\ Cardinality(0..(n - 1)) = n
  <2> HIDE DEF n
  <2>1. 0 \in Int /\ n - 1 \in Int /\ ((n - 1) - 0) + 1 = n /\ (0 > n - 1 => n = 0)
    BY <1>1
  <2> QED BY <2>1, FS_Interval
<1>7. rank \in Surjection(S, 0..(n - 1))
  <2> HIDE DEF rank
  <2> QED BY <1>5, <1>6, FS_Injection
<1>8. \A k \in 1..n : \E x \in S : Cardinality(Below(S, R, x)) = k - 1
  <2> TAKE k \in 1..n
  <2>1. \A t \in 0..(n - 1) : \E x \in S : rank[x] = t
    <3> HIDE DEF rank
    <3> DEFINE T == 0..(n - 1)
    <3>1. rank \in Surjection(S, T)
      BY <1>7
    <3> HIDE DEF T
    <3>2. \A t \in T : \E x \in S : rank[x] = t
      BY <3>1, Fun_SurjectionProperties
    <3> QED BY <3>2 DEF T
  <2>2. k - 1 \in 0..(n - 1)
    BY <1>1
  <2>3. PICK x \in S : rank[x] = k - 1
    BY <2>1, <2>2
  <2> QED BY <2>3
<1> QED BY <1>1, <1>3, <1>4, <1>8

\* A list of a set in a strict order has each element once, and in order.
LEMMA InRankFacts ==
  ASSUME NEW S, IsFiniteSet(S), NEW R, StrictOrder(S, R), NEW list, InRank(list, S, R)
  PROVE  /\ \A i, j \in 1..Cardinality(S) : i < j => <<list[i], list[j]>> \in R
         /\ \A i, j \in 1..Cardinality(S) : list[i] = list[j] => i = j
         /\ \A x \in S : \E i \in 1..Cardinality(S) : list[i] = x
<1> DEFINE n == Cardinality(S)
           Rank_(x) == Cardinality(Below(S, R, x))
<1>1. /\ n \in Nat
      /\ \A x \in S : Rank_(x) \in 0..(n - 1)
      /\ \A x, y \in S : <<x, y>> \in R => Rank_(x) < Rank_(y)
      /\ \A k \in 1..n : \E x \in S : Rank_(x) = k - 1
  BY Ranks
<1>2. \A k \in 1..n : list[k] \in S /\ Rank_(list[k]) = k - 1
  BY DEF InRank
<1> HIDE DEF Rank_
<1>4. \A i, j \in 1..n : i < j => <<list[i], list[j]>> \in R
  <2> SUFFICES ASSUME NEW i \in 1..n, NEW j \in 1..n, i < j
               PROVE  <<list[i], list[j]>> \in R
    OBVIOUS
  <2>1. Rank_(list[i]) < Rank_(list[j]) /\ list[i] \in S /\ list[j] \in S
    BY <1>1, <1>2
  <2>2. ~(Rank_(list[j]) < Rank_(list[i])) /\ list[i] # list[j]
    BY <1>1, <2>1
  <2> QED BY <1>1, <2>1, <2>2 DEF StrictOrder
<1>5. \A x \in S : \E i \in 1..n : list[i] = x
  <2> TAKE x \in S
  <2>1. Rank_(x) + 1 \in 1..n
    BY <1>1
  <2>2. Rank_(list[Rank_(x) + 1]) = Rank_(x) /\ list[Rank_(x) + 1] \in S
    BY <1>1, <1>2, <2>1
  <2> DEFINE y == list[Rank_(x) + 1]
  <2>3. y \in S /\ Rank_(y) = Rank_(x) /\ Rank_(x) \in Int
    BY <1>1, <2>2
  <2> HIDE DEF y
  <2>4. y = x
    <3>1. ~(<<x, y>> \in R) /\ ~(<<y, x>> \in R)
      BY <1>1, <2>3
    <3> QED BY <2>3, <3>1 DEF StrictOrder
  <2> QED BY <2>1, <2>4 DEF y
<1>6. \A i, j \in 1..n : list[i] = list[j] => i = j
  BY <1>1, <1>2
<1> QED BY <1>4, <1>5, <1>6

\* The numbers of a set in their order.
Less(S) == {pair \in S \X S : pair[1] < pair[2]}

\* Sorted gives the elements of a finite set of numbers, each once and in order.
LEMMA SortedFacts ==
  ASSUME NEW S \in SUBSET Nat, IsFiniteSet(S)
  PROVE  /\ Cardinality(S) \in Nat
         /\ Sorted(S) \in [1..Cardinality(S) -> S]
         /\ \A i, j \in 1..Cardinality(S) : i < j => Sorted(S)[i] < Sorted(S)[j]
         /\ \A i, j \in 1..Cardinality(S) : Sorted(S)[i] = Sorted(S)[j] => i = j
         /\ \A x \in S : \E i \in 1..Cardinality(S) : Sorted(S)[i] = x
<1>1. StrictOrder(S, Less(S))
  BY DEF StrictOrder, Less
<1>2. \A x \in S : Below(S, Less(S), x) = {y \in S : y < x}
  BY DEF Below, Less
<1> DEFINE n == Cardinality(S)
<1>3. /\ n \in Nat
      /\ \A k \in 1..n : \E x \in S : Cardinality({y \in S : y < x}) = k - 1
  <2>1. /\ n \in Nat
        /\ \A k \in 1..n : \E x \in S : Cardinality(Below(S, Less(S), x)) = k - 1
    BY <1>1, Ranks
  <2> QED BY <1>2, <2>1
<1>4. \A k \in 1..n : Sorted(S)[k] \in S /\ Cardinality({y \in S : y < Sorted(S)[k]}) = k - 1
  BY <1>3 DEF Sorted, SortedBy
<1>5. Sorted(S) \in [1..n -> S]
  BY <1>4 DEF Sorted, SortedBy
<1>6. InRank(Sorted(S), S, Less(S))
  BY <1>2, <1>4, <1>5 DEF InRank
<1>7. \A x, y : <<x, y>> \in Less(S) => x < y
  BY DEF Less
<1>8. /\ \A i, j \in 1..n : i < j => <<Sorted(S)[i], Sorted(S)[j]>> \in Less(S)
      /\ \A i, j \in 1..n : Sorted(S)[i] = Sorted(S)[j] => i = j
      /\ \A x \in S : \E i \in 1..n : Sorted(S)[i] = x
  BY <1>1, <1>6, InRankFacts
<1>9. \A i, j \in 1..n : i < j => Sorted(S)[i] < Sorted(S)[j]
  BY <1>7, <1>8
<1> QED BY <1>3, <1>5, <1>8, <1>9

-----------------------------------------------------------------------------
(* lists *)

\* A function on the first numbers is a list.
LEMMA Listed ==
  ASSUME NEW n \in Nat, NEW v, v = [k \in 1..n |-> v[k]]
  PROVE  IsList(v) /\ Len(v) = n /\ DOMAIN v = 1..n
<1> DEFINE S == {v[k] : k \in 1..n}
<1>1. DOMAIN v = 1..n
  OBVIOUS
<1>2. v \in [1..n -> S]
  OBVIOUS
<1> HIDE DEF S
<1>3. v \in Seq(S)
  BY <1>2
<1>4. Len(v) = n
  BY <1>2, <1>3
<1> QED BY <1>1, <1>4 DEF IsList

\* What stands at some places of a list.
LEMMA AtPlaces ==
  ASSUME NEW seq, NEW P \in SUBSET Nat, IsFiniteSet(P)
  PROVE  /\ IsList(At(seq, Sorted(P)))
         /\ Len(At(seq, Sorted(P))) = Cardinality(P)
         /\ DOMAIN At(seq, Sorted(P)) = 1..Cardinality(P)
         /\ \A k \in 1..Cardinality(P) : \E i \in P : At(seq, Sorted(P))[k] = seq[i]
         /\ \A i \in P : \E k \in 1..Cardinality(P) : At(seq, Sorted(P))[k] = seq[i]
         /\ At(seq, Sorted(P)) = <<>> <=> P = {}
<1> DEFINE n == Cardinality(P)
           places == Sorted(P)
<1>1. /\ n \in Nat /\ places \in [1..n -> P]
      /\ \A i \in P : \E k \in 1..n : places[k] = i
  BY SortedFacts
<1> HIDE DEF places
<1>2. At(seq, places) = [k \in 1..n |-> seq[places[k]]]
  BY <1>1 DEF At
<1>3. Len(At(seq, places)) = n /\ DOMAIN At(seq, places) = 1..n
  BY <1>1, <1>2
<1>4. At(seq, places) = <<>> <=> P = {}
  <2>1. n = 0 <=> P = {}
    BY FS_EmptySet
  <2>2. At(seq, places) = <<>> <=> n = 0
    BY <1>1, <1>2, <1>3
  <2> QED BY <2>1, <2>2
<1>5. \A k \in 1..n : At(seq, places)[k] = seq[places[k]]
  BY <1>2
<1>6. \A k \in 1..n : \E i \in P : At(seq, places)[k] = seq[i]
  <2> TAKE k \in 1..n
  <2>1. places[k] \in P
    BY <1>1
  <2> QED BY <1>5, <2>1
<1>7. \A i \in P : \E k \in 1..n : At(seq, places)[k] = seq[i]
  <2> TAKE i \in P
  <2>1. PICK k \in 1..n : places[k] = i
    BY <1>1
  <2> QED BY <1>5, <2>1
<1>8. IsList(At(seq, places))
  BY <1>1, <1>2, Listed
<1> QED BY <1>1, <1>3, <1>4, <1>6, <1>7, <1>8 DEF places

\* The findings of a kind are counted.
LEMMA OfKindFacts ==
  ASSUME NEW found, IsList(found), NEW kind
  PROVE  /\ Len(OfKind(found, kind)) \in Nat
         /\ OfKind(found, kind) # <<>> <=> \E i \in DOMAIN found : found[i].kind = kind
<1> DEFINE P == {i \in DOMAIN found : found[i].kind = kind}
<1>1. P \in SUBSET Nat /\ IsFiniteSet(P)
  <2>1. P \in SUBSET (1..Len(found)) /\ Len(found) \in Nat
    BY DEF IsList
  <2>2. IsFiniteSet(1..Len(found))
    BY <2>1, FS_Interval
  <2> QED BY <2>1, <2>2, FS_Subset
<1>2. OfKind(found, kind) = At(found, Sorted(P))
  BY DEF OfKind, Select
<1>3. Cardinality(P) \in Nat
  BY <1>1, FS_CardinalityType
<1> QED BY <1>1, <1>2, <1>3, AtPlaces

\* The first numbers are finitely many.
LEMMA Initial == \A m \in Nat : IsFiniteSet(1..m)
BY FS_Interval

\* The image of a finite set is finite.
LEMMA FiniteImage ==
  ASSUME NEW S, IsFiniteSet(S), NEW f
  PROVE  IsFiniteSet({f[x] : x \in S})
<1> DEFINE T == {f[x] : x \in S}
           g == [x \in S |-> f[x]]
<1>1. g \in [S -> T] /\ \A t \in T : \E s \in S : g[s] = t
  OBVIOUS
<1> HIDE DEF g, T
<1>2. g \in Surjection(S, T)
  BY <1>1, Fun_IsSurj
<1> QED BY <1>2, FS_Surjection DEF T

\* Four lists one after the other are empty when each of them is.
LEMMA AllEmpty ==
  ASSUME NEW S, NEW a \in Seq(S), NEW b \in Seq(S), NEW c \in Seq(S), NEW d \in Seq(S)
  PROVE  a \o b \o c \o d = <<>> <=> a = <<>> /\ b = <<>> /\ c = <<>> /\ d = <<>>
OBVIOUS

-----------------------------------------------------------------------------
(* the policy engine *)

\* A percentage is below a limit when the exact coverage is.
LEMMA PercentExact ==
  ASSUME NEW covered \in Nat, NEW files \in Nat, NEW limit \in 0..100
  PROVE  Percent(covered, files) < limit <=> covered * 100 < limit * files
<1>1. CASE files = 0
  BY <1>1 DEF Percent
<1>2. CASE files # 0
  <2>1. Percent(covered, files) = (covered * 100) \div files
    BY <1>2 DEF Percent
  <2>2. \A a, n, m \in Nat : n > 0 => (a \div n < m <=> a < m * n)
    OBVIOUS
  <2> QED BY <1>2, <2>1, <2>2
<1> QED BY <1>1, <1>2

\* What violates a policy.
Violates(scan, policy, covered, files) ==
  LET failOn == IF Has(policy, "fail_on") THEN policy.fail_on ELSE <<>>
      limits == IF Has(policy, "thresholds") THEN policy.thresholds ELSE <<>>
  IN  \/ Has(failOn, "analysis_health") /\ scan.analysis_health = "degraded"
      \/ Has(failOn, "finding_kinds")
           /\ \E f \in ToSet(scan.findings) : f.kind \in ToSet(failOn.finding_kinds)
      \/ /\ Has(limits, "min_covered_product_file_percent")
         /\ covered * 100 < limits.min_covered_product_file_percent * files
      \/ /\ Has(limits, "max_untraced_product_files")
         /\ Len(OfKind(scan.findings, "untraced_product_file")) > limits.max_untraced_product_files

\* Each of the four kinds of violation is there exactly when its part of the policy
\* is violated.
LEMMA HealthViolation ==
  ASSUME NEW policy, IsPolicy(policy)
  PROVE  FailsOn(policy, "analysis_health") = "degraded"
           <=> Has(policy, "fail_on") /\ Has(policy.fail_on, "analysis_health")
<1>1. Null # "degraded"
  BY ArtifactsAssumption
<1> QED BY <1>1 DEF FailsOn, IsPolicy, Optional, ReadsFailOn, Has

\* The kinds the policy fails on, and the findings there are of them.
LEMMA KindsViolation ==
  ASSUME NEW policy, IsPolicy(policy), NEW found, IsList(found)
  PROVE  LET kinds == FailsOn(policy, "finding_kinds")
             here  == {k \in DOMAIN FindingKinds :
                         FindingKinds[k] \in ToSet(kinds) /\ OfKind(found, FindingKinds[k]) # <<>>}
         IN  /\ kinds # Null <=> Has(policy, "fail_on") /\ Has(policy.fail_on, "finding_kinds")
             /\ kinds # Null =>
                  /\ kinds = policy.fail_on.finding_kinds
                  /\ here # {} <=> \E f \in ToSet(found) : f.kind \in ToSet(kinds)
<1> DEFINE kinds == FailsOn(policy, "finding_kinds")
           here  == {k \in DOMAIN FindingKinds :
                       FindingKinds[k] \in ToSet(kinds) /\ OfKind(found, FindingKinds[k]) # <<>>}
<1>1. /\ kinds # Null <=> Has(policy, "fail_on") /\ Has(policy.fail_on, "finding_kinds")
      /\ kinds # Null => kinds = policy.fail_on.finding_kinds
  BY DEF FailsOn, IsPolicy, Optional, ReadsFailOn, Has
<1>2. \A kind : OfKind(found, kind) # <<>> <=> \E i \in DOMAIN found : found[i].kind = kind
  BY OfKindFacts
<1>3. kinds # Null => (here # {} <=> \E f \in ToSet(found) : f.kind \in ToSet(kinds))
  <2> HAVE kinds # Null
  <2>1. ASSUME NEW k \in here
        PROVE  \E f \in ToSet(found) : f.kind \in ToSet(kinds)
    BY <1>2 DEF ToSet
  <2>2. ASSUME NEW f \in ToSet(found), f.kind \in ToSet(kinds)
        PROVE  here # {}
    <3>1. PICK i \in DOMAIN found : found[i] = f
      BY DEF ToSet
    <3>2. kinds # Null => ToSet(kinds) \subseteq ToSet(FindingKinds)
      BY <1>1 DEF IsPolicy, Optional, ReadsFailOn
    <3>3. PICK k \in DOMAIN FindingKinds : FindingKinds[k] = f.kind
      BY <2>2, <3>2, Zenon DEF ToSet
    <3> QED BY <1>2, <2>2, <3>1, <3>3
  <2> QED BY <2>1, <2>2
<1> QED BY <1>1, <1>3

\* The two limits, one on the rounded coverage, the other on a count.
LEMMA LimitViolations ==
  ASSUME NEW policy, IsPolicy(policy), NEW covered \in Nat, NEW files \in Nat, NEW untraced
  PROVE  LET least == Threshold(policy, "min_covered_product_file_percent")
             most  == Threshold(policy, "max_untraced_product_files")
             limits == policy.thresholds
         IN  /\ least # Null /\ Percent(covered, files) < least
                  <=> /\ Has(policy, "thresholds") /\ Has(limits, "min_covered_product_file_percent")
                      /\ covered * 100 < limits.min_covered_product_file_percent * files
             /\ most # Null /\ untraced > most
                  <=> /\ Has(policy, "thresholds") /\ Has(limits, "max_untraced_product_files")
                      /\ untraced > limits.max_untraced_product_files
<1> DEFINE limits == policy.thresholds
<1>1. /\ Has(policy, "thresholds") /\ Has(limits, "min_covered_product_file_percent") =>
           /\ limits.min_covered_product_file_percent \in 0..100
           /\ limits.min_covered_product_file_percent # Null
      /\ Has(policy, "thresholds") /\ Has(limits, "max_untraced_product_files") =>
           limits.max_untraced_product_files # Null
  BY DEF IsPolicy, Optional, ReadsThresholds
<1>2. \A limit \in 0..100 : Percent(covered, files) < limit <=> covered * 100 < limit * files
  BY PercentExact
<1> QED BY <1>1, <1>2 DEF Threshold

\* A policy result fails when, and only when, something violates the policy.
LEMMA DecisionExact ==
  ASSUME NEW scan, IsList(scan.findings), NEW policy, IsPolicy(policy),
         scan.traceability_metrics.summary.covered_product_file_count \in Nat,
         scan.traceability_metrics.summary.product_file_count \in Nat
  PROVE  /\ evaluatePolicy(scan, policy).decision \in {"pass", "fail"}
         /\ evaluatePolicy(scan, policy).decision = "fail"
              <=> Violates(scan, policy,
                           scan.traceability_metrics.summary.covered_product_file_count,
                           scan.traceability_metrics.summary.product_file_count)
<1> DEFINE found    == scan.findings
           covered  == scan.traceability_metrics.summary.covered_product_file_count
           files    == scan.traceability_metrics.summary.product_file_count
           summary  == buildPolicySummary(scan)
           least    == Threshold(policy, "min_covered_product_file_percent")
           most     == Threshold(policy, "max_untraced_product_files")
           kinds    == FailsOn(policy, "finding_kinds")
           percent  == summary.covered_product_file_percent
           untraced == summary.untraced_product_file_count
           here     == {k \in DOMAIN FindingKinds :
                          FindingKinds[k] \in ToSet(kinds) /\ OfKind(found, FindingKinds[k]) # <<>>}
           selected == At(FindingKinds, Sorted(here))
           present  == [k \in DOMAIN selected |->
                          [kind |-> "finding_kind_present", finding_kind |-> selected[k],
                           count |-> Len(OfKind(found, selected[k]))]]
           low      == [kind |-> "covered_product_file_percent_below_threshold",
                        actual |-> percent, threshold |-> least]
           high     == [kind |-> "untraced_product_files_above_threshold",
                        actual |-> untraced, threshold |-> most]
           bad      == [kind |-> "analysis_health_degraded"]
           unhealthy == FailsOn(policy, "analysis_health") = "degraded" /\ scan.analysis_health = "degraded"
           a == IF unhealthy THEN <<bad>> ELSE <<>>
           b == IF least # Null /\ percent < least THEN <<low>> ELSE <<>>
           c == IF kinds = Null THEN <<>> ELSE present
           d == IF most # Null /\ untraced > most THEN <<high>> ELSE <<>>
           S == {bad, low, high} \union {present[k] : k \in DOMAIN selected}
<1>1. Violations(scan, policy, summary) = a \o b \o c \o d
  BY DEF Violations, Each, Select
<1>2. /\ percent = Percent(covered, files)
      /\ untraced = Len(OfKind(found, "untraced_product_file"))
  BY DEF buildPolicySummary
<1>3. here \in SUBSET Nat /\ IsFiniteSet(here)
  <2>1. DOMAIN FindingKinds = 1..8
    BY DEF FindingKinds
  <2>2. here \in SUBSET (1..8)
    BY <2>1
  <2> HIDE DEF here
  <2>3. IsFiniteSet(1..8)
    BY Initial
  <2>4. IsFiniteSet(here)
    BY <2>2, <2>3, FS_Subset
  <2>5. here \in SUBSET Nat
    BY <2>2
  <2> QED BY <2>4, <2>5
<1>4. DOMAIN selected = 1..Cardinality(here) /\ Cardinality(here) \in Nat
      /\ (Cardinality(here) = 0 <=> here = {})
  <2> HIDE DEF here
  <2> QED BY <1>3, AtPlaces, FS_EmptySet, FS_CardinalityType
<1> HIDE DEF found, covered, files, summary, least, most, kinds, percent, untraced, here, selected,
             low, high, bad, unhealthy
<1>5. present \in Seq(S) /\ (present = <<>> <=> here = {})
  <2>1. Len(present) = Cardinality(here)
    BY <1>4
  <2> QED BY <1>4, <2>1
<1>6. a \in Seq(S) /\ b \in Seq(S) /\ d \in Seq(S)
  <2>1. bad \in S /\ low \in S /\ high \in S
    OBVIOUS
  <2> HIDE DEF S
  <2> QED BY <2>1
<1>7. c \in Seq(S)
  BY <1>5
<1>8. /\ a = <<>> <=> ~unhealthy
      /\ b = <<>> <=> ~(least # Null /\ percent < least)
      /\ c = <<>> <=> ~(kinds # Null /\ here # {})
      /\ d = <<>> <=> ~(most # Null /\ untraced > most)
  BY <1>5
<1> HIDE DEF a, b, c, d, S
<1>9. a \o b \o c \o d # <<>> <=> \/ unhealthy
                                  \/ least # Null /\ percent < least
                                  \/ kinds # Null /\ here # {}
                                  \/ most # Null /\ untraced > most
  BY <1>6, <1>7, <1>8, AllEmpty
<1>10. /\ evaluatePolicy(scan, policy).decision \in {"pass", "fail"}
       /\ evaluatePolicy(scan, policy).decision = "fail" <=> a \o b \o c \o d # <<>>
  BY <1>1 DEF evaluatePolicy, summary
<1>11. /\ unhealthy <=> /\ Has(policy, "fail_on") /\ Has(policy.fail_on, "analysis_health")
                        /\ scan.analysis_health = "degraded"
       /\ kinds # Null /\ here # {}
            <=> /\ Has(policy, "fail_on") /\ Has(policy.fail_on, "finding_kinds")
                /\ \E f \in ToSet(found) : f.kind \in ToSet(policy.fail_on.finding_kinds)
  BY HealthViolation, KindsViolation DEF unhealthy, kinds, here, found
<1>12. /\ least # Null /\ percent < least
            <=> /\ Has(policy, "thresholds")
                /\ Has(policy.thresholds, "min_covered_product_file_percent")
                /\ covered * 100 < policy.thresholds.min_covered_product_file_percent * files
       /\ most # Null /\ untraced > most
            <=> /\ Has(policy, "thresholds")
                /\ Has(policy.thresholds, "max_untraced_product_files")
                /\ Len(OfKind(found, "untraced_product_file"))
                     > policy.thresholds.max_untraced_product_files
  BY <1>2, LimitViolations DEF least, most, covered, files
<1>13. ~Has(<<>>, "analysis_health") /\ ~Has(<<>>, "finding_kinds")
       /\ ~Has(<<>>, "min_covered_product_file_percent") /\ ~Has(<<>>, "max_untraced_product_files")
  BY DEF Has
<1>14. Violates(scan, policy, covered, files) <=>
         \/ unhealthy
         \/ kinds # Null /\ here # {}
         \/ least # Null /\ percent < least
         \/ most # Null /\ untraced > most
  BY <1>11, <1>12, <1>13 DEF Violates, found
<1> QED BY <1>9, <1>10, <1>14 DEF covered, files

-----------------------------------------------------------------------------
(* the scan of a project *)

\* The length of a list of a set.
LEMMA SortedList ==
  ASSUME NEW S \in SUBSET Nat, IsFiniteSet(S)
  PROVE  /\ IsList(Sorted(S)) /\ Len(Sorted(S)) = Cardinality(S)
         /\ Sorted(S) = <<>> <=> S = {}
<1> DEFINE n == Cardinality(S)
           list == Sorted(S)
<1>1. n \in Nat /\ list \in [1..n -> S]
  BY SortedFacts
<1>2. n = 0 <=> S = {}
  BY FS_EmptySet
<1> HIDE DEF list
<1>3. Len(list) = n /\ DOMAIN list = 1..n
  BY <1>1
<1>4. list = <<>> <=> n = 0
  BY <1>1, <1>3
<1> QED BY <1>1, <1>2, <1>3, <1>4 DEF IsList, list

\* What Sorted lists is the set.
LEMMA SortedSet ==
  ASSUME NEW S \in SUBSET Nat, IsFiniteSet(S)
  PROVE  /\ ToSet(Sorted(S)) = S
         /\ Len(Sorted(S)) = Cardinality(S) /\ Cardinality(S) \in Nat
         /\ DOMAIN Sorted(S) = 1..Cardinality(S)
         /\ \A i, j \in DOMAIN Sorted(S) : Sorted(S)[i] = Sorted(S)[j] => i = j
<1> DEFINE n == Cardinality(S)
           list == Sorted(S)
<1>1. /\ n \in Nat /\ list \in [1..n -> S]
      /\ \A i, j \in 1..n : list[i] = list[j] => i = j
      /\ \A x \in S : \E i \in 1..n : list[i] = x
  BY SortedFacts
<1>2. Len(list) = n
  BY SortedList
<1> HIDE DEF list
<1>3. DOMAIN list = 1..n
  BY <1>1
<1>4. ToSet(list) = S
  <2>1. \A i \in 1..n : list[i] \in S
    BY <1>1
  <2>2. ToSet(list) = {list[i] : i \in 1..n}
    BY <1>3 DEF ToSet
  <2>3. ASSUME NEW x \in S PROVE x \in ToSet(list)
    <3>1. PICK i \in 1..n : list[i] = x
      BY <1>1
    <3> QED BY <2>2, <3>1
  <2>4. ASSUME NEW x \in ToSet(list) PROVE x \in S
    BY <2>1, <2>2, <2>4
  <2> QED BY <2>3, <2>4
<1> QED BY <1>1, <1>2, <1>3, <1>4 DEF list

\* The anchors that cover a file are finitely many numbers.
LEMMA CoveringFacts ==
  ASSUME NEW p \in Projects, NEW reached, DOMAIN reached \subseteq Usable(p), NEW f
  PROVE  Covering(reached, f) \in SUBSET Nat /\ IsFiniteSet(Covering(reached, f))
<1>1. Covering(reached, f) \in SUBSET (DOMAIN p.mappings)
  BY DEF Covering, Usable
<1>2. IsFiniteSet(DOMAIN p.mappings) /\ DOMAIN p.mappings \subseteq Nat
  BY ProjectsAssumption, ArtifactsAssumption
<1> QED BY <1>1, <1>2, FS_Subset

\* The counters a check relies on are those of the files of the scan.
LEMMA ScanCountsFiles ==
  ASSUME NEW p \in Projects
  PROVE  LET scan == ScanOf(p)
             s    == scan.traceability_metrics.summary
         IN  /\ s.product_file_count = Cardinality(DOMAIN scan.files)
             /\ s.covered_product_file_count = Cardinality(Covered(scan.files))
             /\ s.product_file_count \in Nat /\ s.covered_product_file_count \in Nat
<1> DEFINE reached == [a \in Usable(p) |-> ReachedFrom(p, p.mappings[a])]
           scan == ScanOf(p)
           s == Summary(p, reached)
           covered == {f \in p.files : Cardinality(Covering(reached, f)) \in Nat \ {0}}
<1>1. /\ scan.files = [f \in p.files |-> FileView(p, reached, f)]
      /\ scan.traceability_metrics.summary = s
  BY DEF ScanOf
<1>2. DOMAIN reached \subseteq Usable(p)
  OBVIOUS
<1> HIDE DEF reached, scan
<1>3. /\ s.product_file_count = Cardinality(p.files)
      /\ s.covered_product_file_count = Cardinality(covered)
  BY DEF Summary
<1>4. DOMAIN scan.files = p.files
  BY <1>1
<1>5. Covered(scan.files) = covered
  <2>1. ASSUME NEW f \in p.files
        PROVE  isCovered(scan.files[f]) <=> Cardinality(Covering(reached, f)) \in Nat \ {0}
    <3> DEFINE S == Covering(reached, f)
    <3>1. S \in SUBSET Nat /\ IsFiniteSet(S)
      BY <1>2, CoveringFacts
    <3>2. isCovered(scan.files[f]) <=> Sorted(S) # <<>>
      BY <1>1 DEF isCovered, FileView
    <3> HIDE DEF S
    <3>3. Cardinality(S) \in Nat /\ (Cardinality(S) = 0 <=> S = {})
      BY <3>1, FS_CardinalityType, FS_EmptySet
    <3>4. Sorted(S) = <<>> <=> S = {}
      BY <3>1, SortedList
    <3> QED BY <3>2, <3>3, <3>4 DEF S
  <2> QED BY <1>4, <2>1 DEF Covered
<1>6. Cardinality(p.files) \in Nat /\ Cardinality(covered) \in Nat
  <2>1. IsFiniteSet(p.files)
    BY ProjectsAssumption
  <2>2. covered \in SUBSET p.files
    OBVIOUS
  <2> HIDE DEF covered
  <2> QED BY <2>1, <2>2, FS_Subset, FS_CardinalityType
<1> QED BY <1>1, <1>3, <1>4, <1>5, <1>6 DEF scan

\* A scan has finitely many findings.
LEMMA BaseFindingsFinite == ASSUME NEW p \in Projects PROVE IsFiniteSet(BaseFindings(p))
<1> DEFINE Mapped == DOMAIN p.mappings
           A == {[kind |-> "stale_mapping_anchor", anchor_id |-> a] : a \in Mapped \ Active(p)}
           B == {[kind |-> "unmapped_anchor", anchor_id |-> a] : a \in Active(p) \ Mapped}
           Of(a) == {[kind |-> "broken_seed_path", anchor_id |-> a, seed_path |-> x] :
                       x \in p.mappings[a] \ p.files}
           C == {Of(a) : a \in Mapped \intersect Active(p)}
<1>1. /\ IsFiniteSet(p.graph) /\ IsFiniteSet(Mapped) /\ IsFiniteSet(DOMAIN p.anchors)
      /\ \A a \in Mapped : IsFiniteSet(p.mappings[a])
  BY ProjectsAssumption
<1>2. /\ IsFiniteSet(Mapped \ Active(p)) /\ IsFiniteSet(Active(p) \ Mapped)
      /\ IsFiniteSet(Mapped \intersect Active(p))
  <2>1. Active(p) \in SUBSET (DOMAIN p.anchors)
    BY DEF Active
  <2>2. IsFiniteSet(Active(p))
    BY <1>1, <2>1, FS_Subset
  <2> QED BY <1>1, <2>2, FS_Difference, FS_Intersection
<1>3. IsFiniteSet(A)
  <2> DEFINE S == Mapped \ Active(p)
             f == [a \in S |-> [kind |-> "stale_mapping_anchor", anchor_id |-> a]]
  <2>1. A = {f[a] : a \in S}
    OBVIOUS
  <2> HIDE DEF f
  <2> QED BY <1>2, <2>1, FiniteImage
<1>4. IsFiniteSet(B)
  <2> DEFINE S == Active(p) \ Mapped
             f == [a \in S |-> [kind |-> "unmapped_anchor", anchor_id |-> a]]
  <2>1. B = {f[a] : a \in S}
    OBVIOUS
  <2> HIDE DEF f
  <2> QED BY <1>2, <2>1, FiniteImage
<1>5. \A a \in Mapped : IsFiniteSet(Of(a))
  <2> TAKE a \in Mapped
  <2> DEFINE S == p.mappings[a] \ p.files
             f == [x \in S |-> [kind |-> "broken_seed_path", anchor_id |-> a, seed_path |-> x]]
  <2>1. Of(a) = {f[x] : x \in S}
    OBVIOUS
  <2>2. IsFiniteSet(S)
    BY <1>1, FS_Difference
  <2> HIDE DEF f, S
  <2> QED BY <2>1, <2>2, FiniteImage
<1>6. IsFiniteSet(UNION C)
  <2> DEFINE S == Mapped \intersect Active(p)
             f == [a \in S |-> Of(a)]
  <2>1. C = {f[a] : a \in S} /\ \A T \in C : IsFiniteSet(T)
    <3>1. C = {f[a] : a \in S}
      OBVIOUS
    <3> HIDE DEF Of
    <3> QED BY <1>5, <3>1
  <2> HIDE DEF f, C, Of
  <2>2. IsFiniteSet(C)
    BY <1>2, <2>1, FiniteImage
  <2> QED BY <2>1, <2>2, FS_UNION
<1>7. BaseFindings(p) = ((p.graph \union A) \union B) \union UNION C
  BY DEF BaseFindings
<1> HIDE DEF A, B, C
<1>8. IsFiniteSet(p.graph \union A)
  BY <1>1, <1>3, FS_Union
<1>9. IsFiniteSet((p.graph \union A) \union B)
  BY <1>4, <1>8, FS_Union
<1>10. IsFiniteSet(((p.graph \union A) \union B) \union UNION C)
  BY <1>6, <1>9, FS_Union
<1> QED BY <1>7, <1>10

\* So have they together with those the counters give rise to.
LEMMA FindingsFinite ==
  ASSUME NEW p \in Projects, NEW reached
  PROVE  IsFiniteSet(BaseFindings(p) \union UntracedFindings(p, reached))
<1> DEFINE S == {g \in p.files : Covering(reached, g) = {}}
           f == [g \in S |-> [kind |-> "untraced_product_file", path |-> g]]
<1>1. IsFiniteSet(S)
  <2>1. S \in SUBSET p.files /\ IsFiniteSet(p.files)
    BY ProjectsAssumption
  <2> HIDE DEF S
  <2> QED BY <2>1, FS_Subset
<1>2. UntracedFindings(p, reached) \in SUBSET {f[g] : g \in S}
  BY DEF UntracedFindings
<1> HIDE DEF f, S
<1>3. IsFiniteSet(UntracedFindings(p, reached))
  <2>1. IsFiniteSet({f[g] : g \in S})
    BY <1>1, FiniteImage
  <2> QED BY <1>2, <2>1, FS_Subset
<1> QED BY <1>3, BaseFindingsFinite, FS_Union

\* The findings of a scan are a list.
LEMMA ScanFindingsAreListed == ASSUME NEW p \in Projects PROVE IsList(ScanOf(p).findings)
<1> DEFINE reached == [a \in Usable(p) |-> ReachedFrom(p, p.mappings[a])]
           found == BaseFindings(p) \union UntracedFindings(p, reached)
<1>1. ScanOf(p).findings = SortedBy(found, compareFindings)
  BY DEF ScanOf
<1>2. Cardinality(found) \in Nat
  <2>1. IsFiniteSet(found)
    BY FindingsFinite
  <2> HIDE DEF found
  <2> QED BY <2>1, FS_CardinalityType
<1> HIDE DEF found
<1>3. \E f : ScanOf(p).findings = [k \in 1..Cardinality(found) |-> f[k]]
  <2> DEFINE f == ScanOf(p).findings
  <2>1. f = [k \in 1..Cardinality(found) |-> f[k]]
    BY <1>1 DEF SortedBy
  <2> QED BY <2>1
<1> QED BY <1>2, <1>3, Listed

-----------------------------------------------------------------------------
(* what an anchor reaches *)

\* Induction over the numbers, with the numbers it holds of as a set.
LEMMA InductionOverNat ==
  ASSUME NEW N, 0 \in N, \A n \in Nat : n \in N => n + 1 \in N
  PROVE  Nat \subseteq N
<1> SUFFICES ASSUME Nat \ N # {} PROVE FALSE
  OBVIOUS
<1>1. PICK n \in Nat \ N : \A m \in Nat \ N : <<m, n>> \notin OpToRel(<, Nat)
  BY WFMin, NatLessThanWellFounded, Zenon
<1>2. n - 1 \in Nat /\ n - 1 < n
  <2>1. n \in Nat /\ n # 0
    BY <1>1
  <2> QED BY <2>1
<1>3. n - 1 \in N
  <2> SUFFICES ASSUME n - 1 \notin N PROVE FALSE
    OBVIOUS
  <2>1. <<n - 1, n>> \in Nat \X Nat /\ <<n - 1, n>>[1] < <<n - 1, n>>[2]
    BY <1>2
  <2>2. <<n - 1, n>> \in OpToRel(<, Nat)
    BY <2>1, Zenon DEF OpToRel
  <2> QED BY <1>1, <1>2, <2>2, Zenon
<1>4. (n - 1) + 1 \in N
  BY <1>2, <1>3
<1>5. (n - 1) + 1 = n
  <2>1. n \in Nat
    BY <1>1
  <2> QED BY <2>1
<1> QED BY <1>1, <1>4, <1>5

\* There is a function that takes a number of turns, each from where the one before
\* it has left.
AreTurns(g, step, init, C, S) ==
  /\ g \in [0..C -> S]
  /\ g[0] = init /\ \A n \in 1..C : g[n] = step[n][g[n - 1]]
IsStep(step, C, S) == step \in [1..C -> [S -> S]]

LEMMA TurnsExist ==
  ASSUME NEW C \in Nat, NEW S, NEW init \in S, NEW step, IsStep(step, C, S)
  PROVE  \E g : AreTurns(g, step, init, C, S)
<1> DEFINE Upto(g, m) == g[0] = init /\ \A n \in 1..C : n <= m => g[n] = step[n][g[n - 1]]
           N == {m \in Nat : \E g \in [0..C -> S] : Upto(g, m)}
<1>1. 0 \in N
  <2> DEFINE g == [n \in 0..C |-> init]
  <2>1. g \in [0..C -> S] /\ g[0] = init
    OBVIOUS
  <2>2. \A n \in 1..C : ~(n <= 0)
    OBVIOUS
  <2> HIDE DEF g
  <2> QED BY <2>1, <2>2
<1>2. ASSUME NEW m \in Nat, m \in N PROVE m + 1 \in N
  <2>1. PICK g \in [0..C -> S] : Upto(g, m)
    BY <1>2
  <2> DEFINE h == [n \in 0..C |-> IF n <= m THEN g[n] ELSE IF n = 0 THEN init ELSE step[n][g[n - 1]]]
  <2>2. h \in [0..C -> S]
    <3>1. \A n \in 0..C : n # 0 => step[n][g[n - 1]] \in S
      <4> TAKE n \in 0..C
      <4> HAVE n # 0
      <4>1. n \in 1..C /\ n - 1 \in 0..C
        OBVIOUS
      <4>2. step[n] \in [S -> S] /\ g[n - 1] \in S
        BY <2>1, <4>1 DEF IsStep
      <4> QED BY <4>2
    <3> QED BY <2>1, <3>1
  <2>3. h[0] = init
    BY <2>1
  <2>4. ASSUME NEW n \in 1..C, n <= m + 1 PROVE h[n] = step[n][h[n - 1]]
    <3>1. n \in 0..C /\ n - 1 \in 0..C /\ n - 1 <= m /\ n # 0
      BY <2>4
    <3>2. h[n - 1] = g[n - 1]
      BY <3>1
    <3>3. h[n] = step[n][g[n - 1]]
      BY <2>1, <3>1
    <3> QED BY <3>2, <3>3
  <2> HIDE DEF h
  <2> QED BY <2>2, <2>3, <2>4
<1>3. C \in N
  <2> HIDE DEF N
  <2> QED BY <1>1, <1>2, InductionOverNat
<1>4. PICK g \in [0..C -> S] : Upto(g, C)
  BY <1>3
<1>5. \A n \in 1..C : n <= C
  OBVIOUS
<1> QED BY <1>4, <1>5 DEF AreTurns

\* The product files a turn reaches from those it starts with.
FilesReached(p, T) == T \union (p.files \intersect UNION {p.edges[f] : f \in T})

LEMMA ReachesMore ==
  ASSUME NEW p, NEW T \in SUBSET p.files
  PROVE  FilesReached(p, T) \in SUBSET p.files /\ T \subseteq FilesReached(p, T)
<1> DEFINE U == UNION {p.edges[f] : f \in T}
<1>1. FilesReached(p, T) = T \union (p.files \intersect U)
  BY DEF FilesReached
<1> HIDE DEF U
<1> QED BY <1>1

\* The turns of the walk from some seeds.
AreReached(p, seeds, turn) ==
  LET C == Cardinality(p.files)
  IN  /\ C \in Nat /\ turn[0] = seeds \intersect p.files /\ ReachedFrom(p, seeds) = turn[C]
      /\ \A n \in 1..C : turn[n] = FilesReached(p, turn[n - 1])

LEMMA ReachedTurns ==
  ASSUME NEW p \in Projects, NEW seeds
  PROVE  \E turn : AreReached(p, seeds, turn)
<1> DEFINE C == Cardinality(p.files)
           S == SUBSET p.files
           turn == CHOOSE turn :
                     turn = [n \in 0..C |->
                               IF n = 0 THEN seeds \intersect p.files
                               ELSE turn[n - 1] \union
                                    (p.files \intersect UNION {p.edges[f] : f \in turn[n - 1]})]
           init == seeds \intersect p.files
           step == [n \in 1..C |-> [T \in S |-> FilesReached(p, T)]]
<1>1. C \in Nat
  BY ProjectsAssumption, FS_CardinalityType
<1>2. ReachedFrom(p, seeds) = turn[C]
  BY DEF ReachedFrom
<1>3. init \in S /\ IsStep(step, C, S)
  <2>1. \A T \in S : FilesReached(p, T) \in S
    BY ReachesMore
  <2>2. init \in S
    OBVIOUS
  <2> HIDE DEF S, init, C
  <2>3. \A n \in 1..C : step[n] \in [S -> S]
    BY <2>1
  <2> QED BY <2>2, <2>3 DEF IsStep
<1>4. PICK g : AreTurns(g, step, init, C, S)
  <2> HIDE DEF C, S, init, step
  <2> QED BY <1>1, <1>3, TurnsExist
<1>5. \A n \in 1..C : n - 1 \in 0..C /\ n # 0 /\ n \in 0..C
  BY <1>1
<1>6. \A n \in 0..C : n # 0 => n \in 1..C
  BY <1>1
<1> HIDE DEF C
<1>7. \A n \in 1..C : g[n] = FilesReached(p, g[n - 1])
  BY <1>4, <1>5 DEF AreTurns
<1>8. g = [n \in 0..C |-> IF n = 0 THEN seeds \intersect p.files ELSE FilesReached(p, g[n - 1])]
  BY <1>4, <1>6, <1>7 DEF AreTurns
<1>9. turn = [n \in 0..C |-> IF n = 0 THEN seeds \intersect p.files
                             ELSE FilesReached(p, turn[n - 1])]
  BY <1>8, Zenon DEF FilesReached
<1> HIDE DEF turn
<1>10. turn[0] = seeds \intersect p.files
  BY <1>1, <1>9
<1>11. \A n \in 1..C : turn[n] = FilesReached(p, turn[n - 1])
  BY <1>5, <1>9
<1>12. AreReached(p, seeds, turn)
  BY <1>1, <1>2, <1>10, <1>11 DEF AreReached, C
<1> QED BY <1>12

\* What holds of the seeds and is kept by every turn holds of the files reached.
LEMMA ReachedBy ==
  ASSUME NEW p \in Projects, NEW seeds, NEW U, seeds \intersect p.files \in U,
         \A T \in U : FilesReached(p, T) \in U
  PROVE  ReachedFrom(p, seeds) \in U
<1> DEFINE C == Cardinality(p.files)
<1>1. PICK turn : AreReached(p, seeds, turn)
  BY ReachedTurns
<1>2. /\ C \in Nat /\ turn[0] \in U /\ ReachedFrom(p, seeds) = turn[C]
      /\ \A n \in 1..C : turn[n] = FilesReached(p, turn[n - 1])
  BY <1>1 DEF AreReached
<1> HIDE DEF C
<1> DEFINE N == {n \in Nat : n <= C => turn[n] \in U}
<1>3. 0 \in N
  BY <1>2
<1>4. ASSUME NEW n \in Nat, n \in N PROVE n + 1 \in N
  <2> SUFFICES ASSUME n + 1 <= C PROVE turn[n + 1] \in U
    OBVIOUS
  <2>1. n + 1 \in 1..C /\ (n + 1) - 1 = n /\ n <= C
    BY <1>2
  <2>2. turn[n] \in U
    BY <1>4, <2>1
  <2>3. turn[n + 1] = FilesReached(p, turn[n])
    BY <1>2, <2>1
  <2> QED BY <2>2, <2>3
<1>5. C \in N
  <2> HIDE DEF N
  <2> QED BY <1>2, <1>3, <1>4, InductionOverNat
<1> QED BY <1>2, <1>5

\* The files reached are product files, and the seeds are among them.
LEMMA ReachedFacts ==
  ASSUME NEW p \in Projects, NEW seeds
  PROVE  /\ ReachedFrom(p, seeds) \in SUBSET p.files
         /\ seeds \subseteq p.files => seeds \subseteq ReachedFrom(p, seeds)
<1> DEFINE init == seeds \intersect p.files
           U == {T \in SUBSET p.files : init \subseteq T}
<1>1. init \in U
  OBVIOUS
<1>2. ASSUME NEW T \in U PROVE FilesReached(p, T) \in U
  <2>1. T \in SUBSET p.files /\ init \subseteq T
    OBVIOUS
  <2>2. FilesReached(p, T) \in SUBSET p.files /\ T \subseteq FilesReached(p, T)
    BY <2>1, ReachesMore
  <2> HIDE DEF init
  <2> QED BY <2>1, <2>2
<1>3. ReachedFrom(p, seeds) \in U
  <2> HIDE DEF U
  <2> QED BY <1>1, <1>2, ReachedBy
<1> QED BY <1>3

\* They are in every set that has the seeds and what its files import.
LEMMA ReachedWithin ==
  ASSUME NEW p \in Projects, NEW seeds, NEW W, seeds \intersect p.files \subseteq W,
         \A f \in W : p.edges[f] \intersect p.files \subseteq W \/ f \notin p.files
  PROVE  ReachedFrom(p, seeds) \subseteq W
<1> DEFINE U == SUBSET (W \intersect p.files)
<1>1. seeds \intersect p.files \in U
  OBVIOUS
<1>2. ASSUME NEW T \in U PROVE FilesReached(p, T) \in U
  <2>1. \A f \in T : p.edges[f] \intersect p.files \subseteq W
    OBVIOUS
  <2>2. ASSUME NEW x \in FilesReached(p, T) PROVE x \in W /\ x \in p.files
    <3> DEFINE E == UNION {p.edges[f] : f \in T}
    <3>1. FilesReached(p, T) = T \union (p.files \intersect E)
      BY DEF FilesReached
    <3>2. x \in E => \E f \in T : x \in p.edges[f]
      OBVIOUS
    <3> HIDE DEF E
    <3>3. CASE x \in T
      BY <3>3
    <3>4. CASE x \in p.files /\ x \in E
      BY <2>1, <3>2, <3>4
    <3> QED BY <2>2, <3>1, <3>3, <3>4
  <2> QED BY <2>2
<1>3. ReachedFrom(p, seeds) \in U
  <2> HIDE DEF U
  <2> QED BY <1>1, <1>2, ReachedBy
<1> QED BY <1>3

\* What an explanation needs of a scan: its lists are lists of files, and what an anchor
\* reaches is in every set that has its seeds and what the files in it import.
Reachable(scan, seeds, reached) ==
  \A W : ToSet(seeds) \subseteq W /\ (\A f \in W : TargetsIn(scan, f) \subseteq W)
           => ToSet(reached) \subseteq W
Explains(scan) ==
  \A a \in DOMAIN scan.stored_mappings :
    LET m == scan.stored_mappings[a]
        K == Known(scan, ToSet(m.seed_files))
    IN  /\ K \subseteq Nat /\ IsFiniteSet(K)
        /\ IsList(m.seed_files) /\ IsList(m.reached_files) /\ ToSet(m.reached_files) \subseteq Nat
        /\ Reachable(scan, m.seed_files, m.reached_files)

LEMMA ScanExplains == ASSUME NEW p \in Projects PROVE Explains(ScanOf(p))
<1> DEFINE scan == ScanOf(p)
           reached == [a \in Usable(p) |-> ReachedFrom(p, p.mappings[a])]
<1>1. /\ scan.files = [f \in p.files |-> FileView(p, reached, f)]
      /\ scan.stored_mappings = [a \in DOMAIN p.mappings |-> StoredMapping(p, reached, a)]
  BY DEF ScanOf
<1>2. /\ IsFiniteSet(p.files) /\ p.files \subseteq Nat
      /\ \A f \in p.files : IsFiniteSet(p.edges[f]) /\ p.edges[f] \in SUBSET Nat
      /\ \A a \in DOMAIN p.mappings : IsFiniteSet(p.mappings[a]) /\ p.mappings[a] \in SUBSET Nat
  BY ProjectsAssumption, ArtifactsAssumption
<1> HIDE DEF scan, reached
<1>3. \A f : TargetsIn(scan, f) = IF f \in p.files THEN p.edges[f] ELSE {}
  <2> TAKE f
  <2>1. CASE f \in p.files
    <3>1. scan.files[f].supported_local_targets = Sorted(p.edges[f])
      BY <1>1, <2>1 DEF FileView
    <3>2. ToSet(Sorted(p.edges[f])) = p.edges[f]
      BY <1>2, <2>1, SortedSet
    <3> QED BY <1>1, <2>1, <3>1, <3>2 DEF TargetsIn
  <2>2. CASE f \notin p.files
    BY <1>1, <2>2 DEF TargetsIn
  <2> QED BY <2>1, <2>2
<1>4. ASSUME NEW a \in DOMAIN p.mappings
      PROVE  LET m == StoredMapping(p, reached, a)
                 K == Known(scan, ToSet(m.seed_files))
             IN  /\ K \subseteq Nat /\ IsFiniteSet(K)
                 /\ IsList(m.seed_files) /\ IsList(m.reached_files)
                 /\ ToSet(m.reached_files) \subseteq Nat
                 /\ Reachable(scan, m.seed_files, m.reached_files)
  <2> DEFINE m == StoredMapping(p, reached, a)
             seeds == p.mappings[a]
             K == Known(scan, seeds)
             found == ReachedFrom(p, seeds)
  <2>1. m.seed_files = Sorted(seeds)
        /\ m.reached_files = IF a \in Usable(p) THEN Sorted(found) ELSE <<>>
    BY DEF StoredMapping, reached
  <2>2. seeds \in SUBSET Nat /\ IsFiniteSet(seeds)
    BY <1>2
  <2>3. found \in SUBSET p.files
    BY ReachedFacts
  <2>4. found \in SUBSET Nat /\ IsFiniteSet(found)
    BY <1>2, <2>3, FS_Subset
  <2> HIDE DEF m
  <2>5. IsList(m.seed_files) /\ ToSet(m.seed_files) = seeds
    BY <2>1, <2>2, SortedList, SortedSet
  <2> HIDE DEF found
  <2> DEFINE R == IF a \in Usable(p) THEN found ELSE {}
  <2>6. IsList(m.reached_files) /\ ToSet(m.reached_files) = R /\ R \subseteq Nat
    <3>1. CASE a \in Usable(p)
      BY <2>1, <2>4, <3>1, SortedList, SortedSet
    <3>2. CASE a \notin Usable(p)
      <4>1. IsList(<<>>) /\ ToSet(<<>>) = {}
        BY DEF IsList, ToSet
      <4> QED BY <2>1, <3>2, <4>1
    <3> QED BY <3>1, <3>2
  <2>7. K \subseteq Nat /\ IsFiniteSet(K)
    <3> DEFINE edges == {p.edges[f] : f \in p.files}
    <3>1. K = seeds \union UNION edges
      BY <1>1, <1>3 DEF Known
    <3>2. UNION edges \subseteq Nat
      BY <1>2
    <3>3. IsFiniteSet(edges)
      BY <1>2, FiniteImage
    <3>4. \A s \in edges : IsFiniteSet(s)
      BY <1>2
    <3> HIDE DEF edges, K
    <3>5. IsFiniteSet(UNION edges)
      BY <3>3, <3>4, FS_UNION
    <3> QED BY <2>2, <3>1, <3>2, <3>5, FS_Union
  <2>8. ASSUME NEW W, seeds \subseteq W, \A f \in W : TargetsIn(scan, f) \subseteq W
        PROVE  R \subseteq W
    <3>1. \A f \in W : p.edges[f] \intersect p.files \subseteq W \/ f \notin p.files
      BY <1>3, <2>8
    <3>2. seeds \intersect p.files \subseteq W
      BY <2>8
    <3>3. found \subseteq W
      BY <3>1, <3>2, ReachedWithin DEF found
    <3> QED BY <3>3
  <2> HIDE DEF R
  <2>9. Reachable(scan, m.seed_files, m.reached_files)
    BY <2>5, <2>6, <2>8 DEF Reachable
  <2> QED BY <2>5, <2>6, <2>7, <2>9 DEF m
<1>5. DOMAIN scan.stored_mappings = DOMAIN p.mappings
      /\ \A a \in DOMAIN p.mappings : scan.stored_mappings[a] = StoredMapping(p, reached, a)
  BY <1>1
<1>6. Explains(scan)
  BY <1>4, <1>5 DEF Explains
<1> QED BY <1>6 DEF scan

\* So does the scan that is printed.
LEMMA RenderedScanExplains == ASSUME NEW p \in Projects PROVE Explains(RenderScan(ScanOf(p)))
<1> DEFINE v == ScanOf(p)
           j == RenderScan(v)
<1>1. /\ j.files = Each(v.files, LAMBDA f :
                          Object(f, {"covering_anchor_ids", "supported_local_targets"}))
      /\ j.stored_mappings = Each(v.stored_mappings, LAMBDA m :
                                    Object(m, {"state", "seed_files", "reached_files"}))
  BY DEF RenderScan
<1>2. Explains(v)
  BY ScanExplains
<1> HIDE DEF j, v
<1>3. /\ DOMAIN j.files = DOMAIN v.files /\ DOMAIN j.stored_mappings = DOMAIN v.stored_mappings
      /\ \A f \in DOMAIN v.files :
           j.files[f].supported_local_targets = v.files[f].supported_local_targets
  BY <1>1 DEF Each, Object
<1>4. \A a \in DOMAIN v.stored_mappings :
        /\ j.stored_mappings[a].seed_files = v.stored_mappings[a].seed_files
        /\ j.stored_mappings[a].reached_files = v.stored_mappings[a].reached_files
  BY <1>1 DEF Each, Object
<1>5. \A f : TargetsIn(j, f) = TargetsIn(v, f)
  BY <1>3 DEF TargetsIn
<1>6. \A start : Known(j, start) = Known(v, start)
  BY <1>3, <1>5 DEF Known
<1>7. \A seeds, found : Reachable(j, seeds, found) <=> Reachable(v, seeds, found)
  BY <1>5 DEF Reachable
<1>8. Explains(j)
  BY <1>2, <1>3, <1>4, <1>6, <1>7 DEF Explains
<1> QED BY <1>8 DEF j, v

-----------------------------------------------------------------------------
(* the check of a policy *)

\* The counters of the scans the tool vouches for are those of their files.
CountsFiles(scan) ==
  /\ scan.traceability_metrics.summary.product_file_count = Cardinality(DOMAIN scan.files)
  /\ scan.traceability_metrics.summary.covered_product_file_count = Cardinality(Covered(scan.files))

\* What is true of every scan the tool has made: it counts right, and it has the imports
\* that lead to what its anchors reach.
IsSound(scan) == CountsFiles(scan) /\ Explains(scan)

\* The files keep their shape, and the scans in them that no one has edited count right.
CInv ==
  /\ project \in Projects
  /\ DOMAIN file = Slots /\ DOMAIN written = Slots
  /\ \A s \in ScanSlots : written[s] # Null => IsSound(file[s].json)

\* A scan counts right when it is rendered.
LEMMA RenderedScanCounts == ASSUME NEW p \in Projects PROVE CountsFiles(RenderScan(ScanOf(p)))
<1> DEFINE v == ScanOf(p)
           j == RenderScan(v)
<1>1. j.files = Each(v.files, LAMBDA f : Object(f, {"covering_anchor_ids", "supported_local_targets"}))
  BY DEF RenderScan
<1>2. j.traceability_metrics.summary = RenderSummary(v.traceability_metrics.summary)
  BY DEF RenderScan, RenderMetrics
<1>3. CountsFiles(v)
  BY ScanCountsFiles DEF CountsFiles
<1> HIDE DEF j, v
<1>4. DOMAIN j.files = DOMAIN v.files
  BY <1>1 DEF Each
<1>5. \A f \in DOMAIN v.files : isCovered(j.files[f]) <=> isCovered(v.files[f])
  BY <1>1 DEF Each, Object, isCovered
<1>6. Covered(j.files) = Covered(v.files)
  BY <1>4, <1>5 DEF Covered
<1>7. /\ j.traceability_metrics.summary.product_file_count
           = v.traceability_metrics.summary.product_file_count
      /\ j.traceability_metrics.summary.covered_product_file_count
           = v.traceability_metrics.summary.covered_product_file_count
  BY <1>2 DEF RenderSummary, Object
<1> QED BY <1>3, <1>4, <1>6, <1>7 DEF CountsFiles, j, v

LEMMA RenderedScanIsSound == ASSUME NEW p \in Projects PROVE IsSound(RenderScan(ScanOf(p)))
BY RenderedScanCounts, RenderedScanExplains DEF IsSound

\* At first no file holds what this version has written.
LEMMA InitCInv == Init => CInv
BY DEF Init, CInv, Slots

\* What a command leaves: the outputs of scan alone are sent to the files of scans.
LEMMA EndsCInv ==
  ASSUME CInv, NEW command, NEW args, NEW target, NEW exit, NEW why, NEW json, NEW view,
         Ends(command, args, target, exit, why, json, view),
         target \in ScanSlots \ {Null} /\ view # Null => IsSound(json)
  PROVE  CInv'
BY DEF CInv, Ends, JsonFile, Slots

LEMMA PrintsCInv ==
  ASSUME CInv, NEW command, NEW args, NEW target, NEW exit, NEW json, NEW view,
         Prints(command, args, target, exit, json, view),
         target \in ScanSlots \ {Null} => IsSound(json)
  PROVE  CInv'
BY EndsCInv, Zenon DEF Prints

LEMMA FailsCInv ==
  ASSUME CInv, NEW command, NEW args, NEW target, NEW exit, NEW why,
         Fails(command, args, target, exit, why)
  PROVE  CInv'
BY EndsCInv, Zenon DEF Fails

\* Only scan sends its output to the file of a scan.
LEMMA NoScanTarget ==
  ASSUME NEW command \in Commands \ {"scan"}, NEW args, NEW target \in Targets(command, args)
  PROVE  target \notin ScanSlots \ {Null}
BY DEF Targets, ScanSlots, Commands

\* No command breaks the invariant, and neither does any other step.
LEMMA RunCInv ==
  ASSUME CInv, NEW command \in Commands, NEW args, NEW target \in Targets(command, args),
         Run(command, args, target)
  PROVE  CInv'
<1>0. command # "scan" => target \notin ScanSlots \ {Null}
  BY NoScanTarget
<1>1. CASE command = "scan" /\ Scan(args, target)
  BY <1>1, FailsCInv, PrintsCInv, RenderedScanIsSound, Zenon DEF Scan, CInv
<1>2. CASE command = "check" /\ Check(args, target)
  BY <1>0, <1>2, FailsCInv, PrintsCInv, Zenon DEF Check
<1>3. CASE command = "diff" /\ Diff(args, target)
  BY <1>0, <1>3, FailsCInv, PrintsCInv, Zenon DEF Diff
<1>4. CASE command = "explain" /\ Explain(args, target)
  BY <1>0, <1>4, FailsCInv, PrintsCInv, Zenon DEF Explain
<1>5. CASE command = "report" /\ Report(args, target)
  BY <1>0, <1>5, FailsCInv, EndsCInv, Zenon DEF Report
<1>6. CASE command = "bundle" /\ Bundle(args, target)
  BY <1>0, <1>6, FailsCInv, PrintsCInv, Zenon DEF Bundle
<1>7. CASE HandOver(command, args)
  BY <1>7, EndsCInv, Zenon DEF HandOver
<1>8. CASE RefuseArguments(command, args, target)
  BY <1>8, FailsCInv, Zenon DEF RefuseArguments
<1> QED BY <1>1, <1>2, <1>3, <1>4, <1>5, <1>6, <1>7, <1>8 DEF Run

\* The invariant is inductive.
LEMMA NextCInv == CInv /\ [Next]_vars => CInv'
<1> SUFFICES ASSUME CInv, [Next]_vars PROVE CInv'
  OBVIOUS
<1>1. ASSUME NEW command \in Commands, NEW call \in Calls(command), Run(command, call[1], call[2])
      PROVE  CInv'
  <2>1. call[2] \in Targets(command, call[1])
    BY DEF Calls
  <2> QED BY <1>1, <2>1, RunCInv
<1>2. CASE Prompt
  BY <1>2 DEF Prompt, CInv
<1>3. CASE ChangeProject
  BY <1>3 DEF ChangeProject, CInv
<1>4. ASSUME NEW s \in Slots, Edit(s) PROVE CInv'
  <2>1. DOMAIN file' = Slots /\ \A x \in Slots \ {s} : file'[x] = file[x]
    BY <1>4 DEF Edit, CInv
  <2>2. written' = [written EXCEPT ![s] = Null] /\ project' = project
    BY <1>4 DEF Edit
  <2> QED BY <2>1, <2>2 DEF CInv, Slots
<1>5. CASE UNCHANGED vars
  BY <1>5 DEF vars, CInv
<1> QED BY <1>1, <1>2, <1>3, <1>4, <1>5 DEF Next

\* What is left in a file that a command has sent its output to is the output or
\* nothing, and the other files are as they were.
LEMMA FileAtOthers ==
  ASSUME DOMAIN file = Slots, NEW token, NEW target, NEW content,
         token # target \/ target = Null,
         file' = IF target = Null THEN file ELSE [file EXCEPT ![target] = content]
  PROVE  FileAt(file', token) = FileAt(Truncated(target), token)
BY DEF FileAt, Truncated

\* The file a command is about to write cannot be read by it.
LEMMA GarbledIsRefused ==
  ASSUME DOMAIN file = Slots, NEW target \in Slots, target # Null, NEW option
  PROVE  Loaded(Truncated(target), option, target) = Refused
BY DEF Loaded, FileAt, Truncated, Garbled, Slots

\* A check has a policy.
LEMMA PolicyGiven ==
  ASSUME NEW args, CommandArgs("check", args) # Refused
  PROVE  Given(CommandArgs("check", args), "--policy")
BY DEF CommandArgs, Validated, parseCheckArgs, Requiring, Given

\* A scan that was read has findings in a list and counters that count.
LEMMA ReadScan ==
  ASSUME NEW files, NEW token, Loaded(files, "--scan", token) # Refused
  PROVE  LET j == Loaded(files, "--scan", token)
         IN  /\ j = FileAt(files, token).json
             /\ IsList(j.findings)
             /\ j.traceability_metrics.summary.covered_product_file_count \in Nat
             /\ j.traceability_metrics.summary.product_file_count \in Nat
<1> DEFINE j == FileAt(files, token).json
           s == j.traceability_metrics.summary
<1>1. Loaded(files, "--scan", token) = j /\ IsScan(j)
  BY DEF Loaded, Acceptable
<1> HIDE DEF j
<1>2. IsList(j.findings)
  BY <1>1 DEF IsScan, AreFindings, IsArray
<1>3. Exact(s, Counted(SummaryFields, "count"))
  BY <1>1 DEF IsScan, AreMetrics
<1>4. \A field \in SummaryFields : s[field] \in Nat
  BY <1>3 DEF Exact, Counted, Leaf
<1>5. s.covered_product_file_count \in Nat /\ s.product_file_count \in Nat
  BY <1>4 DEF SummaryFields
<1> QED BY <1>1, <1>2, <1>5 DEF j

\* A policy that was read is one.
LEMMA ReadPolicy ==
  ASSUME NEW files, NEW token, Loaded(files, "--policy", token) # Refused
  PROVE  IsPolicy(Loaded(files, "--policy", token))
BY DEF Loaded, Acceptable

\* A check ends as the property says: the files it read are those it leaves, the scan
\* is the one the property looks at, and its counters are those of its files.
LEMMA CheckGate ==
  ASSUME CInv, NEW args, NEW target \in Targets("check", args), Check(args, target)
  PROVE  GateExact'
<1> DEFINE options == CommandArgs("check", args)
           files   == Truncated(target)
           live    == ~Given(options, "--scan")
           ptoken  == options["--policy"][1]
           stoken  == options["--scan"][1]
           policy  == Loaded(files, "--policy", ptoken)
           scan    == IF live THEN ScanOf(project) ELSE Loaded(files, "--scan", stoken)
           s       == scan.traceability_metrics.summary
           result  == evaluatePolicy(scan, policy)
<1>1. options # Refused /\ Given(options, "--policy")
  BY PolicyGiven DEF Check
<1>2. target \in Slots \ ScanSlots \/ target = Null
  BY DEF Targets, Slots, ScanSlots
<1>3. /\ Option(files, options, "--policy") = policy
      /\ (IF live THEN ScanOf(project) ELSE Option(files, options, "--scan")) = scan
  BY <1>1 DEF Option
<1>4. \/ policy = Refused /\ Fails("check", args, target, 4, "input")
      \/ policy # Refused /\ live /\ project.fault # 0
           /\ Fails("check", args, target, project.fault, "project")
      \/ policy # Refused /\ ~live /\ scan = Refused /\ Fails("check", args, target, 4, "input")
      \/ /\ policy # Refused /\ (live => project.fault = 0) /\ (~live => scan # Refused)
         /\ Prints("check", args, target, IF result.decision = "fail" THEN 5 ELSE 0,
                   RenderPolicyResult(result), result)
  BY <1>3 DEF Check
<1>5. project.fault \in 0..3
  BY ProjectsAssumption DEF CInv
<1> HIDE DEF files, live, policy, scan, s, result
<1>6. CASE ~(policy # Refused /\ (live => project.fault = 0) /\ (~live => scan # Refused))
  <2>1. PICK exit, why : /\ Fails("check", args, target, exit, why)
                         /\ \/ policy = Refused /\ exit = 4
                            \/ policy # Refused /\ live /\ project.fault # 0 /\ exit = project.fault
                            \/ policy # Refused /\ ~live /\ scan = Refused /\ exit = 4
    BY <1>4, <1>6
  <2>2. /\ outcome'.options = options /\ outcome'.exit = exit
        /\ project' = project /\ file' = files
    BY <2>1 DEF Fails, Ends, Truncated, files, options
  <2>3. /\ Loaded(file', "--policy", outcome'.options["--policy"][1]) = policy
        /\ ~Given(outcome'.options, "--scan") <=> live
        /\ ~live => Loaded(file', "--scan", outcome'.options["--scan"][1]) = scan
    BY <2>2 DEF policy, scan, live
  <2>4. /\ outcome'.exit = 4 <=> policy = Refused \/ (~live /\ scan = Refused)
        /\ outcome'.exit \in {1, 2, 3} <=> policy # Refused /\ live /\ project.fault # 0
        /\ outcome'.exit \notin {0, 5}
    BY <1>5, <2>1, <2>2
  <2> QED BY <2>2, <2>3, <2>4, Zenon DEF GateExact, Value
<1>7. CASE policy # Refused /\ (live => project.fault = 0) /\ (~live => scan # Refused)
  <2> DEFINE covered == s.covered_product_file_count
             count   == s.product_file_count
  <2>1. PICK exit, content, view :
           /\ exit = IF result.decision = "fail" THEN 5 ELSE 0
           /\ outcome'.options = options /\ outcome'.exit = exit /\ project' = project
           /\ file' = IF target = Null THEN file ELSE [file EXCEPT ![target] = content]
           /\ written' = IF target = Null THEN written ELSE [written EXCEPT ![target] = view]
    <3>1. Prints("check", args, target, IF result.decision = "fail" THEN 5 ELSE 0,
                 RenderPolicyResult(result), result)
      BY <1>4, <1>7
    <3> QED BY <3>1 DEF Prints, Ends, options
  <2>2. /\ ptoken # target \/ target = Null
        /\ ~live => stoken # target \/ target = Null
    BY <1>2, <1>7, GarbledIsRefused DEF CInv, policy, scan, files
  <2>3. /\ FileAt(file', ptoken) = FileAt(files, ptoken)
        /\ ~live => FileAt(file', stoken) = FileAt(files, stoken)
    BY <2>1, <2>2, FileAtOthers DEF CInv, files
  <2>4. /\ Loaded(file', "--policy", ptoken) = policy
        /\ ~live => Loaded(file', "--scan", stoken) = scan
    BY <2>3 DEF Loaded, policy, scan
  <2>5. IsPolicy(policy)
    BY <1>7, ReadPolicy DEF policy
  <2>6. IsList(scan.findings) /\ covered \in Nat /\ count \in Nat
    <3>1. CASE live
      BY <3>1, ScanFindingsAreListed, ScanCountsFiles DEF CInv, scan, s
    <3>2. CASE ~live
      BY <1>7, <3>2, ReadScan DEF scan, s
    <3> QED BY <3>1, <3>2
  <2>7. /\ result.decision \in {"pass", "fail"}
        /\ result.decision = "fail" <=> Violates(scan, policy, covered, count)
    BY <2>5, <2>6, DecisionExact DEF result, s
  <2>8. /\ outcome'.options["--policy"][1] = ptoken
        /\ Given(outcome'.options, "--scan") <=> ~live
        /\ outcome'.options["--scan"][1] = stoken
    BY <2>1 DEF live
  <2>9. CheckedScan' = scan
    <3>1. CASE live
      BY <2>1, <2>8, <3>1 DEF CheckedScan, scan
    <3>2. CASE ~live
      <4>1. CheckedScan' = FileAt(file', stoken).json
        BY <2>8, <3>2 DEF CheckedScan, FileOf, Value
      <4>2. scan = FileAt(files, stoken).json
        BY <1>7, <3>2, ReadScan DEF scan
      <4> QED BY <2>3, <3>2, <4>1, <4>2
    <3> QED BY <3>1, <3>2
  <2>10. CheckedCoverage' = [covered |-> covered, files |-> count]
    <3>1. CASE live
      <4>1. covered = Cardinality(Covered(scan.files)) /\ count = Cardinality(DOMAIN scan.files)
        BY <3>1, ScanCountsFiles DEF CInv, scan, s
      <4> QED BY <2>8, <2>9, <3>1, <4>1 DEF CheckedCoverage
    <3>2. CASE ~live /\ stoken \in ScanSlots /\ written[stoken] # Null
      <4>1. FileAt(files, stoken) = file[stoken]
        BY <1>2, <2>2, <3>2 DEF CInv, FileAt, files, Truncated, Slots
      <4>2. scan = file[stoken].json
        BY <1>7, <3>2, <4>1, ReadScan DEF scan
      <4>3. covered = Cardinality(Covered(scan.files)) /\ count = Cardinality(DOMAIN scan.files)
        BY <3>2, <4>2 DEF CInv, IsSound, CountsFiles, s
      <4> QED BY <2>8, <2>9, <4>3 DEF CheckedCoverage, s
    <3>3. CASE ~live /\ ~(stoken \in ScanSlots /\ written[stoken] # Null)
      <4>1. ~Vouched("--scan")'
        BY <1>2, <2>1, <2>8, <3>3 DEF Vouched, Value, CInv
      <4> QED BY <2>8, <2>9, <3>3, <4>1 DEF CheckedCoverage, s
    <3> QED BY <3>1, <3>2, <3>3
  <2>11. PICK sc, c, n, pol : sc = scan /\ c = covered /\ n = count /\ pol = policy
    OBVIOUS
  <2>12. PolicyViolated(pol)' <=> Violates(sc, pol, c, n)
    BY <2>9, <2>10, <2>11 DEF PolicyViolated, Violates
  <2>13. /\ exit \in {0, 5} /\ (exit = 5 <=> PolicyViolated(pol)')
    BY <2>1, <2>7, <2>11, <2>12
  <2>14. pol = Loaded(file', "--policy", ptoken) /\ pol # Refused
         /\ (~live => Loaded(file', "--scan", stoken) # Refused)
    BY <1>7, <2>4, <2>11
  <2>15. ~live \/ project'.fault = 0
    BY <1>7, <2>1
  <2> HIDE DEF covered, count
  <2> QED BY <2>1, <2>8, <2>13, <2>14, <2>15 DEF GateExact, Value
<1> QED BY <1>6, <1>7

\* What a step leaves as the outcome of a command.
LEMMA OutcomeOf ==
  ASSUME [Next]_vars
  PROVE  \/ outcome' = Null
         \/ UNCHANGED vars
         \/ \E command \in Commands : \E call \in Calls(command) :
              /\ Run(command, call[1], call[2])
              /\ outcome'.command = command
              /\ outcome'.args = call[1]
              /\ outcome'.options = CommandArgs(command, call[1])
<1>1. ASSUME NEW command \in Commands, NEW args, NEW target, Run(command, args, target)
      PROVE  /\ outcome'.command = command /\ outcome'.args = args
             /\ outcome'.options = CommandArgs(command, args)
  <2>1. CASE command = "scan" /\ Scan(args, target)
    BY <2>1 DEF Scan, Fails, Prints, Ends
  <2>2. CASE command = "check" /\ Check(args, target)
    BY <2>2 DEF Check, Fails, Prints, Ends
  <2>3. CASE command = "diff" /\ Diff(args, target)
    BY <2>3 DEF Diff, Fails, Prints, Ends
  <2>4. CASE command = "explain" /\ Explain(args, target)
    BY <2>4 DEF Explain, Fails, Prints, Ends
  <2>5. CASE command = "report" /\ Report(args, target)
    BY <2>5 DEF Report, Fails, Prints, Ends
  <2>6. CASE command = "bundle" /\ Bundle(args, target)
    BY <2>6 DEF Bundle, Fails, Prints, Ends
  <2>7. CASE HandOver(command, args)
    BY <2>7 DEF HandOver, Ends
  <2>8. CASE RefuseArguments(command, args, target)
    BY <2>8 DEF RefuseArguments, Fails, Ends
  <2> QED BY <1>1, <2>1, <2>2, <2>3, <2>4, <2>5, <2>6, <2>7, <2>8 DEF Run
<1>2. CASE Prompt
  BY <1>2 DEF Prompt
<1>3. CASE ChangeProject
  BY <1>3 DEF ChangeProject, AtPrompt
<1>4. CASE \E s \in Slots : Edit(s)
  BY <1>4 DEF Edit, AtPrompt
<1> QED BY <1>1, <1>2, <1>3, <1>4 DEF Next

\* Every step keeps the property, a check by what it does and the rest by ending it.
LEMMA NextGate == CInv /\ GateExact /\ [Next]_vars => GateExact'
<1> SUFFICES ASSUME CInv, GateExact, [Next]_vars PROVE GateExact'
  OBVIOUS
<1>1. CASE outcome' = Null
  BY <1>1 DEF GateExact, Ran
<1>2. CASE UNCHANGED vars
  <2>1. project' = project /\ file' = file /\ written' = written /\ outcome' = outcome
    BY <1>2 DEF vars
  <2>2. \A option : Value(option)' = Value(option)
    BY <2>1 DEF Value
  <2>3. FileOf("--scan")' = FileOf("--scan")
    BY <2>1, <2>2 DEF FileOf
  <2>4. Vouched("--scan")' <=> Vouched("--scan")
    BY <2>1, <2>2 DEF Vouched
  <2>5. CheckedScan' = CheckedScan
    BY <2>1, <2>3 DEF CheckedScan
  <2>6. CheckedCoverage' = CheckedCoverage
    BY <2>1, <2>4, <2>5 DEF CheckedCoverage
  <2>7. ASSUME NEW pol PROVE PolicyViolated(pol)' <=> PolicyViolated(pol)
    BY <2>5, <2>6 DEF PolicyViolated
  <2>8. PICK pol : pol = Loaded(file, "--policy", Value("--policy"))
    OBVIOUS
  <2>9. pol = Loaded(file', "--policy", Value("--policy")')
    BY <2>1, <2>2, <2>8
  <2>10. /\ Ran("check")' <=> Ran("check")
         /\ Loaded(file', "--scan", Value("--scan")') = Loaded(file, "--scan", Value("--scan"))
    BY <2>1, <2>2 DEF Ran
  <2> QED BY <2>1, <2>7, <2>8, <2>9, <2>10 DEF GateExact
<1>3. ASSUME NEW command \in Commands, NEW call \in Calls(command), Run(command, call[1], call[2]),
             outcome'.command = command, outcome'.options = CommandArgs(command, call[1])
      PROVE  GateExact'
  <2>1. CASE command # "check"
    BY <1>3, <2>1 DEF GateExact, Ran
  <2>2. CASE CommandArgs(command, call[1]) = Refused
    BY <1>3, <2>2 DEF GateExact
  <2>3. CASE command = "check" /\ CommandArgs(command, call[1]) # Refused
    <3>1. Check(call[1], call[2])
      BY <1>3, <2>3 DEF Run, RefuseArguments
    <3>2. call[2] \in Targets("check", call[1])
      BY <2>3 DEF Calls
    <3> QED BY <3>1, <3>2, CheckGate
  <2> QED BY <2>1, <2>2, <2>3
<1> QED BY <1>1, <1>2, <1>3, OutcomeOf

\* A check fails, with exit code 5, exactly when the policy is violated by the exact
\* coverage or a finding, whatever the project, the policy and the files are
\* (runCheckCommand of commands.ts, policy-engine.ts).
THEOREM ChecksAreExact == Spec => []GateExact
<1>1. Init => CInv /\ GateExact
  BY InitCInv DEF Init, GateExact, Ran
<1>2. CInv /\ GateExact /\ [Next]_vars => (CInv /\ GateExact)'
  BY NextCInv, NextGate
<1> QED BY <1>1, <1>2, PTL DEF Spec

-----------------------------------------------------------------------------
(* what a diff lists *)

\* What was removed and what was added accounts for the difference of two sets.
LEMMA KeysBecome ==
  ASSUME NEW b, NEW h, DOMAIN b \in SUBSET Nat, IsFiniteSet(DOMAIN b),
         DOMAIN h \in SUBSET Nat, IsFiniteSet(DOMAIN h)
  PROVE  Becomes(DOMAIN b, Removed(b, h), Added(b, h), DOMAIN h)
<1>1. /\ DOMAIN b \ DOMAIN h \in SUBSET Nat /\ IsFiniteSet(DOMAIN b \ DOMAIN h)
      /\ DOMAIN h \ DOMAIN b \in SUBSET Nat /\ IsFiniteSet(DOMAIN h \ DOMAIN b)
  BY FS_Subset
<1>2. /\ ToSet(Removed(b, h)) = DOMAIN b \ DOMAIN h
      /\ ToSet(Added(b, h)) = DOMAIN h \ DOMAIN b
  BY <1>1, SortedSet DEF Removed, Added
<1> QED BY <1>2 DEF Becomes

\* The changes of the values of two maps.
LEMMA ChangesTurn ==
  ASSUME NEW from, NEW to, DOMAIN from \in SUBSET Nat, IsFiniteSet(DOMAIN from),
         NEW key \in {"anchor_id", "path"}
  PROVE  LET changes == RenderChanges(Changes(from, to, key), key)
             Of(k) == {i \in DOMAIN changes : changes[i][key] = k}
         IN  \A k \in DOMAIN from \intersect DOMAIN to :
               \/ Of(k) = {} /\ from[k] = to[k]
               \/ \E i \in DOMAIN changes :
                    /\ Of(k) = {i}
                    /\ changes[i].from = from[k] /\ changes[i].to = to[k]
                    /\ changes[i].from # changes[i].to
<1> DEFINE changed == {k \in DOMAIN from \intersect DOMAIN to : from[k] # to[k]}
           list == Sorted(changed)
           changes == RenderChanges(Changes(from, to, key), key)
           Of(k) == {i \in DOMAIN changes : changes[i][key] = k}
<1>1. /\ ToSet(list) = changed
      /\ \A i, j \in DOMAIN list : list[i] = list[j] => i = j
  <2>1. changed \in SUBSET Nat /\ IsFiniteSet(changed)
    <3>1. changed \in SUBSET (DOMAIN from)
      OBVIOUS
    <3> HIDE DEF changed
    <3> QED BY <3>1, FS_Subset
  <2> HIDE DEF changed
  <2> QED BY <2>1, SortedSet
<1>2. DOMAIN changes = DOMAIN list
  BY DEF RenderChanges, Changes, Each
<1>3. \A i \in DOMAIN list : /\ changes[i][key] = list[i]
                             /\ changes[i].from = from[list[i]] /\ changes[i].to = to[list[i]]
  <2> TAKE i \in DOMAIN list
  <2> DEFINE record == [field \in {key, "from", "to"} |->
                          CASE field = "from" -> from[list[i]] [] field = "to" -> to[list[i]]
                            [] OTHER -> list[i]]
  <2>1. Changes(from, to, key)[i] = record
    BY DEF Changes, Each
  <2>2. i \in DOMAIN Changes(from, to, key)
    BY DEF Changes, Each
  <2>3. changes[i] = Object(Changes(from, to, key)[i], {key, "from", "to"})
    BY <2>2 DEF RenderChanges, Each
  <2>4. changes[i] = [field \in {key, "from", "to"} |-> record[field]]
    BY <2>1, <2>3 DEF Object
  <2> HIDE DEF changes, list
  <2> QED BY <2>4
<1> HIDE DEF changes
<1>4. ASSUME NEW k \in DOMAIN from \intersect DOMAIN to
      PROVE  \/ Of(k) = {} /\ from[k] = to[k]
             \/ \E i \in DOMAIN changes :
                  /\ Of(k) = {i}
                  /\ changes[i].from = from[k] /\ changes[i].to = to[k]
                  /\ changes[i].from # changes[i].to
  <2> HIDE DEF list
  <2>1. CASE k \in changed
    <3>1. PICK i \in DOMAIN list : list[i] = k
      BY <1>1, <2>1 DEF ToSet
    <3>2. Of(k) = {i}
      BY <1>1, <1>2, <1>3, <3>1
    <3> QED BY <1>2, <1>3, <2>1, <3>1, <3>2
  <2>2. CASE k \notin changed
    <3>1. \A i \in DOMAIN list : list[i] # k
      BY <1>1, <2>2 DEF ToSet
    <3> QED BY <1>2, <1>3, <2>2, <3>1
  <2> QED BY <2>1, <2>2
<1> QED BY <1>4 DEF changes

\* The files of two scans, those of them that are covered, and where these differ.
Parts(b, h, cb, ch, new, gone, became, lost) ==
  /\ b \in SUBSET Nat /\ IsFiniteSet(b) /\ h \in SUBSET Nat /\ IsFiniteSet(h)
  /\ cb \in SUBSET b /\ ch \in SUBSET h
  /\ new = ch \intersect (h \ b) /\ gone = cb \intersect (b \ h)
  /\ became = (b \ cb) \intersect ch /\ lost = cb \intersect (h \ ch)

\* A file is counted among those of both scans once, and as lost or covered anew if
\* it was covered in one of them only.
LEMMA CoverageAdds ==
  ASSUME NEW b, NEW h, NEW cb, NEW ch, NEW new, NEW gone, NEW became, NEW lost,
         Parts(b, h, cb, ch, new, gone, became, lost)
  PROVE  Cardinality(ch) - Cardinality(cb) =
           Cardinality(new) - Cardinality(gone) + Len(Sorted(became)) - Len(Sorted(lost))
<1>0. /\ cb \in SUBSET b /\ ch \in SUBSET h
      /\ b \in SUBSET Nat /\ IsFiniteSet(b) /\ h \in SUBSET Nat /\ IsFiniteSet(h)
      /\ new = ch \intersect (h \ b) /\ gone = cb \intersect (b \ h)
      /\ became = (b \ cb) \intersect ch /\ lost = cb \intersect (h \ ch)
  BY DEF Parts
<1> DEFINE both == cb \intersect ch
<1>1. /\ IsFiniteSet(new) /\ IsFiniteSet(gone) /\ IsFiniteSet(became) /\ IsFiniteSet(lost)
      /\ IsFiniteSet(both)
  <2>1. new \in SUBSET h /\ gone \in SUBSET b /\ became \in SUBSET b /\ lost \in SUBSET b
        /\ both \in SUBSET b
    BY <1>0
  <2> HIDE DEF both
  <2> QED BY <1>0, <2>1, FS_Subset
<1>2. /\ ch = (new \union became) \union both /\ cb = (gone \union lost) \union both
      /\ new \intersect became = {} /\ (new \union became) \intersect both = {}
      /\ gone \intersect lost = {} /\ (gone \union lost) \intersect both = {}
  BY <1>0
<1>3. became \in SUBSET Nat /\ lost \in SUBSET Nat
  BY <1>0
<1> HIDE DEF both
<1>4. ASSUME NEW S, NEW T, IsFiniteSet(S), IsFiniteSet(T), S \intersect T = {}
      PROVE  /\ IsFiniteSet(S \union T)
             /\ Cardinality(S \union T) = Cardinality(S) + Cardinality(T)
  <2>1. /\ IsFiniteSet(S \union T)
        /\ Cardinality(S \union T) = Cardinality(S) + Cardinality(T) - Cardinality(S \intersect T)
    BY <1>4, FS_Union
  <2>2. Cardinality(S \intersect T) = 0
    BY <1>4, FS_EmptySet
  <2>3. Cardinality(S) \in Nat /\ Cardinality(T) \in Nat
    BY <1>4, FS_CardinalityType
  <2> QED BY <2>1, <2>2, <2>3
<1>5. /\ IsFiniteSet(new \union became)
      /\ Cardinality(new \union became) = Cardinality(new) + Cardinality(became)
  BY <1>1, <1>2, <1>4
<1>6. Cardinality(ch) = Cardinality(new \union became) + Cardinality(both)
  BY <1>1, <1>2, <1>4, <1>5
<1>7. /\ IsFiniteSet(gone \union lost)
      /\ Cardinality(gone \union lost) = Cardinality(gone) + Cardinality(lost)
  BY <1>1, <1>2, <1>4
<1>8. Cardinality(cb) = Cardinality(gone \union lost) + Cardinality(both)
  BY <1>1, <1>2, <1>4, <1>7
<1>9. Len(Sorted(became)) = Cardinality(became) /\ Len(Sorted(lost)) = Cardinality(lost)
  BY <1>1, <1>3, SortedSet
<1>10. /\ Cardinality(new) \in Nat /\ Cardinality(gone) \in Nat /\ Cardinality(became) \in Nat
       /\ Cardinality(lost) \in Nat /\ Cardinality(both) \in Nat
  BY <1>1, FS_CardinalityType
<1>11. Cardinality(ch) - Cardinality(cb) =
         Cardinality(new) - Cardinality(gone) + Len(Sorted(became)) - Len(Sorted(lost))
  <2>1. \A x, y, z, u, v \in Nat : (x + y + v) - (z + u + v) = x - z + y - u
    OBVIOUS
  <2>2. /\ Cardinality(ch) = Cardinality(new) + Cardinality(became) + Cardinality(both)
        /\ Cardinality(cb) = Cardinality(gone) + Cardinality(lost) + Cardinality(both)
    BY <1>5, <1>6, <1>7, <1>8
  <2> QED BY <1>9, <1>10, <2>1, <2>2
<1> QED BY <1>11
-----------------------------------------------------------------------------
(* the order of findings *)

\* The order of lists of numbers, as compareFindings has it.
TupleBefore(s, t) ==
  \E k \in DOMAIN t :
    /\ \A i \in 1..(k - 1) : i \in DOMAIN s /\ s[i] = t[i]
    /\ k \notin DOMAIN s \/ s[k] < t[k]

\* Findings are compared as tuples of ranks.
Tuples == Seq(Nat)

\* That order is a strict one: of two different tuples one comes before the other.
LEMMA TupleOrder ==
  /\ \A s \in Tuples : ~TupleBefore(s, s)
  /\ \A s, t \in Tuples : TupleBefore(s, t) \/ TupleBefore(t, s) \/ s = t
  /\ \A s, t, u \in Tuples : TupleBefore(s, t) /\ TupleBefore(t, u) => TupleBefore(s, u)
<1>1. ASSUME NEW s \in Tuples
      PROVE  \E n \in Nat : /\ DOMAIN s = 1..n /\ s = [i \in 1..n |-> s[i]]
                            /\ \A i \in 1..n : s[i] \in Nat
  <2>1. Len(s) \in Nat /\ s \in [1..Len(s) -> Nat]
    BY DEF Tuples
  <2> QED BY <2>1
<1>2. ASSUME NEW s \in Tuples PROVE ~TupleBefore(s, s)
  <2>1. PICK n \in Nat : DOMAIN s = 1..n /\ \A i \in 1..n : s[i] \in Nat
    BY <1>1
  <2> QED BY <2>1 DEF TupleBefore
<1>3. ASSUME NEW s \in Tuples, NEW t \in Tuples, ~TupleBefore(s, t), ~TupleBefore(t, s)
      PROVE  s = t
  <2>1. PICK m \in Nat : /\ DOMAIN s = 1..m /\ s = [i \in 1..m |-> s[i]]
                         /\ \A i \in 1..m : s[i] \in Nat
    BY <1>1
  <2>2. PICK n \in Nat : /\ DOMAIN t = 1..n /\ t = [i \in 1..n |-> t[i]]
                         /\ \A i \in 1..n : t[i] \in Nat
    BY <1>1
  <2> DEFINE Differ == {k \in Nat : /\ k \in 1..m \/ k \in 1..n
                                    /\ ~(k \in 1..m /\ k \in 1..n /\ s[k] = t[k])}
  <2>3. Differ = {}
    <3> SUFFICES ASSUME Differ # {} PROVE FALSE
      OBVIOUS
    <3>1. PICK k \in Differ : \A i \in Differ : k <= i
      <4>1. Differ \in SUBSET Nat
        OBVIOUS
      <4> HIDE DEF Differ
      <4>2. \E k \in Differ : ~ \E i \in Differ : <<i, k>> \in OpToRel(<, Nat)
        BY <4>1, NatLessThanWellFounded, WFMin
      <4>3. PICK k \in Differ : ~ \E i \in Differ : <<i, k>> \in OpToRel(<, Nat)
        BY <4>2
      <4>4. \A i \in Differ : ~(i < k)
        BY <4>1, <4>3 DEF OpToRel
      <4> QED BY <4>1, <4>4
    <3>2. \A i \in 1..(k - 1) : i \in 1..m /\ i \in 1..n /\ s[i] = t[i]
      <4> TAKE i \in 1..(k - 1)
      <4>1. i \in Nat /\ i \notin Differ /\ k \in Nat
        BY <3>1
      <4>2. i \in 1..m \/ i \in 1..n
        <5>1. k \in 1..m \/ k \in 1..n
          BY <3>1
        <5> QED BY <4>1, <5>1, <2>1, <2>2
      <4> QED BY <4>1, <4>2
    <3>3. CASE k \in 1..n
      <4>1. k \in 1..m /\ ~(s[k] < t[k])
        BY <1>3, <2>1, <2>2, <3>2, <3>3 DEF TupleBefore
      <4>2. t[k] < s[k]
        BY <2>1, <2>2, <3>1, <3>3, <4>1
      <4> QED BY <1>3, <2>1, <2>2, <3>2, <4>1, <4>2 DEF TupleBefore
    <3>4. CASE k \notin 1..n
      <4>1. k \in 1..m
        BY <3>1, <3>4
      <4> QED BY <1>3, <2>1, <2>2, <3>2, <3>4, <4>1 DEF TupleBefore
    <3> QED BY <3>3, <3>4
  <2>4. \A k \in Nat : k \in 1..m \/ k \in 1..n => k \in 1..m /\ k \in 1..n /\ s[k] = t[k]
    BY <2>3
  <2> HIDE DEF Differ
  <2>5. m = n
    <3>1. ~(m < n)
      <4> SUFFICES ASSUME m < n PROVE FALSE
        OBVIOUS
      <4>1. n \in 1..n /\ n \notin 1..m
        OBVIOUS
      <4> QED BY <2>4, <4>1
    <3>2. ~(n < m)
      <4> SUFFICES ASSUME n < m PROVE FALSE
        OBVIOUS
      <4>1. m \in 1..m /\ m \notin 1..n
        OBVIOUS
      <4> QED BY <2>4, <4>1
    <3> QED BY <3>1, <3>2
  <2>6. \A i \in 1..m : s[i] = t[i]
    BY <2>4
  <2>7. [i \in 1..m |-> s[i]] = [i \in 1..n |-> t[i]]
    BY <2>5, <2>6
  <2> QED BY <2>1, <2>2, <2>7
<1>4. ASSUME NEW s \in Tuples, NEW t \in Tuples, NEW u \in Tuples,
             TupleBefore(s, t), TupleBefore(t, u)
      PROVE  TupleBefore(s, u)
  <2>1. PICK m \in Nat : DOMAIN s = 1..m /\ \A i \in 1..m : s[i] \in Nat
    BY <1>1
  <2>2. PICK n \in Nat : DOMAIN t = 1..n /\ \A i \in 1..n : t[i] \in Nat
    BY <1>1
  <2>3. PICK l \in Nat : DOMAIN u = 1..l /\ \A i \in 1..l : u[i] \in Nat
    BY <1>1
  <2>4. PICK j \in 1..n : /\ \A i \in 1..(j - 1) : i \in 1..m /\ s[i] = t[i]
                          /\ j \notin 1..m \/ s[j] < t[j]
    BY <1>4, <2>1, <2>2 DEF TupleBefore
  <2>5. PICK k \in 1..l : /\ \A i \in 1..(k - 1) : i \in 1..n /\ t[i] = u[i]
                          /\ k \notin 1..n \/ t[k] < u[k]
    BY <1>4, <2>2, <2>3 DEF TupleBefore
  <2>6. CASE j < k
    <3>1. j \in 1..(k - 1) /\ j \in 1..l
      BY <2>6
    <3>2. t[j] = u[j]
      BY <2>5, <3>1
    <3>3. \A i \in 1..(j - 1) : i \in 1..m /\ s[i] = u[i]
      <4> TAKE i \in 1..(j - 1)
      <4>1. i \in 1..(k - 1)
        BY <2>6
      <4> QED BY <2>4, <2>5, <4>1
    <3>4. j \notin 1..m \/ s[j] < u[j]
      BY <2>4, <3>2
    <3> QED BY <2>1, <2>3, <3>1, <3>3, <3>4 DEF TupleBefore
  <2>7. CASE k < j
    <3>1. k \in 1..(j - 1) /\ k \in 1..n
      BY <2>7
    <3>2. k \in 1..m /\ s[k] = t[k] /\ t[k] < u[k]
      BY <2>4, <2>5, <3>1
    <3>3. \A i \in 1..(k - 1) : i \in 1..m /\ s[i] = u[i]
      <4> TAKE i \in 1..(k - 1)
      <4>1. i \in 1..(j - 1)
        BY <2>7
      <4> QED BY <2>4, <2>5, <4>1
    <3> QED BY <2>1, <2>3, <3>2, <3>3 DEF TupleBefore
  <2>8. CASE j = k
    <3>1. \A i \in 1..(k - 1) : i \in 1..m /\ s[i] = u[i]
      BY <2>4, <2>5, <2>8
    <3>2. t[k] < u[k]
      BY <2>5, <2>8
    <3>3. k \notin 1..m \/ s[k] < u[k]
      <4> SUFFICES ASSUME k \in 1..m PROVE s[k] < u[k]
        OBVIOUS
      <4>1. s[k] < t[k] /\ s[k] \in Nat /\ t[k] \in Nat /\ u[k] \in Nat
        BY <2>1, <2>2, <2>3, <2>4, <2>8
      <4> QED BY <3>2, <4>1
    <3> QED BY <2>1, <2>3, <3>1, <3>3 DEF TupleBefore
  <2> QED BY <2>6, <2>7, <2>8
<1> QED BY <1>2, <1>3, <1>4

\* What is known of a finding that was read.
LEMMA ReadFinding ==
  ASSUME NEW f, OneOf(f, FindingFields)
  PROVE  RenderFinding(f) = f /\ FindingTuple(f) \in Tuples
<1>1. /\ f.kind \in DOMAIN FindingFields
      /\ DOMAIN f = DOMAIN FindingFields[f.kind] /\ f = [key \in DOMAIN f |-> f[key]]
      /\ \A key \in DOMAIN FindingFields[f.kind] : Leaf(FindingFields[f.kind][key], f[key])
  BY DEF OneOf, Exact, IsObject
<1>2. Rank(f.kind) \in Nat
  <2>1. \E k \in DOMAIN FindingKinds : FindingKinds[k] = f.kind
    BY <1>1 DEF FindingFields, FindingKinds
  <2>2. DOMAIN FindingKinds \subseteq Nat
    BY DEF FindingKinds
  <2> QED BY <2>1, <2>2 DEF Rank
<1>3. \A a, b, c, d \in Nat :
        /\ <<a>> \o <<b>> \in Tuples
        /\ <<a>> \o <<b, c>> \in Tuples
        /\ <<a>> \o <<b, c, d>> \in Tuples
  BY DEF Tuples
<1>4. \A v : /\ Leaf("anchor", v) => v \in Nat
             /\ Leaf("path", v) => v \in Nat
             /\ Leaf("text", v) => v \in Nat
  BY ArtifactsAssumption DEF Leaf
<1>5. CASE f.kind \in {"unmapped_anchor", "stale_mapping_anchor"}
  <2>1. DOMAIN f = {"kind", "anchor_id"} /\ f.anchor_id \in Nat
    BY <1>1, <1>4, <1>5 DEF FindingFields
  <2>2. FindingTuple(f) = <<Rank(f.kind)>> \o <<f.anchor_id>>
    BY <1>5 DEF FindingTuple
  <2>3. RenderFinding(f) = [key \in DOMAIN f |-> f[key]]
    BY <1>5, <2>1 DEF RenderFinding, Object
  <2> QED BY <1>1, <1>2, <1>3, <2>1, <2>2, <2>3
<1>6. CASE f.kind = "broken_seed_path"
  <2>1. DOMAIN f = {"kind", "anchor_id", "seed_path"} /\ f.anchor_id \in Nat /\ f.seed_path \in Nat
    BY <1>1, <1>4, <1>6 DEF FindingFields
  <2>2. FindingTuple(f) = <<Rank(f.kind)>> \o <<f.anchor_id, f.seed_path>>
    BY <1>6 DEF FindingTuple
  <2>3. RenderFinding(f) = [key \in DOMAIN f |-> f[key]]
    BY <1>6, <2>1 DEF RenderFinding, Object
  <2>4. <<Rank(f.kind)>> \o <<f.anchor_id, f.seed_path>> \in Tuples
    BY <1>2, <1>3, <2>1
  <2> QED BY <1>1, <2>2, <2>3, <2>4
<1>7. CASE f.kind = "unresolved_static_edge"
  <2>1. DOMAIN f = {"kind", "importer", "specifier"} /\ f.importer \in Nat /\ f.specifier \in Nat
    BY <1>1, <1>4, <1>7 DEF FindingFields
  <2>2. FindingTuple(f) = <<Rank(f.kind)>> \o <<f.importer, f.specifier>>
    BY <1>7 DEF FindingTuple
  <2>3. RenderFinding(f) = [key \in DOMAIN f |-> f[key]]
    BY <1>7, <2>1 DEF RenderFinding, Object
  <2>4. <<Rank(f.kind)>> \o <<f.importer, f.specifier>> \in Tuples
    BY <1>2, <1>3, <2>1
  <2> QED BY <1>1, <2>2, <2>3, <2>4
<1>8. CASE f.kind = "unsupported_static_edge"
  <2>1. /\ DOMAIN f = {"kind", "importer", "syntax_kind", "specifier"}
        /\ f.importer \in Nat /\ f.specifier \in Nat
    BY <1>1, <1>4, <1>8 DEF FindingFields
  <2> DEFINE syntax == IF f.syntax_kind = "dynamic_import" THEN 1 ELSE 2
  <2>2. FindingTuple(f) = <<Rank(f.kind)>> \o <<f.importer, syntax, f.specifier>>
    BY <1>8 DEF FindingTuple
  <2>3. RenderFinding(f) = [key \in DOMAIN f |-> f[key]]
    BY <1>8, <2>1 DEF RenderFinding, Object
  <2>4. syntax \in Nat
    OBVIOUS
  <2> HIDE DEF syntax
  <2>5. <<Rank(f.kind)>> \o <<f.importer, syntax, f.specifier>> \in Tuples
    BY <1>2, <1>3, <2>1, <2>4
  <2> QED BY <1>1, <2>2, <2>3, <2>5
<1>9. CASE f.kind \in {"out_of_scope_static_edge", "unsupported_local_target"}
  <2>1. /\ DOMAIN f = {"kind", "importer", "target_path"}
        /\ f.importer \in Nat /\ f.target_path \in Nat
    BY <1>1, <1>4, <1>9 DEF FindingFields
  <2>2. FindingTuple(f) = <<Rank(f.kind)>> \o <<f.importer, f.target_path>>
    BY <1>9 DEF FindingTuple
  <2>3. RenderFinding(f) = [key \in DOMAIN f |-> f[key]]
    BY <1>9, <2>1 DEF RenderFinding, Object
  <2>4. <<Rank(f.kind)>> \o <<f.importer, f.target_path>> \in Tuples
    BY <1>2, <1>3, <2>1
  <2> QED BY <1>1, <2>2, <2>3, <2>4
<1>10. CASE f.kind = "untraced_product_file"
  <2>1. DOMAIN f = {"kind", "path"} /\ f.path \in Nat
    BY <1>1, <1>4, <1>10 DEF FindingFields
  <2>2. FindingTuple(f) = <<Rank(f.kind)>> \o <<f.path>>
    BY <1>10 DEF FindingTuple
  <2>3. RenderFinding(f) = [key \in DOMAIN f |-> f[key]]
    BY <1>10, <2>1 DEF RenderFinding, Object
  <2> QED BY <1>1, <1>2, <1>3, <2>1, <2>2, <2>3
<1> QED BY <1>1, <1>5, <1>6, <1>7, <1>8, <1>9, <1>10 DEF FindingFields

\* What stands at all the places of a list, in some order, is what stands in the list.
LEMMA PlacesKeep ==
  ASSUME NEW n \in Nat, NEW seq, DOMAIN seq = 1..n, NEW R, StrictOrder(1..n, R),
         NEW places, InRank(places, 1..n, R)
  PROVE  LET list == [k \in 1..Cardinality(1..n) |-> seq[places[k]]]
         IN  IsList(list) /\ ToSet(list) = ToSet(seq)
<1> DEFINE D == 1..n
           m == Cardinality(D)
           list == [k \in 1..m |-> seq[places[k]]]
<1>1. IsFiniteSet(D) /\ m \in Nat
  BY Initial, FS_CardinalityType
<1>2. \A i \in D : \E k \in 1..m : places[k] = i
  <2>1. StrictOrder(D, R) /\ InRank(places, D, R)
    OBVIOUS
  <2> HIDE DEF D
  <2> QED BY <1>1, <2>1, InRankFacts
<1>3. \A k \in 1..m : places[k] \in D
  BY DEF InRank
<1>4. IsList(list)
  <2>1. list = [k \in 1..m |-> list[k]]
    OBVIOUS
  <2> HIDE DEF list, m
  <2> QED BY <1>1, <2>1, Listed
<1>5. ToSet(list) = {seq[places[k]] : k \in 1..m}
  BY DEF ToSet
<1>6. ToSet(seq) = {seq[i] : i \in D}
  BY DEF ToSet
<1> HIDE DEF list, m, D
<1>7. ASSUME NEW x \in ToSet(seq) PROVE x \in ToSet(list)
  BY <1>2, <1>5, <1>6
<1>8. ASSUME NEW x \in ToSet(list) PROVE x \in ToSet(seq)
  BY <1>3, <1>5, <1>6
<1> QED BY <1>4, <1>7, <1>8 DEF list, m, D

\* Putting findings in order keeps them all.
LEMMA OrderedFindings ==
  ASSUME NEW found, IsList(found), \A k \in DOMAIN found : OneOf(found[k], FindingFields)
  PROVE  /\ IsList(OrderedBy(found, compareFindings))
         /\ ToSet(OrderedBy(found, compareFindings)) = ToSet(found)
<1> DEFINE n == Len(found)
           D == 1..n
           Precedes(i, j) == compareFindings(found[i], found[j])
                             \/ (~compareFindings(found[j], found[i]) /\ i < j)
           R == {pair \in D \X D : Precedes(pair[1], pair[2])}
           tuple == [i \in D |-> FindingTuple(found[i])]
           places == [k \in 1..Cardinality(D) |->
                        CHOOSE x \in D : Cardinality({y \in D : Precedes(y, x)}) = k - 1]
<1>1. n \in Nat /\ DOMAIN found = D
  BY DEF IsList
<1>2. IsFiniteSet(D)
  BY <1>1, Initial
<1>3. \A i \in D : tuple[i] \in Tuples
  BY <1>1, ReadFinding
<1>4. \A i, j \in D : compareFindings(found[i], found[j]) <=> TupleBefore(tuple[i], tuple[j])
  BY DEF compareFindings, TupleBefore
<1>5. StrictOrder(D, R)
  <2>1. \A i, j \in D : <<i, j>> \in R <=> \/ TupleBefore(tuple[i], tuple[j])
                                           \/ (~TupleBefore(tuple[j], tuple[i]) /\ i < j)
    BY <1>4
  <2>2. \A i \in D : <<i, i>> \notin R
    BY <1>1, <1>3, <2>1, TupleOrder
  <2> HIDE DEF R, tuple
  <2>3. \A i, j \in D : i = j \/ <<i, j>> \in R \/ <<j, i>> \in R
    <3> TAKE i, j \in D
    <3>1. i = j \/ i < j \/ j < i
      BY <1>1
    <3> HIDE DEF D
    <3> QED BY <2>1, <3>1
  <2>4. ASSUME NEW i \in D, NEW j \in D, NEW k \in D, <<i, j>> \in R, <<j, k>> \in R
        PROVE  <<i, k>> \in R
    <3>1. \A x, y \in D : <<x, y>> \in R <=> \/ TupleBefore(tuple[x], tuple[y])
                                             \/ (tuple[x] = tuple[y] /\ x < y)
      <4> TAKE x, y \in D
      <4>1. /\ TupleBefore(tuple[x], tuple[y]) \/ TupleBefore(tuple[y], tuple[x]) \/ tuple[x] = tuple[y]
            /\ ~TupleBefore(tuple[y], tuple[y])
        BY <1>3, TupleOrder
      <4> QED BY <2>1, <4>1
    <3>2. (TupleBefore(tuple[i], tuple[j]) /\ TupleBefore(tuple[j], tuple[k]))
            => TupleBefore(tuple[i], tuple[k])
      BY <1>3, TupleOrder
    <3>3. (i < j /\ j < k) => i < k
      BY <1>1
    <3> QED BY <2>4, <3>1, <3>2, <3>3
  <2> QED BY <2>2, <2>3, <2>4 DEF StrictOrder
<1>6. \A x \in D : Below(D, R, x) = {y \in D : Precedes(y, x)}
  BY DEF Below
<1>7. /\ Cardinality(D) \in Nat
      /\ \A k \in 1..Cardinality(D) : \E x \in D : Cardinality({y \in D : Precedes(y, x)}) = k - 1
  <2>1. /\ Cardinality(D) \in Nat
        /\ \A k \in 1..Cardinality(D) : \E x \in D : Cardinality(Below(D, R, x)) = k - 1
    <3> HIDE DEF D, R
    <3> QED BY <1>2, <1>5, Ranks
  <2> QED BY <1>6, <2>1
<1>8. \A k \in 1..Cardinality(D) :
        places[k] \in D /\ Cardinality({y \in D : Precedes(y, places[k])}) = k - 1
  BY <1>7
<1>9. InRank(places, D, R)
  <2>1. places \in [1..Cardinality(D) -> D]
    BY <1>8
  <2> QED BY <1>6, <1>8, <2>1 DEF InRank
<1>10. OrderedBy(found, compareFindings) = [k \in 1..Cardinality(D) |-> found[places[k]]]
  BY <1>1 DEF OrderedBy, SortedBy, At
<1> HIDE DEF places, R
<1> QED BY <1>1, <1>5, <1>9, <1>10, PlacesKeep

\* The findings of one list that the other does not have, as they are and as they are
\* written.
LEMMA FindingsWithout ==
  ASSUME NEW s, AreFindings(s), NEW other
  PROVE  LET list == diffFindings(other, s).added
         IN  /\ diffFindings(s, other).removed = list
             /\ IsList(list) /\ \A k \in DOMAIN list : OneOf(list[k], FindingFields)
             /\ ToSet(Each(list, RenderFinding)) = ToSet(s) \ ToSet(other)
<1> DEFINE P == {k \in DOMAIN s : s[k] \notin ToSet(other)}
           n == Cardinality(P)
           kept == At(s, Sorted(P))
           list == OrderedBy(kept, compareFindings)
<1>1. IsList(s) /\ \A k \in DOMAIN s : OneOf(s[k], FindingFields)
  BY DEF AreFindings, IsArray
<1>2. P \in SUBSET Nat /\ IsFiniteSet(P)
  <2>1. P \in SUBSET (1..Len(s)) /\ Len(s) \in Nat
    BY <1>1 DEF IsList
  <2>2. IsFiniteSet(1..Len(s))
    BY <2>1, Initial
  <2> HIDE DEF P
  <2>3. IsFiniteSet(P)
    BY <2>1, <2>2, FS_Subset
  <2>4. P \in SUBSET Nat
    BY <2>1
  <2> QED BY <2>3, <2>4
<1>3. /\ IsList(kept) /\ DOMAIN kept = 1..n
      /\ \A k \in 1..n : \E i \in P : kept[k] = s[i]
      /\ \A i \in P : \E k \in 1..n : kept[k] = s[i]
  <2> HIDE DEF P
  <2> QED BY <1>2, AtPlaces
<1> HIDE DEF kept
<1>4. \A k \in DOMAIN kept : OneOf(kept[k], FindingFields)
  BY <1>1, <1>3
<1>5. ToSet(kept) = ToSet(s) \ ToSet(other)
  <2>1. ASSUME NEW x \in ToSet(kept) PROVE x \in ToSet(s) \ ToSet(other)
    <3>1. PICK k \in 1..n : x = kept[k]
      BY <1>3 DEF ToSet
    <3>2. PICK i \in P : x = s[i]
      BY <1>3, <3>1
    <3> QED BY <3>2 DEF ToSet
  <2>2. ASSUME NEW x \in ToSet(s) \ ToSet(other) PROVE x \in ToSet(kept)
    <3>1. PICK i \in DOMAIN s : x = s[i]
      BY DEF ToSet
    <3>2. i \in P
      BY <3>1
    <3>3. PICK k \in 1..n : kept[k] = x
      BY <1>3, <3>1, <3>2
    <3> QED BY <1>3, <3>3 DEF ToSet
  <2> QED BY <2>1, <2>2
<1>6. IsList(list) /\ ToSet(list) = ToSet(kept)
  BY <1>3, <1>4, OrderedFindings
<1> HIDE DEF list
<1>10. \A k \in DOMAIN list : OneOf(list[k], FindingFields)
  <2> TAKE k \in DOMAIN list
  <2>1. PICK i \in DOMAIN kept : list[k] = kept[i]
    BY <1>6 DEF ToSet
  <2> QED BY <1>4, <2>1
<1>7. \A x \in ToSet(list) : RenderFinding(x) = x
  <2> TAKE x \in ToSet(list)
  <2>1. PICK k \in DOMAIN kept : x = kept[k]
    BY <1>6 DEF ToSet
  <2> QED BY <1>4, <2>1, ReadFinding
<1>8. ToSet(Each(list, RenderFinding)) = ToSet(list)
  <2>1. \A k \in DOMAIN list : RenderFinding(list[k]) = list[k]
    BY <1>7 DEF ToSet
  <2>2. DOMAIN Each(list, RenderFinding) = DOMAIN list
    BY DEF Each
  <2>3. \A k \in DOMAIN list : Each(list, RenderFinding)[k] = list[k]
    BY <2>1 DEF Each
  <2> QED BY <2>2, <2>3 DEF ToSet
<1>9. diffFindings(other, s).added = list /\ diffFindings(s, other).removed = list
  BY DEF diffFindings, Select, kept, list
<1> QED BY <1>5, <1>6, <1>8, <1>9, <1>10

-----------------------------------------------------------------------------
(* the diff of two scans *)

\* The keys of the parts of a scan that was read, and its counters.
LEMMA ReadKeys ==
  ASSUME NEW j, IsScan(j)
  PROVE  /\ DOMAIN j.observed_anchors \in SUBSET Nat /\ IsFiniteSet(DOMAIN j.observed_anchors)
         /\ DOMAIN j.stored_mappings \in SUBSET Nat /\ IsFiniteSet(DOMAIN j.stored_mappings)
         /\ DOMAIN j.files \in SUBSET Nat /\ IsFiniteSet(DOMAIN j.files)
         /\ AreFindings(j.findings)
         /\ \A field \in SummaryFields : j.traceability_metrics.summary[field] \in Nat
<1>1. /\ DOMAIN j.observed_anchors \subseteq Anchors /\ IsFiniteSet(DOMAIN j.observed_anchors)
      /\ DOMAIN j.stored_mappings \subseteq Anchors /\ IsFiniteSet(DOMAIN j.stored_mappings)
      /\ DOMAIN j.files \subseteq Paths /\ IsFiniteSet(DOMAIN j.files)
  BY DEF IsScan, AreObservedAnchors, AreStoredMappings, AreFiles, MapOf, IsObject
<1>2. AreFindings(j.findings)
  BY DEF IsScan
<1>3. \A field \in SummaryFields : j.traceability_metrics.summary[field] \in Nat
  <2>1. Exact(j.traceability_metrics.summary, Counted(SummaryFields, "count"))
    BY DEF IsScan, AreMetrics
  <2>2. \A field \in SummaryFields : Leaf("count", j.traceability_metrics.summary[field])
    BY <2>1 DEF Exact, Counted
  <2>3. \A v : Leaf("count", v) => v \in Nat
    BY DEF Leaf
  <2> QED BY <2>2, <2>3
<1> QED BY <1>1, <1>2, <1>3, ArtifactsAssumption

\* The parts of a diff as it is written.
LEMMA DiffParts ==
  ASSUME NEW b, NEW h
  PROVE  LET d == RenderDiff(diffScanResults(b, h))
             diff == diffFindings(b.findings, h.findings)
             before == b.traceability_metrics.summary
             after  == h.traceability_metrics.summary
         IN  /\ d.anchors.removed = Removed(b.observed_anchors, h.observed_anchors)
             /\ d.anchors.added = Added(b.observed_anchors, h.observed_anchors)
             /\ d.anchors.mapping_state_changed =
                  RenderChanges(Changes(FieldOf(b.observed_anchors, "mapping_state"),
                                        FieldOf(h.observed_anchors, "mapping_state"), "anchor_id"),
                                "anchor_id")
             /\ d.mappings.removed = Removed(b.stored_mappings, h.stored_mappings)
             /\ d.mappings.added = Added(b.stored_mappings, h.stored_mappings)
             /\ d.mappings.state_changed =
                  RenderChanges(Changes(FieldOf(b.stored_mappings, "state"),
                                        FieldOf(h.stored_mappings, "state"), "anchor_id"),
                                "anchor_id")
             /\ d.files.removed = Removed(b.files, h.files)
             /\ d.files.added = Added(b.files, h.files)
             /\ d.files.became_covered = changedCoverage(Uncovered(b.files), Covered(h.files))
             /\ d.files.lost_coverage = changedCoverage(Covered(b.files), Uncovered(h.files))
             /\ d.files.covering_anchor_ids_changed =
                  RenderChanges(Changes(Lists(b.files, "covering_anchor_ids"),
                                        Lists(h.files, "covering_anchor_ids"), "path"), "path")
             /\ d.files.supported_local_targets_changed =
                  RenderChanges(Changes(Lists(b.files, "supported_local_targets"),
                                        Lists(h.files, "supported_local_targets"), "path"), "path")
             /\ d.findings.removed = Each(diff.removed, RenderFinding)
             /\ d.findings.added = Each(diff.added, RenderFinding)
             /\ \A field \in SummaryFields : d.metrics_delta[field] = after[field] - before[field]
<1> DEFINE v == diffScanResults(b, h)
           d == RenderDiff(v)
<1>1. /\ v.anchors.removed = Removed(b.observed_anchors, h.observed_anchors)
      /\ v.anchors.added = Added(b.observed_anchors, h.observed_anchors)
      /\ v.anchors.mapping_state_changed =
           Changes(FieldOf(b.observed_anchors, "mapping_state"),
                   FieldOf(h.observed_anchors, "mapping_state"), "anchor_id")
  BY DEF diffScanResults
<1>2. /\ v.mappings.removed = Removed(b.stored_mappings, h.stored_mappings)
      /\ v.mappings.added = Added(b.stored_mappings, h.stored_mappings)
      /\ v.mappings.state_changed =
           Changes(FieldOf(b.stored_mappings, "state"), FieldOf(h.stored_mappings, "state"), "anchor_id")
  BY DEF diffScanResults
<1>3. /\ v.files = diffFiles(b.files, h.files)
      /\ v.findings = diffFindings(b.findings, h.findings)
      /\ v.metrics_delta = diffTraceabilitySummary(b.traceability_metrics.summary,
                                                  h.traceability_metrics.summary)
  BY DEF diffScanResults
<1> HIDE DEF v
<1>4. /\ d.anchors = [Object(v.anchors, {"added", "removed", "mapping_state_changed"})
                        EXCEPT !.mapping_state_changed = RenderChanges(@, "anchor_id")]
      /\ d.mappings = [Object(v.mappings, {"added", "removed", "state_changed"})
                         EXCEPT !.state_changed = RenderChanges(@, "anchor_id")]
      /\ d.files = RenderFileDiff(v.files)
      /\ d.findings = [added |-> Each(v.findings.added, RenderFinding),
                       removed |-> Each(v.findings.removed, RenderFinding)]
      /\ d.metrics_delta = RenderSummary(v.metrics_delta)
  BY DEF RenderDiff
<1> HIDE DEF d
<1>5. /\ d.anchors.removed = v.anchors.removed /\ d.anchors.added = v.anchors.added
      /\ d.anchors.mapping_state_changed = RenderChanges(v.anchors.mapping_state_changed, "anchor_id")
  BY <1>4 DEF Object
<1>6. /\ d.mappings.removed = v.mappings.removed /\ d.mappings.added = v.mappings.added
      /\ d.mappings.state_changed = RenderChanges(v.mappings.state_changed, "anchor_id")
  BY <1>4 DEF Object
<1>7. /\ d.files.removed = v.files.removed /\ d.files.added = v.files.added
      /\ d.files.became_covered = v.files.became_covered
      /\ d.files.lost_coverage = v.files.lost_coverage
      /\ d.files.covering_anchor_ids_changed
           = RenderChanges(v.files.covering_anchor_ids_changed, "path")
      /\ d.files.supported_local_targets_changed
           = RenderChanges(v.files.supported_local_targets_changed, "path")
  BY <1>4 DEF Object, RenderFileDiff
<1>8. /\ v.files.removed = Removed(b.files, h.files) /\ v.files.added = Added(b.files, h.files)
      /\ v.files.became_covered = changedCoverage(Uncovered(b.files), Covered(h.files))
      /\ v.files.lost_coverage = changedCoverage(Covered(b.files), Uncovered(h.files))
      /\ v.files.covering_anchor_ids_changed =
           Changes(Lists(b.files, "covering_anchor_ids"), Lists(h.files, "covering_anchor_ids"), "path")
      /\ v.files.supported_local_targets_changed =
           Changes(Lists(b.files, "supported_local_targets"),
                   Lists(h.files, "supported_local_targets"), "path")
  BY <1>3 DEF diffFiles
<1>9. \A field \in SummaryFields :
        d.metrics_delta[field] =
          h.traceability_metrics.summary[field] - b.traceability_metrics.summary[field]
  <2>1. \A field \in SummaryFields : d.metrics_delta[field] = v.metrics_delta[field]
    BY <1>4 DEF RenderSummary, Object, SummaryFields
  <2> QED BY <1>3, <2>1 DEF diffTraceabilitySummary
<1> QED BY <1>1, <1>2, <1>3, <1>4, <1>5, <1>6, <1>7, <1>8, <1>9 DEF d, v

\* What the engine and the renderer make of two scans is right: that is the property, of
\* two scans that were read, without the files they came from.
LEMMA DiffExact ==
  ASSUME NEW b, IsScan(b), NEW h, IsScan(h), NEW counted,
         counted => CountsFiles(b) /\ CountsFiles(h)
  PROVE  DiffRight(b, h, RenderDiff(diffScanResults(b, h)), counted)
<1> DEFINE d == RenderDiff(diffScanResults(b, h))
           kept == DOMAIN b.files \intersect DOMAIN h.files
<1>1. /\ DOMAIN b.observed_anchors \in SUBSET Nat /\ IsFiniteSet(DOMAIN b.observed_anchors)
      /\ DOMAIN b.stored_mappings \in SUBSET Nat /\ IsFiniteSet(DOMAIN b.stored_mappings)
      /\ DOMAIN b.files \in SUBSET Nat /\ IsFiniteSet(DOMAIN b.files)
      /\ AreFindings(b.findings)
      /\ \A field \in SummaryFields : b.traceability_metrics.summary[field] \in Nat
  BY ReadKeys
<1>2. /\ DOMAIN h.observed_anchors \in SUBSET Nat /\ IsFiniteSet(DOMAIN h.observed_anchors)
      /\ DOMAIN h.stored_mappings \in SUBSET Nat /\ IsFiniteSet(DOMAIN h.stored_mappings)
      /\ DOMAIN h.files \in SUBSET Nat /\ IsFiniteSet(DOMAIN h.files)
      /\ AreFindings(h.findings)
      /\ \A field \in SummaryFields : h.traceability_metrics.summary[field] \in Nat
  BY ReadKeys
<1>3. /\ d.anchors.removed = Removed(b.observed_anchors, h.observed_anchors)
      /\ d.anchors.added = Added(b.observed_anchors, h.observed_anchors)
      /\ d.anchors.mapping_state_changed =
           RenderChanges(Changes(FieldOf(b.observed_anchors, "mapping_state"),
                                 FieldOf(h.observed_anchors, "mapping_state"), "anchor_id"), "anchor_id")
      /\ d.mappings.removed = Removed(b.stored_mappings, h.stored_mappings)
      /\ d.mappings.added = Added(b.stored_mappings, h.stored_mappings)
      /\ d.mappings.state_changed =
           RenderChanges(Changes(FieldOf(b.stored_mappings, "state"),
                                 FieldOf(h.stored_mappings, "state"), "anchor_id"), "anchor_id")
  BY DiffParts
<1>4. /\ d.files.removed = Removed(b.files, h.files)
      /\ d.files.added = Added(b.files, h.files)
      /\ d.files.became_covered = changedCoverage(Uncovered(b.files), Covered(h.files))
      /\ d.files.lost_coverage = changedCoverage(Covered(b.files), Uncovered(h.files))
      /\ d.files.covering_anchor_ids_changed =
           RenderChanges(Changes(Lists(b.files, "covering_anchor_ids"),
                                 Lists(h.files, "covering_anchor_ids"), "path"), "path")
      /\ d.files.supported_local_targets_changed =
           RenderChanges(Changes(Lists(b.files, "supported_local_targets"),
                                 Lists(h.files, "supported_local_targets"), "path"), "path")
  BY DiffParts
<1>5. /\ d.findings.removed = Each(diffFindings(b.findings, h.findings).removed, RenderFinding)
      /\ d.findings.added = Each(diffFindings(b.findings, h.findings).added, RenderFinding)
      /\ \A field \in SummaryFields :
           d.metrics_delta[field] =
             h.traceability_metrics.summary[field] - b.traceability_metrics.summary[field]
  BY DiffParts
<1> HIDE DEF d
<1>6. /\ Becomes(DOMAIN b.observed_anchors, d.anchors.removed, d.anchors.added,
                 DOMAIN h.observed_anchors)
      /\ Becomes(DOMAIN b.stored_mappings, d.mappings.removed, d.mappings.added,
                 DOMAIN h.stored_mappings)
      /\ Becomes(DOMAIN b.files, d.files.removed, d.files.added, DOMAIN h.files)
  BY <1>1, <1>2, <1>3, <1>4, KeysBecome
<1>7. Becomes(ToSet(b.findings), d.findings.removed, d.findings.added, ToSet(h.findings))
  <2>1. ToSet(d.findings.removed) = ToSet(b.findings) \ ToSet(h.findings)
    BY <1>1, <1>5, FindingsWithout
  <2>2. ToSet(d.findings.added) = ToSet(h.findings) \ ToSet(b.findings)
    BY <1>2, <1>5, FindingsWithout
  <2> QED BY <2>1, <2>2 DEF Becomes
<1>8. /\ Covered(b.files) \in SUBSET DOMAIN b.files /\ Covered(h.files) \in SUBSET DOMAIN h.files
      /\ Uncovered(b.files) = DOMAIN b.files \ Covered(b.files)
      /\ Uncovered(h.files) = DOMAIN h.files \ Covered(h.files)
  BY DEF Covered, Uncovered
<1>9. Becomes(Covered(b.files) \intersect kept, d.files.lost_coverage,
              d.files.became_covered, Covered(h.files) \intersect kept)
  <2> DEFINE became == Uncovered(b.files) \intersect Covered(h.files)
             lost == Covered(b.files) \intersect Uncovered(h.files)
  <2>1. became \in SUBSET DOMAIN b.files /\ lost \in SUBSET DOMAIN b.files
    BY <1>8
  <2>2. ToSet(d.files.became_covered) = became /\ ToSet(d.files.lost_coverage) = lost
    <3>1. d.files.became_covered = Sorted(became) /\ d.files.lost_coverage = Sorted(lost)
      BY <1>4 DEF changedCoverage
    <3> HIDE DEF became, lost
    <3>2. /\ became \in SUBSET Nat /\ IsFiniteSet(became) /\ lost \in SUBSET Nat /\ IsFiniteSet(lost)
      BY <1>1, <2>1, FS_Subset
    <3> QED BY <3>1, <3>2, SortedSet
  <2> QED BY <1>8, <2>2 DEF Becomes
<1>10. Turns(d.anchors.mapping_state_changed, "anchor_id", b.observed_anchors,
             h.observed_anchors, LAMBDA o : o.mapping_state)
  <2> DEFINE from == FieldOf(b.observed_anchors, "mapping_state")
             to   == FieldOf(h.observed_anchors, "mapping_state")
  <2>1. /\ DOMAIN from = DOMAIN b.observed_anchors /\ DOMAIN to = DOMAIN h.observed_anchors
        /\ \A k \in DOMAIN from : from[k] = b.observed_anchors[k].mapping_state
        /\ \A k \in DOMAIN to : to[k] = h.observed_anchors[k].mapping_state
    BY DEF FieldOf
  <2> HIDE DEF from, to
  <2> QED BY <1>1, <1>3, <2>1, ChangesTurn DEF Turns, from, to
<1>11. Turns(d.mappings.state_changed, "anchor_id", b.stored_mappings, h.stored_mappings,
             LAMBDA m : m.state)
  <2> DEFINE from == FieldOf(b.stored_mappings, "state")
             to   == FieldOf(h.stored_mappings, "state")
  <2>1. /\ DOMAIN from = DOMAIN b.stored_mappings /\ DOMAIN to = DOMAIN h.stored_mappings
        /\ \A k \in DOMAIN from : from[k] = b.stored_mappings[k].state
        /\ \A k \in DOMAIN to : to[k] = h.stored_mappings[k].state
    BY DEF FieldOf
  <2> HIDE DEF from, to
  <2> QED BY <1>1, <1>3, <2>1, ChangesTurn DEF Turns, from, to
<1>12. Turns(d.files.covering_anchor_ids_changed, "path", b.files, h.files,
             LAMBDA f : InOrder(f.covering_anchor_ids))
  <2> DEFINE from == Lists(b.files, "covering_anchor_ids")
             to   == Lists(h.files, "covering_anchor_ids")
  <2>1. /\ DOMAIN from = DOMAIN b.files /\ DOMAIN to = DOMAIN h.files
        /\ \A k \in DOMAIN from : from[k] = InOrder(b.files[k].covering_anchor_ids)
        /\ \A k \in DOMAIN to : to[k] = InOrder(h.files[k].covering_anchor_ids)
    BY DEF Lists
  <2> HIDE DEF from, to
  <2> QED BY <1>1, <1>4, <2>1, ChangesTurn DEF Turns, from, to
<1>13. Turns(d.files.supported_local_targets_changed, "path", b.files, h.files,
             LAMBDA f : InOrder(f.supported_local_targets))
  <2> DEFINE from == Lists(b.files, "supported_local_targets")
             to   == Lists(h.files, "supported_local_targets")
  <2>1. /\ DOMAIN from = DOMAIN b.files /\ DOMAIN to = DOMAIN h.files
        /\ \A k \in DOMAIN from : from[k] = InOrder(b.files[k].supported_local_targets)
        /\ \A k \in DOMAIN to : to[k] = InOrder(h.files[k].supported_local_targets)
    BY DEF Lists
  <2> HIDE DEF from, to
  <2> QED BY <1>1, <1>4, <2>1, ChangesTurn DEF Turns, from, to
<1>14. \A field \in SummaryFields :
         b.traceability_metrics.summary[field] + d.metrics_delta[field]
           = h.traceability_metrics.summary[field]
  BY <1>1, <1>2, <1>5
<1>15. counted =>
         d.metrics_delta.covered_product_file_count =
           Cardinality(Covered(h.files) \intersect ToSet(d.files.added))
           - Cardinality(Covered(b.files) \intersect ToSet(d.files.removed))
           + Len(d.files.became_covered) - Len(d.files.lost_coverage)
  <2> HAVE counted
  <2>1. d.metrics_delta.covered_product_file_count = Cardinality(Covered(h.files))
                                                      - Cardinality(Covered(b.files))
    BY <1>5 DEF CountsFiles, SummaryFields
  <2>2. /\ ToSet(d.files.added) = DOMAIN h.files \ DOMAIN b.files
        /\ ToSet(d.files.removed) = DOMAIN b.files \ DOMAIN h.files
    <3>1. /\ DOMAIN b.files \ DOMAIN h.files \in SUBSET Nat
          /\ IsFiniteSet(DOMAIN b.files \ DOMAIN h.files)
          /\ DOMAIN h.files \ DOMAIN b.files \in SUBSET Nat
          /\ IsFiniteSet(DOMAIN h.files \ DOMAIN b.files)
      BY <1>1, <1>2, FS_Subset
    <3> QED BY <1>4, <3>1, SortedSet DEF Added, Removed
  <2> DEFINE fb == DOMAIN b.files
             fh == DOMAIN h.files
             cb == Covered(b.files)
             ch == Covered(h.files)
             new == ch \intersect (fh \ fb)
             gone == cb \intersect (fb \ fh)
             became == (fb \ cb) \intersect ch
             lost == cb \intersect (fh \ ch)
  <2>3. d.files.became_covered = Sorted(became) /\ d.files.lost_coverage = Sorted(lost)
    BY <1>4 DEF changedCoverage, Uncovered
  <2>4. Cardinality(ch) - Cardinality(cb) =
          Cardinality(new) - Cardinality(gone) + Len(Sorted(became)) - Len(Sorted(lost))
    <3>1. /\ fb \in SUBSET Nat /\ IsFiniteSet(fb) /\ fh \in SUBSET Nat /\ IsFiniteSet(fh)
          /\ cb \in SUBSET fb /\ ch \in SUBSET fh
      BY <1>1, <1>2, <1>8
    <3> HIDE DEF fb, fh, cb, ch
    <3>2. /\ new = ch \intersect (fh \ fb) /\ gone = cb \intersect (fb \ fh)
          /\ became = (fb \ cb) \intersect ch /\ lost = cb \intersect (fh \ ch)
      OBVIOUS
    <3>3. Parts(fb, fh, cb, ch, new, gone, became, lost)
      BY <3>1, <3>2 DEF Parts
    <3> HIDE DEF new, gone, became, lost
    <3> QED BY <3>3, CoverageAdds
  <2> QED BY <2>1, <2>2, <2>3, <2>4
<1> QED BY <1>6, <1>7, <1>9, <1>10, <1>11, <1>12, <1>13, <1>14, <1>15 DEF DiffRight, d

\* A diff has its two scans.
LEMMA ScansGiven ==
  ASSUME NEW args, CommandArgs("diff", args) # Refused
  PROVE  /\ Given(CommandArgs("diff", args), "--base")
         /\ Given(CommandArgs("diff", args), "--head")
BY DEF CommandArgs, Validated, parseDiffArgs, Requiring, Given

\* A scan that a diff has read is the one its file holds after it, and counts right
\* if the tool vouches for it then.
LEMMA ScanOfDiff ==
  ASSUME CInv, NEW option \in {"--base", "--head"}, NEW token, NEW target,
         target \in Slots \ ScanSlots \/ target = Null,
         Loaded(Truncated(target), option, token) # Refused, NEW content, NEW view,
         file' = IF target = Null THEN file ELSE [file EXCEPT ![target] = content],
         written' = IF target = Null THEN written ELSE [written EXCEPT ![target] = view]
  PROVE  LET scan == Loaded(Truncated(target), option, token)
         IN  /\ IsScan(scan) /\ FileAt(file', token).json = scan
             /\ token \in ScanSlots /\ written'[token] # Null => CountsFiles(scan)
<1> DEFINE scan == Loaded(Truncated(target), option, token)
<1>1. scan = FileAt(Truncated(target), token).json /\ IsScan(scan)
  BY DEF Loaded, Acceptable
<1>2. token # target \/ target = Null
  BY GarbledIsRefused DEF CInv
<1>3. FileAt(file', token) = FileAt(Truncated(target), token)
  BY <1>2, FileAtOthers DEF CInv
<1>4. ASSUME token \in ScanSlots, written'[token] # Null
      PROVE  CountsFiles(scan)
  <2>1. FileAt(Truncated(target), token) = file[token] /\ written'[token] = written[token]
    BY <1>2, <1>4 DEF CInv, FileAt, Truncated, Slots
  <2> HIDE DEF scan
  <2> QED BY <1>1, <1>4, <2>1 DEF CInv, IsSound
<1> QED BY <1>1, <1>3, <1>4

\* A diff ends as the property says.
LEMMA DiffStep ==
  ASSUME CInv, NEW args, NEW target \in Targets("diff", args), Diff(args, target)
  PROVE  DiffReconstructs'
<1> DEFINE options == CommandArgs("diff", args)
           btoken  == options["--base"][1]
           htoken  == options["--head"][1]
           base    == Loaded(Truncated(target), "--base", btoken)
           head    == Loaded(Truncated(target), "--head", htoken)
           json    == RenderDiff(diffScanResults(base, head))
<1>1. options # Refused /\ Given(options, "--base") /\ Given(options, "--head")
  BY ScansGiven DEF Diff
<1>2. target \in Slots \ ScanSlots \/ target = Null
  BY DEF Targets, Slots, ScanSlots
<1>3. /\ Option(Truncated(target), options, "--base") = base
      /\ Option(Truncated(target), options, "--head") = head
  BY <1>1 DEF Option
<1>4. IF Refused \in {base, head} THEN Fails("diff", args, target, 4, "input")
      ELSE Prints("diff", args, target, 0, json, diffScanResults(base, head))
  BY <1>3 DEF Diff
<1> HIDE DEF base, head, json
<1>5. CASE Refused \in {base, head}
  <2>1. outcome'.json = Null
    BY <1>4, <1>5 DEF Fails, Ends
  <2> QED BY <2>1 DEF DiffReconstructs
<1>6. CASE base # Refused /\ head # Refused
  <2>1. PICK content, view :
           /\ outcome'.options = options /\ outcome'.json \in {json, Null}
           /\ file' = IF target = Null THEN file ELSE [file EXCEPT ![target] = content]
           /\ written' = IF target = Null THEN written ELSE [written EXCEPT ![target] = view]
    <3>1. Prints("diff", args, target, 0, json, diffScanResults(base, head))
      BY <1>4, <1>6
    <3> QED BY <3>1 DEF Prints, Ends, options
  <2>2. /\ IsScan(base) /\ FileAt(file', btoken).json = base
        /\ btoken \in ScanSlots /\ written'[btoken] # Null => CountsFiles(base)
    BY <1>2, <1>6, <2>1, ScanOfDiff DEF base
  <2>3. /\ IsScan(head) /\ FileAt(file', htoken).json = head
        /\ htoken \in ScanSlots /\ written'[htoken] # Null => CountsFiles(head)
    BY <1>2, <1>6, <2>1, ScanOfDiff DEF head
  <2>4. /\ Value("--base")' = btoken /\ Value("--head")' = htoken
    BY <2>1 DEF Value
  <2>5. FileOf("--base")'.json = base /\ FileOf("--head")'.json = head
    BY <2>2, <2>3, <2>4 DEF FileOf
  <2>6. PICK counted \in BOOLEAN : counted <=> (Vouched("--base")' /\ Vouched("--head")')
    OBVIOUS
  <2>7. counted => CountsFiles(base) /\ CountsFiles(head)
    BY <2>2, <2>3, <2>4, <2>6 DEF Vouched
  <2>8. DiffRight(base, head, json, counted)
    BY <2>2, <2>3, <2>7, DiffExact DEF json
  <2>9. CASE outcome'.json = json
    <3>1. PICK b, h, d : b = base /\ h = head /\ d = json
      OBVIOUS
    <3>2. DiffRight(b, h, d, counted) /\ outcome'.json = d
          /\ FileOf("--base")'.json = b /\ FileOf("--head")'.json = h
      BY <2>5, <2>8, <2>9, <3>1
    <3> QED BY <2>6, <3>2 DEF DiffReconstructs
  <2>10. CASE outcome'.json = Null
    BY <2>10 DEF DiffReconstructs
  <2> QED BY <2>1, <2>9, <2>10
<1> QED BY <1>5, <1>6

\* Every step keeps the property, a diff by what it does and the rest by ending it.
LEMMA NextDiff == CInv /\ DiffReconstructs /\ [Next]_vars => DiffReconstructs'
<1> SUFFICES ASSUME CInv, DiffReconstructs, [Next]_vars PROVE DiffReconstructs'
  OBVIOUS
<1>1. CASE outcome' = Null
  BY <1>1 DEF DiffReconstructs, Ran
<1>2. CASE UNCHANGED vars
  <2>1. file' = file /\ written' = written /\ outcome' = outcome
    BY <1>2 DEF vars
  <2>2. \A option : Value(option)' = Value(option)
    BY <2>1 DEF Value
  <2>3. FileOf("--base")' = FileOf("--base") /\ FileOf("--head")' = FileOf("--head")
    BY <2>1, <2>2 DEF FileOf
  <2>4. /\ Vouched("--base")' <=> Vouched("--base")
        /\ Vouched("--head")' <=> Vouched("--head")
    BY <2>1, <2>2 DEF Vouched
  <2>5. Ran("diff")' <=> Ran("diff")
    BY <2>1 DEF Ran
  <2>6. CASE Ran("diff") /\ outcome.json # Null
    <3>1. PICK b, h, d : /\ b = FileOf("--base").json /\ h = FileOf("--head").json
                         /\ d = outcome.json
      OBVIOUS
    <3>2. PICK counted \in BOOLEAN : counted <=> (Vouched("--base") /\ Vouched("--head"))
      OBVIOUS
    <3>3. DiffRight(b, h, d, counted)
      BY <2>6, <3>1, <3>2 DEF DiffReconstructs
    <3> QED BY <2>1, <2>3, <2>4, <3>1, <3>2, <3>3 DEF DiffReconstructs
  <2>7. CASE ~(Ran("diff") /\ outcome.json # Null)
    BY <2>1, <2>5, <2>7 DEF DiffReconstructs
  <2> QED BY <2>6, <2>7
<1>3. ASSUME NEW command \in Commands, NEW call \in Calls(command), Run(command, call[1], call[2]),
             outcome'.command = command
      PROVE  DiffReconstructs'
  <2>1. CASE command # "diff"
    BY <1>3, <2>1 DEF DiffReconstructs, Ran
  <2>2. CASE RefuseArguments(command, call[1], call[2])
    BY <2>2 DEF DiffReconstructs, RefuseArguments, Fails, Ends
  <2>3. CASE command = "diff" /\ ~RefuseArguments(command, call[1], call[2])
    <3>1. Diff(call[1], call[2])
      BY <1>3, <2>3 DEF Run
    <3>2. call[2] \in Targets("diff", call[1])
      BY <2>3 DEF Calls
    <3> QED BY <3>1, <3>2, DiffStep
  <2> QED BY <2>1, <2>2, <2>3
<1> QED BY <1>1, <1>2, <1>3, OutcomeOf

\* A diff accounts for every difference of its two scans and for nothing else, and its
\* totals tell the same story as its lists, whatever the scans are, of either schema,
\* written by the tool or by hand (diff-engine.ts, runDiffCommand of
\* artifact-commands.ts).
THEOREM DiffsAccountForAll == Spec => []DiffReconstructs
<1>1. Init => CInv /\ DiffReconstructs
  BY InitCInv DEF Init, DiffReconstructs, Ran
<1>2. CInv /\ DiffReconstructs /\ [Next]_vars => (CInv /\ DiffReconstructs)'
  BY NextCInv, NextDiff
<1> QED BY <1>1, <1>2, PTL DEF Spec

-----------------------------------------------------------------------------
(* what the readers accept is written as it is *)

\* Wrong stands for a value that is no list and no object.
WrongIsNoFunction == \A S, T : \A f \in [S -> T] : f # Wrong

LEMMA NotWrong ==
  ASSUME WrongIsNoFunction, NEW f, f = [x \in DOMAIN f |-> f[x]]
  PROVE  f # Wrong
<1> DEFINE S == DOMAIN f
           T == {f[x] : x \in S}
<1>1. f \in [S -> T]
  OBVIOUS
<1> HIDE DEF S, T
<1> QED BY <1>1 DEF WrongIsNoFunction

\* An object that has just the fields that are written is written as it is.
LEMMA ObjectSame ==
  ASSUME NEW v, NEW fields, v = [key \in DOMAIN v |-> v[key]], DOMAIN v = fields
  PROVE  Object(v, fields) = v
BY DEF Object

LEMMA ObjectOf ==
  ASSUME NEW v, NEW shape, Exact(v, shape)
  PROVE  Object(v, DOMAIN shape) = v /\ v = [key \in DOMAIN v |-> v[key]]
         /\ DOMAIN v = DOMAIN shape
BY DEF Object, Exact, IsObject

\* Findings are written as they are.
LEMMA FindingsSame ==
  ASSUME NEW found, AreFindings(found)
  PROVE  Each(found, RenderFinding) = found
<1>1. found = [k \in DOMAIN found |-> found[k]]
  BY DEF AreFindings, IsArray, IsList
<1>2. \A k \in DOMAIN found : RenderFinding(found[k]) = found[k]
  BY ReadFinding DEF AreFindings
<1> QED BY <1>1, <1>2 DEF Each

\* So are the parts of a scan,
LEMMA ConfigSame ==
  ASSUME NEW c, IsConfig(c)
  PROVE  RenderConfig(c) = c
<1> DEFINE aliases == Each(c.local_aliases, LAMBDA a : Object(a, {"prefix", "target"}))
<1>1. aliases = c.local_aliases
  <2>1. c.local_aliases = [k \in DOMAIN c.local_aliases |-> c.local_aliases[k]]
    BY DEF IsConfig, ListOf, IsArray, IsList
  <2>2. \A k \in DOMAIN c.local_aliases :
          Object(c.local_aliases[k], {"prefix", "target"}) = c.local_aliases[k]
    <3> TAKE k \in DOMAIN c.local_aliases
    <3>1. Exact(c.local_aliases[k], [prefix |-> "text", target |-> "text"])
      BY DEF IsConfig, ListOf
    <3> QED BY <3>1, ObjectOf
  <2> QED BY <2>1, <2>2 DEF Each
<1>2. /\ Object(c, {"version", "product_root", "spec_roots", "ignore_roots", "tsconfig_path",
                    "local_aliases"}) = c
      /\ c = [key \in DOMAIN c |-> c[key]] /\ "local_aliases" \in DOMAIN c
  <2>1. Exact(c, ConfigFields)
    BY DEF IsConfig
  <2> QED BY <2>1, ObjectOf DEF ConfigFields
<1>3. RenderConfig(c) = [c EXCEPT !.local_aliases = aliases]
  BY <1>2 DEF RenderConfig
<1> HIDE DEF aliases
<1> QED BY <1>1, <1>2, <1>3

LEMMA ObservedSame ==
  ASSUME NEW j, NEW schema, AreObservedAnchors(j, schema)
  PROVE  j = [a \in DOMAIN j |-> RenderObservedAnchor(j[a], schema)]
<1>1. j = [a \in DOMAIN j |-> j[a]]
  BY DEF AreObservedAnchors, MapOf, IsObject
<1>2. \A a \in DOMAIN j : RenderObservedAnchor(j[a], schema) = j[a]
  <2> TAKE a \in DOMAIN j
  <2>1. CASE schema = 4
    <3>1. Exact(j[a], [spec_path |-> "path", mapping_state |-> "observed"])
      BY <2>1 DEF AreObservedAnchors, MapOf
    <3> QED BY <2>1, <3>1, ObjectOf DEF RenderObservedAnchor
  <2>2. CASE schema # 4
    <3> DEFINE o == j[a]
               source == RenderSource(o.source)
    <3>1. /\ Exact(o, [spec_path |-> "path", mapping_state |-> "observed", source |-> "nested"])
          /\ OneOf(o.source, SourceFields)
      BY <2>2 DEF AreObservedAnchors, MapOf
    <3>2. source = o.source
      <4>1. /\ o.source = [key \in DOMAIN o.source |-> o.source[key]]
            /\ o.source.kind \in DOMAIN SourceFields
            /\ DOMAIN o.source = DOMAIN SourceFields[o.source.kind]
        BY <3>1 DEF OneOf, Exact, IsObject
      <4> DEFINE fields == IF o.source.kind = "markdown_atx_heading"
                           THEN {"kind", "line", "column", "heading_level"}
                           ELSE {"kind", "line", "column"}
      <4>2. DOMAIN o.source = fields
        BY <4>1 DEF SourceFields
      <4>3. source = Object(o.source, fields)
        BY DEF RenderSource
      <4> HIDE DEF source, fields, o
      <4> QED BY <4>1, <4>2, <4>3, ObjectSame
    <3>3. /\ Object(o, {"spec_path", "mapping_state", "source"}) = o
          /\ o = [key \in DOMAIN o |-> o[key]]
      BY <3>1, ObjectOf
    <3>4. RenderObservedAnchor(o, schema) = [o EXCEPT !.source = source]
      BY <2>2, <3>3 DEF RenderObservedAnchor
    <3> HIDE DEF source, o
    <3>5. [o EXCEPT !.source = source] = o
      BY <3>2, <3>3
    <3> QED BY <3>4, <3>5 DEF o
  <2> QED BY <2>1, <2>2
<1> QED BY <1>1, <1>2

LEMMA MetricsSame ==
  ASSUME NEW m, AreMetrics(m)
  PROVE  RenderMetrics(m) = m
<1>1. /\ Exact(m, [summary |-> "nested", anchors |-> "nested"])
      /\ Exact(m.summary, Counted(SummaryFields, "count"))
      /\ m.anchors = [a \in DOMAIN m.anchors |-> m.anchors[a]]
      /\ \A a \in DOMAIN m.anchors : Exact(m.anchors[a], Counted(AnchorMetricsFields, "count"))
  BY DEF AreMetrics, MapOf, IsObject
<1>2. RenderSummary(m.summary) = m.summary
  BY <1>1, ObjectOf DEF RenderSummary, Counted, SummaryFields
<1>3. \A a \in DOMAIN m.anchors : Object(m.anchors[a], AnchorMetricsFields) = m.anchors[a]
  BY <1>1, ObjectOf DEF Counted
<1>4. Each(m.anchors, LAMBDA x : Object(x, AnchorMetricsFields)) = m.anchors
  BY <1>1, <1>3 DEF Each
<1>5. m = [summary |-> m.summary, anchors |-> m.anchors]
  BY <1>1 DEF Exact, IsObject
<1> QED BY <1>2, <1>4, <1>5 DEF RenderMetrics, AnchorMetricsFields

\* and a scan as a whole.
LEMMA ScanSame ==
  ASSUME NEW j, IsScan(j)
  PROVE  RenderScan(j) = j
<1>1. /\ RenderConfig(j.config) = j.config
      /\ Each(j.observed_anchors, LAMBDA o : RenderObservedAnchor(o, j.schema_version))
           = j.observed_anchors
      /\ RenderMetrics(j.traceability_metrics) = j.traceability_metrics
      /\ Each(j.findings, RenderFinding) = j.findings
  <2>1. /\ IsConfig(j.config) /\ AreMetrics(j.traceability_metrics) /\ AreFindings(j.findings)
        /\ AreObservedAnchors(j.observed_anchors, j.schema_version)
    BY DEF IsScan
  <2>2. Each(j.observed_anchors, LAMBDA o : RenderObservedAnchor(o, j.schema_version))
          = j.observed_anchors
    <3>1. j.observed_anchors = [a \in DOMAIN j.observed_anchors |->
                                  RenderObservedAnchor(j.observed_anchors[a], j.schema_version)]
      BY <2>1, ObservedSame
    <3> QED BY <3>1 DEF Each
  <2> QED BY <2>1, <2>2, ConfigSame, MetricsSame, FindingsSame
<1>2. Each(j.stored_mappings, LAMBDA m : Object(m, {"state", "seed_files", "reached_files"}))
        = j.stored_mappings
  <2>1. /\ j.stored_mappings = [a \in DOMAIN j.stored_mappings |-> j.stored_mappings[a]]
        /\ \A a \in DOMAIN j.stored_mappings :
             Exact(j.stored_mappings[a],
                   [state |-> "stored", seed_files |-> "paths", reached_files |-> "paths"])
    BY DEF IsScan, AreStoredMappings, MapOf, IsObject
  <2>2. \A a \in DOMAIN j.stored_mappings :
          Object(j.stored_mappings[a], {"state", "seed_files", "reached_files"})
            = j.stored_mappings[a]
    BY <2>1, ObjectOf
  <2> QED BY <2>1, <2>2 DEF Each
<1>3. Each(j.files, LAMBDA f : Object(f, {"covering_anchor_ids", "supported_local_targets"}))
        = j.files
  <2>1. /\ j.files = [f \in DOMAIN j.files |-> j.files[f]]
        /\ \A f \in DOMAIN j.files :
             Exact(j.files[f], [covering_anchor_ids |-> "anchors", supported_local_targets |-> "paths"])
    BY DEF IsScan, AreFiles, MapOf, IsObject
  <2>2. \A f \in DOMAIN j.files :
          Object(j.files[f], {"covering_anchor_ids", "supported_local_targets"}) = j.files[f]
    BY <2>1, ObjectOf
  <2> QED BY <2>1, <2>2 DEF Each
<1>4. j = [schema_version |-> j.schema_version, config |-> j.config,
           analysis_health |-> j.analysis_health, observed_anchors |-> j.observed_anchors,
           stored_mappings |-> j.stored_mappings, files |-> j.files,
           traceability_metrics |-> j.traceability_metrics, findings |-> j.findings]
  BY DEF IsScan, Exact, IsObject, ScanFields
<1> QED BY <1>1, <1>2, <1>3, <1>4 DEF RenderScan

\* A policy result is written as it is.
LEMMA PolicyResultSame ==
  ASSUME NEW j, IsPolicyResult(j)
  PROVE  RenderPolicyResult(j) = j
<1> DEFINE violations == Each(j.violations, RenderViolation)
           summary == RenderPolicySummary(j.summary)
<1>1. violations = j.violations
  <2>1. /\ j.violations = [k \in DOMAIN j.violations |-> j.violations[k]]
        /\ \A k \in DOMAIN j.violations : OneOf(j.violations[k], ViolationFields)
    BY DEF IsPolicyResult, AreViolations, IsArray, IsList
  <2>2. \A k \in DOMAIN j.violations : RenderViolation(j.violations[k]) = j.violations[k]
    <3> TAKE k \in DOMAIN j.violations
    <3> DEFINE x == j.violations[k]
               fields == CASE x.kind = "analysis_health_degraded" -> {"kind"}
                           [] x.kind = "finding_kind_present" -> {"kind", "finding_kind", "count"}
                           [] OTHER -> {"kind", "actual", "threshold"}
    <3>1. /\ x = [key \in DOMAIN x |-> x[key]] /\ x.kind \in DOMAIN ViolationFields
          /\ DOMAIN x = DOMAIN ViolationFields[x.kind]
      BY <2>1 DEF OneOf, Exact, IsObject
    <3>2. DOMAIN x = fields
      BY <3>1 DEF ViolationFields
    <3>3. RenderViolation(x) = Object(x, fields)
      BY DEF RenderViolation
    <3> HIDE DEF x, fields
    <3>4. RenderViolation(x) = x
      BY <3>1, <3>2, <3>3, ObjectSame
    <3> QED BY <3>4 DEF x
  <2> QED BY <2>1, <2>2 DEF Each
<1>2. summary = j.summary
  <2>1. Exact(j.summary, Counted(PolicySummaryFields, "count"))
    BY DEF IsPolicyResult
  <2> QED BY <2>1, ObjectOf DEF RenderPolicySummary, Counted, PolicySummaryFields
<1>3. /\ Object(j, {"schema_version", "decision", "source_scan_schema_version", "analysis_health",
                    "violations", "summary"}) = j
      /\ j = [key \in DOMAIN j |-> j[key]]
  BY ObjectSame DEF IsPolicyResult, Exact, IsObject
<1>4. RenderPolicyResult(j) = [j EXCEPT !.violations = violations, !.summary = summary]
  BY <1>3 DEF RenderPolicyResult
<1> HIDE DEF violations, summary
<1> QED BY <1>1, <1>2, <1>3, <1>4

\* So are changes,
LEMMA ChangesSame ==
  ASSUME NEW list, NEW key, NEW keyType, NEW type,
         IsArray(list), \A k \in DOMAIN list : Exact(list[k], Change(key, keyType, type)),
         DOMAIN Change(key, keyType, type) = {key, "from", "to"}
  PROVE  RenderChanges(list, key) = list
<1>1. list = [k \in DOMAIN list |-> list[k]]
  BY DEF IsArray, IsList
<1>2. \A k \in DOMAIN list : Object(list[k], {key, "from", "to"}) = list[k]
  BY ObjectOf
<1> QED BY <1>1, <1>2 DEF RenderChanges, Each

\* and a diff as a whole.
LEMMA DiffSame ==
  ASSUME NEW j, IsDiff(j)
  PROVE  RenderDiff(j) = j
<1> DEFINE changed == RenderChanges(j.anchors.mapping_state_changed, "anchor_id")
           moved == RenderChanges(j.mappings.state_changed, "anchor_id")
           covering == RenderChanges(j.files.covering_anchor_ids_changed, "path")
           targets == RenderChanges(j.files.supported_local_targets_changed, "path")
<1>1. \A key, keyType, type : DOMAIN Change(key, keyType, type) = {key, "from", "to"}
  BY DEF Change
<1>2. /\ changed = j.anchors.mapping_state_changed
      /\ moved = j.mappings.state_changed
      /\ covering = j.files.covering_anchor_ids_changed
      /\ targets = j.files.supported_local_targets_changed
  <2>1. /\ ListOf(j.anchors.mapping_state_changed, Change("anchor_id", "anchor", "observed"))
        /\ ListOf(j.mappings.state_changed, Change("anchor_id", "anchor", "stored"))
        /\ ListOf(j.files.covering_anchor_ids_changed, Change("path", "path", "anchors"))
        /\ ListOf(j.files.supported_local_targets_changed, Change("path", "path", "paths"))
    BY DEF IsDiff, AreAnchorChanges, AreMappingChanges, AreFileChanges
  <2>2. ASSUME NEW list, NEW key, NEW keyType, NEW type, ListOf(list, Change(key, keyType, type))
        PROVE  RenderChanges(list, key) = list
    BY <1>1, <2>2, ChangesSame DEF ListOf
  <2> QED BY <2>1, <2>2
<1>3. /\ Object(j.anchors, {"added", "removed", "mapping_state_changed"}) = j.anchors
      /\ j.anchors = [key \in DOMAIN j.anchors |-> j.anchors[key]]
  BY ObjectSame DEF IsDiff, AreAnchorChanges, Exact, IsObject
<1>4. /\ Object(j.mappings, {"added", "removed", "state_changed"}) = j.mappings
      /\ j.mappings = [key \in DOMAIN j.mappings |-> j.mappings[key]]
  BY ObjectSame DEF IsDiff, AreMappingChanges, Exact, IsObject
<1>5. /\ Object(j.files, {"added", "removed", "became_covered", "lost_coverage",
              "covering_anchor_ids_changed", "supported_local_targets_changed"}) = j.files
      /\ j.files = [key \in DOMAIN j.files |-> j.files[key]]
  BY ObjectSame DEF IsDiff, AreFileChanges, Exact, IsObject
<1>6. /\ Object(j.analysis_health_change, {"from", "to"}) = j.analysis_health_change
      /\ RenderSummary(j.metrics_delta) = j.metrics_delta
  <2>1. /\ Exact(j.analysis_health_change, [from |-> "health", to |-> "health"])
        /\ Exact(j.metrics_delta, Counted(SummaryFields, "integer"))
    BY DEF IsDiff, AreDeltas
  <2> QED BY <2>1, ObjectOf DEF RenderSummary, Counted, SummaryFields
<1>7. /\ Each(j.findings.added, RenderFinding) = j.findings.added
      /\ Each(j.findings.removed, RenderFinding) = j.findings.removed
      /\ j.findings = [added |-> j.findings.added, removed |-> j.findings.removed]
  <2>1. /\ AreFindings(j.findings.added) /\ AreFindings(j.findings.removed)
        /\ Exact(j.findings, [added |-> "nested", removed |-> "nested"])
    BY DEF IsDiff, AreFindingChanges
  <2>2. j.findings = [added |-> j.findings.added, removed |-> j.findings.removed]
    BY <2>1 DEF Exact, IsObject
  <2> QED BY <2>1, <2>2, FindingsSame
<1>8. /\ [j.anchors EXCEPT !.mapping_state_changed = changed] = j.anchors
      /\ [j.mappings EXCEPT !.state_changed = moved] = j.mappings
      /\ [j.files EXCEPT !.covering_anchor_ids_changed = covering,
                         !.supported_local_targets_changed = targets] = j.files
  <2> HIDE DEF changed, moved, covering, targets
  <2> QED BY <1>2, <1>3, <1>4, <1>5
<1>9. j = [schema_version           |-> j.schema_version,
           base_scan_schema_version |-> j.base_scan_schema_version,
           head_scan_schema_version |-> j.head_scan_schema_version,
           comparability            |-> j.comparability,
           analysis_health_change   |-> j.analysis_health_change,
           anchors |-> j.anchors, mappings |-> j.mappings, files |-> j.files,
           findings |-> j.findings, metrics_delta |-> j.metrics_delta]
  BY DEF IsDiff, Exact, IsObject
<1>10. RenderDiff(j) =
         [schema_version           |-> j.schema_version,
          base_scan_schema_version |-> j.base_scan_schema_version,
          head_scan_schema_version |-> j.head_scan_schema_version,
          comparability            |-> j.comparability,
          analysis_health_change   |-> j.analysis_health_change,
          anchors  |-> [j.anchors EXCEPT !.mapping_state_changed = changed],
          mappings |-> [j.mappings EXCEPT !.state_changed = moved],
          files    |-> [j.files EXCEPT !.covering_anchor_ids_changed = covering,
                                       !.supported_local_targets_changed = targets],
          findings |-> [added |-> j.findings.added, removed |-> j.findings.removed],
          metrics_delta |-> j.metrics_delta]
  BY <1>3, <1>4, <1>5, <1>6, <1>7 DEF RenderDiff, RenderFileDiff
<1> HIDE DEF changed, moved, covering, targets
<1> QED BY <1>7, <1>8, <1>9, <1>10

-----------------------------------------------------------------------------
(* what the readers accept *)

\* A set of a few names is finite.
LEMMA Few ==
  ASSUME NEW a, NEW b, NEW c, NEW d, NEW e, NEW f
  PROVE  IsFiniteSet({a, b, c, d, e, f})
<1>1. IsFiniteSet({a}) /\ IsFiniteSet({b}) /\ IsFiniteSet({c}) /\ IsFiniteSet({d})
      /\ IsFiniteSet({e}) /\ IsFiniteSet({f})
  BY FS_Singleton
<1>2. IsFiniteSet({a} \union {b}) /\ IsFiniteSet({c} \union {d}) /\ IsFiniteSet({e} \union {f})
  BY <1>1, FS_Union
<1>3. IsFiniteSet(({a} \union {b}) \union ({c} \union {d}))
  BY <1>2, FS_Union
<1>4. IsFiniteSet((({a} \union {b}) \union ({c} \union {d})) \union ({e} \union {f}))
  BY <1>2, <1>3, FS_Union
<1>5. (({a} \union {b}) \union ({c} \union {d})) \union ({e} \union {f}) = {a, b, c, d, e, f}
  OBVIOUS
<1> QED BY <1>4, <1>5

LEMMA More ==
  ASSUME NEW a, NEW b, NEW c, NEW d, NEW e, NEW f, NEW g, NEW h, NEW i, NEW j, NEW k, NEW l
  PROVE  IsFiniteSet({a, b, c, d, e, f, g, h, i, j, k, l})
<1>1. IsFiniteSet({a, b, c, d, e, f} \union {g, h, i, j, k, l})
  BY Few, FS_Union
<1>2. {a, b, c, d, e, f} \union {g, h, i, j, k, l} = {a, b, c, d, e, f, g, h, i, j, k, l}
  OBVIOUS
<1> QED BY <1>1, <1>2

LEMMA FewFields ==
  /\ \A a : IsFiniteSet({a})
  /\ \A a, b : IsFiniteSet({a, b})
  /\ \A a, b, c : IsFiniteSet({a, b, c})
  /\ \A a, b, c, d : IsFiniteSet({a, b, c, d})
  /\ \A a, b, c, d, e, f : IsFiniteSet({a, b, c, d, e, f})
<1>1. \A a, b : IsFiniteSet({a, b})
  <2> TAKE a, b
  <2>1. {a, b, b, b, b, b} = {a, b}
    OBVIOUS
  <2> QED BY <2>1, Few
<1>2. \A a, b, c : IsFiniteSet({a, b, c})
  <2> TAKE a, b, c
  <2>1. {a, b, c, c, c, c} = {a, b, c}
    OBVIOUS
  <2> QED BY <2>1, Few
<1>3. \A a, b, c, d : IsFiniteSet({a, b, c, d})
  <2> TAKE a, b, c, d
  <2>1. {a, b, c, d, d, d} = {a, b, c, d}
    OBVIOUS
  <2> QED BY <2>1, Few
<1> QED BY <1>1, <1>2, <1>3, Few, FS_Singleton

\* A record or a function of finitely many keys is an object,
LEMMA Objects ==
  ASSUME WrongIsNoFunction, NEW j, j = [key \in DOMAIN j |-> j[key]], IsFiniteSet(DOMAIN j)
  PROVE  IsObject(j)
BY NotWrong DEF IsObject

\* and a list is an array.
LEMMA Arrays ==
  ASSUME WrongIsNoFunction, NEW v, IsList(v)
  PROVE  IsArray(v)
BY NotWrong DEF IsArray, IsList

LEMMA LeafIs ==
  ASSUME NEW v
  PROVE  /\ Leaf("anchor", v) <=> v \in Anchors
         /\ Leaf("path", v) <=> v \in Paths
         /\ Leaf("text", v) <=> v \in Texts
         /\ Leaf("count", v) <=> v \in Nat
         /\ Leaf("one", v) <=> v = 1
         /\ Leaf("scan_schema", v) <=> v \in {4, 5}
         /\ Leaf("tsconfig", v) <=> v \in {Null, "tsconfig.json"}
         /\ Leaf("health", v) <=> v \in {"clean", "degraded"}
         /\ Leaf("observed", v) <=> v \in {"absent", "usable", "invalid", "draft"}
         /\ Leaf("stored", v) <=> v \in {"usable", "invalid", "stale"}
         /\ Leaf("finding_kind", v) <=> v \in ToSet(FindingKinds)
         /\ Leaf("decision", v) <=> v \in {"pass", "fail"}
         /\ Leaf("comparability", v) <=> v \in {"same_scope", "scope_changed"}
         /\ Leaf("anchors", v) <=> IsArray(v) /\ ToSet(v) \subseteq Anchors
         /\ Leaf("paths", v) <=> IsArray(v) /\ ToSet(v) \subseteq Paths
         /\ Leaf("integer", v) <=> v \in Int
         /\ Leaf("nested", v) /\ Leaf("kind", v)
BY DEF Leaf

\* The sorted list of a set of anchors or paths is one the readers accept.
LEMMA SortedIsArray ==
  ASSUME WrongIsNoFunction, NEW S \in SUBSET Nat, IsFiniteSet(S)
  PROVE  IsArray(Sorted(S)) /\ ToSet(Sorted(S)) = S
BY SortedList, SortedSet, Arrays

-----------------------------------------------------------------------------
(* what a check writes *)

\* What a check writes about a scan under a policy, the reader of check results accepts.
LEMMA ViolationsRead ==
  ASSUME WrongIsNoFunction, NEW scan, IsList(scan.findings), NEW policy, IsPolicy(policy),
         scan.traceability_metrics.summary.covered_product_file_count \in Nat,
         scan.traceability_metrics.summary.product_file_count \in Nat
  PROVE  LET summary == buildPolicySummary(scan)
         IN  /\ AreViolations(Violations(scan, policy, summary))
             /\ summary.covered_product_file_percent \in Nat
             /\ summary.untraced_product_file_count \in Nat
<1> DEFINE found    == scan.findings
           covered  == scan.traceability_metrics.summary.covered_product_file_count
           files    == scan.traceability_metrics.summary.product_file_count
           summary  == buildPolicySummary(scan)
           least    == Threshold(policy, "min_covered_product_file_percent")
           most     == Threshold(policy, "max_untraced_product_files")
           kinds    == FailsOn(policy, "finding_kinds")
           percent  == summary.covered_product_file_percent
           untraced == summary.untraced_product_file_count
           here     == {k \in DOMAIN FindingKinds :
                          FindingKinds[k] \in ToSet(kinds) /\ OfKind(found, FindingKinds[k]) # <<>>}
           selected == At(FindingKinds, Sorted(here))
           present  == [k \in DOMAIN selected |->
                          [kind |-> "finding_kind_present", finding_kind |-> selected[k],
                           count |-> Len(OfKind(found, selected[k]))]]
           low      == [kind |-> "covered_product_file_percent_below_threshold",
                        actual |-> percent, threshold |-> least]
           high     == [kind |-> "untraced_product_files_above_threshold",
                        actual |-> untraced, threshold |-> most]
           bad      == [kind |-> "analysis_health_degraded"]
           unhealthy == FailsOn(policy, "analysis_health") = "degraded" /\ scan.analysis_health = "degraded"
           a == IF unhealthy THEN <<bad>> ELSE <<>>
           b == IF least # Null /\ percent < least THEN <<low>> ELSE <<>>
           c == IF kinds = Null THEN <<>> ELSE present
           d == IF most # Null /\ untraced > most THEN <<high>> ELSE <<>>
           S == {bad} \union (IF least # Null THEN {low} ELSE {})
                \union (IF most # Null THEN {high} ELSE {}) \union {present[k] : k \in DOMAIN selected}
<1>1. Violations(scan, policy, summary) = a \o b \o c \o d
  BY DEF Violations, Each, Select
<1>2. /\ percent = Percent(covered, files)
      /\ untraced = Len(OfKind(found, "untraced_product_file"))
  BY DEF buildPolicySummary
<1>3. here \in SUBSET Nat /\ IsFiniteSet(here) /\ here \subseteq DOMAIN FindingKinds
  <2>1. DOMAIN FindingKinds = 1..8
    BY DEF FindingKinds
  <2>2. here \in SUBSET (1..8)
    BY <2>1
  <2> HIDE DEF here
  <2>3. IsFiniteSet(1..8)
    BY Initial
  <2>4. IsFiniteSet(here)
    BY <2>2, <2>3, FS_Subset
  <2>5. here \in SUBSET Nat
    BY <2>2
  <2> QED BY <2>1, <2>2, <2>4, <2>5
<1>4. DOMAIN selected = 1..Cardinality(here) /\ Cardinality(here) \in Nat
      /\ \A k \in DOMAIN selected : selected[k] \in ToSet(FindingKinds)
  <2> HIDE DEF here
  <2>1. /\ DOMAIN selected = 1..Cardinality(here)
        /\ \A k \in 1..Cardinality(here) : \E i \in here : selected[k] = FindingKinds[i]
    <3>1. here \in SUBSET Nat /\ IsFiniteSet(here)
      BY <1>3
    <3> HIDE DEF selected
    <3>2. selected = At(FindingKinds, Sorted(here))
      BY DEF selected
    <3>3. /\ DOMAIN At(FindingKinds, Sorted(here)) = 1..Cardinality(here)
          /\ \A k \in 1..Cardinality(here) :
               \E i \in here : At(FindingKinds, Sorted(here))[k] = FindingKinds[i]
      BY ONLY <3>1, AtPlaces
    <3> QED BY <3>2, <3>3, Zenon
  <2>2. \A k \in DOMAIN selected : \E i \in here : selected[k] = FindingKinds[i]
    BY ONLY <2>1
  <2> QED BY <1>3, <2>1, <2>2, FS_CardinalityType DEF ToSet
<1>5. percent \in Nat /\ untraced \in Nat /\ \A kind : Len(OfKind(found, kind)) \in Nat
  <2>1. covered \in Nat /\ files \in Nat
    OBVIOUS
  <2> HIDE DEF covered, files, found, percent, untraced
  <2>2. Percent(covered, files) \in Nat
    BY <2>1 DEF Percent
  <2> QED BY <1>2, <2>2, OfKindFacts
<1>6. (least # Null => least \in Nat) /\ (most # Null => most \in Nat)
  BY DEF IsPolicy, Optional, ReadsThresholds, Threshold, Has
<1> HIDE DEF found, covered, files, summary, least, most, kinds, percent, untraced, here, selected,
             unhealthy
<1>7. a \in Seq(S) /\ b \in Seq(S) /\ c \in Seq(S) /\ d \in Seq(S)
  <2>1. bad \in S /\ (least # Null => low \in S) /\ (most # Null => high \in S)
    OBVIOUS
  <2>2. present \in Seq(S)
    BY <1>4
  <2> HIDE DEF S, bad, low, high, present
  <2> QED BY <2>1, <2>2
<1>8. \A x \in S : OneOf(x, ViolationFields)
  <2> TAKE x \in S
  <2>1. CASE x = bad
    <3>1. IsObject(x)
      BY <2>1, Objects, FewFields
    <3> QED BY <2>1, <3>1, LeafIs DEF OneOf, Exact, ViolationFields
  <2>2. CASE least # Null /\ x = low
    <3>1. IsObject(x)
      BY <2>2, Objects, FewFields
    <3> QED BY <1>5, <1>6, <2>2, <3>1, LeafIs DEF OneOf, Exact, ViolationFields
  <2>3. CASE most # Null /\ x = high
    <3>1. IsObject(x)
      BY <2>3, Objects, FewFields
    <3> QED BY <1>5, <1>6, <2>3, <3>1, LeafIs DEF OneOf, Exact, ViolationFields
  <2>4. CASE \E k \in DOMAIN selected : x = present[k]
    <3>1. PICK k \in DOMAIN selected : x = present[k]
      BY <2>4
    <3>2. x = [kind |-> "finding_kind_present", finding_kind |-> selected[k],
               count |-> Len(OfKind(found, selected[k]))]
      BY <3>1
    <3>3. IsObject(x)
      BY <3>2, Objects, FewFields
    <3> QED BY <1>4, <1>5, <3>1, <3>2, <3>3, LeafIs DEF OneOf, Exact, ViolationFields
  <2> QED BY <2>1, <2>2, <2>3, <2>4
<1> HIDE DEF S, a, b, c, d
<1>9. a \o b \o c \o d \in Seq(S)
  BY <1>7
<1> DEFINE list == a \o b \o c \o d
<1> HIDE DEF list
<1>10. IsArray(list) /\ \A k \in DOMAIN list : list[k] \in S
  <2>1. list \in Seq(S)
    BY <1>9 DEF list
  <2>2. IsList(list) /\ \A k \in DOMAIN list : list[k] \in S
    BY <2>1 DEF IsList
  <2> QED BY <2>2, Arrays
<1> QED BY <1>1, <1>5, <1>8, <1>10 DEF AreViolations, list, summary, percent, untraced

LEMMA CheckRead ==
  ASSUME WrongIsNoFunction, NEW scan, IsScan(scan), NEW policy, IsPolicy(policy)
  PROVE  IsPolicyResult(evaluatePolicy(scan, policy))
<1> DEFINE result == evaluatePolicy(scan, policy)
           summary == buildPolicySummary(scan)
           s == scan.traceability_metrics.summary
<1>1. /\ scan.schema_version \in {4, 5} /\ scan.analysis_health \in {"clean", "degraded"}
      /\ AreFindings(scan.findings) /\ IsList(scan.findings)
      /\ \A field \in SummaryFields : s[field] \in Nat
  BY ReadKeys, LeafIs DEF IsScan, Exact, ScanFields, AreFindings, IsArray
<1>2. /\ s.observed_anchor_count \in Nat /\ s.usable_mapping_count \in Nat
      /\ s.product_file_count \in Nat /\ s.covered_product_file_count \in Nat
      /\ s.uncovered_product_file_count \in Nat
  BY <1>1 DEF SummaryFields
<1>3. /\ AreViolations(Violations(scan, policy, summary))
      /\ summary.covered_product_file_percent \in Nat
      /\ summary.untraced_product_file_count \in Nat
  BY <1>1, <1>2, ViolationsRead
<1>4. Exact(summary, Counted(PolicySummaryFields, "count"))
  <2>1. DOMAIN summary = PolicySummaryFields /\ summary = [field \in DOMAIN summary |-> summary[field]]
    BY DEF buildPolicySummary, PolicySummaryFields
  <2>2. IsFiniteSet(PolicySummaryFields)
    <3>1. \A a, b, c, d, e, f, g : IsFiniteSet({a, b, c, d, e, f, g})
      <4> TAKE a, b, c, d, e, f, g
      <4>1. {a, b, c, d, e, f, g, g, g, g, g, g} = {a, b, c, d, e, f, g}
        OBVIOUS
      <4> QED BY <4>1, More
    <3> QED BY <3>1 DEF PolicySummaryFields
  <2>3. IsObject(summary)
    BY <2>1, <2>2, Objects
  <2>4. \A field \in PolicySummaryFields : summary[field] \in Nat
    BY <1>2, <1>3 DEF buildPolicySummary, PolicySummaryFields
  <2> QED BY <2>1, <2>3, <2>4, LeafIs DEF Exact, Counted
<1>5. result = [schema_version             |-> 1,
                decision                   |-> IF Violations(scan, policy, summary) = <<>>
                                               THEN "pass" ELSE "fail",
                source_scan_schema_version |-> scan.schema_version,
                analysis_health            |-> scan.analysis_health,
                violations                 |-> Violations(scan, policy, summary),
                summary                    |-> summary]
  BY DEF evaluatePolicy
<1> HIDE DEF result, summary
<1>6. IsObject(result)
  BY <1>5, Objects, FewFields
<1>7. Exact(result, [schema_version |-> "one", decision |-> "decision", analysis_health |-> "health",
               source_scan_schema_version |-> "count", violations |-> "nested",
               summary |-> "nested"])
  BY <1>1, <1>5, <1>6, LeafIs DEF Exact
<1> QED BY <1>3, <1>4, <1>5, <1>7 DEF IsPolicyResult, result

-----------------------------------------------------------------------------
(* what a diff writes *)

\* Putting numbers in order keeps them all.
LEMMA OrderedNumbers ==
  ASSUME NEW seq, IsList(seq), ToSet(seq) \subseteq Nat
  PROVE  IsList(InOrder(seq)) /\ ToSet(InOrder(seq)) = ToSet(seq)
<1> DEFINE n == Len(seq)
           D == 1..n
           Precedes(i, j) == seq[i] < seq[j] \/ (~(seq[j] < seq[i]) /\ i < j)
           R == {pair \in D \X D : Precedes(pair[1], pair[2])}
           places == [k \in 1..Cardinality(D) |->
                        CHOOSE x \in D : Cardinality({y \in D : Precedes(y, x)}) = k - 1]
<1>1. n \in Nat /\ DOMAIN seq = D
  BY DEF IsList
<1>2. IsFiniteSet(D)
  BY <1>1, Initial
<1>3. \A i \in D : seq[i] \in Nat
  BY <1>1 DEF ToSet
<1>4. D \in SUBSET Nat
  BY <1>1
<1>5. StrictOrder(D, R)
  <2>1. \A i, j \in D : <<i, j>> \in R <=> Precedes(i, j)
    OBVIOUS
  <2> HIDE DEF R, D
  <2> QED BY <1>3, <1>4, <2>1 DEF StrictOrder
<1>6. \A x \in D : Below(D, R, x) = {y \in D : Precedes(y, x)}
  BY DEF Below
<1>7. /\ Cardinality(D) \in Nat
      /\ \A k \in 1..Cardinality(D) : \E x \in D : Cardinality({y \in D : Precedes(y, x)}) = k - 1
  <2>1. /\ Cardinality(D) \in Nat
        /\ \A k \in 1..Cardinality(D) : \E x \in D : Cardinality(Below(D, R, x)) = k - 1
    <3> HIDE DEF D, R
    <3> QED BY <1>2, <1>5, Ranks
  <2> QED BY <1>6, <2>1
<1>8. \A k \in 1..Cardinality(D) :
        places[k] \in D /\ Cardinality({y \in D : Precedes(y, places[k])}) = k - 1
  BY <1>7
<1>9. InRank(places, D, R)
  <2>1. places \in [1..Cardinality(D) -> D]
    BY <1>8
  <2> QED BY <1>6, <1>8, <2>1 DEF InRank
<1>10. InOrder(seq) = [k \in 1..Cardinality(D) |-> seq[places[k]]]
  BY <1>1 DEF InOrder, OrderedBy, SortedBy, At
<1> HIDE DEF places, R
<1> QED BY <1>1, <1>5, <1>9, <1>10, PlacesKeep

\* The changes of a key, as the readers of diffs accept them.
LEMMA ChangesRead ==
  ASSUME WrongIsNoFunction, NEW from, NEW to,
         DOMAIN from \in SUBSET Nat, IsFiniteSet(DOMAIN from), NEW key \in {"anchor_id", "path"},
         NEW keyType, NEW type, \A k \in DOMAIN from : Leaf(keyType, k) /\ Leaf(type, from[k]),
         \A k \in DOMAIN to : Leaf(type, to[k])
  PROVE  ListOf(Changes(from, to, key), Change(key, keyType, type))
<1> DEFINE changed == {k \in DOMAIN from \intersect DOMAIN to : from[k] # to[k]}
           list == Sorted(changed)
           changes == Changes(from, to, key)
<1>1. changed \in SUBSET Nat /\ IsFiniteSet(changed) /\ changed \subseteq DOMAIN from \intersect DOMAIN to
  <2>1. changed \in SUBSET (DOMAIN from)
    OBVIOUS
  <2>2. changed \subseteq DOMAIN from \intersect DOMAIN to
    OBVIOUS
  <2> HIDE DEF changed
  <2> QED BY <2>1, <2>2, FS_Subset
<1>2. Len(list) \in Nat /\ DOMAIN list = 1..Len(list) /\ ToSet(list) = changed
  <2> HIDE DEF changed
  <2> QED BY <1>1, SortedSet
<1> HIDE DEF changed
<1>3. \A i \in DOMAIN list : list[i] \in changed
  BY <1>2 DEF ToSet
<1>4. /\ DOMAIN changes = DOMAIN list
      /\ changes = [i \in DOMAIN list |-> changes[i]]
      /\ \A i \in DOMAIN list :
           changes[i] = [field \in {key, "from", "to"} |->
                           CASE field = "from" -> from[list[i]] [] field = "to" -> to[list[i]]
                             [] OTHER -> list[i]]
  BY DEF Changes, Each, changed, list
<1> HIDE DEF changes, list
<1>5. IsArray(changes)
  BY <1>2, <1>4, Listed, Arrays
<1>6. ASSUME NEW i \in DOMAIN list PROVE Exact(changes[i], Change(key, keyType, type))
  <2> DEFINE c == changes[i]
             k == list[i]
  <2>1. /\ c = [field \in DOMAIN c |-> c[field]] /\ DOMAIN c = {key, "from", "to"}
        /\ c[key] = k /\ c["from"] = from[k] /\ c["to"] = to[k]
    BY <1>4
  <2> HIDE DEF c
  <2>2. IsObject(c)
    <3>1. IsFiniteSet({key, "from", "to"})
      BY FewFields
    <3>2. IsFiniteSet(DOMAIN c)
      BY <2>1, <3>1
    <3> QED BY <2>1, <3>2, Objects
  <2>3. Leaf(keyType, k) /\ Leaf(type, from[k]) /\ Leaf(type, to[k])
    BY <1>1, <1>3
  <2>4. \A field \in {key, "from", "to"} : Leaf(IF field = key THEN keyType ELSE type, c[field])
    BY <2>1, <2>3
  <2>5. /\ DOMAIN Change(key, keyType, type) = {key, "from", "to"}
        /\ \A field \in {key, "from", "to"} :
             Change(key, keyType, type)[field] = IF field = key THEN keyType ELSE type
    BY DEF Change
  <2>6. Exact(c, Change(key, keyType, type))
    BY <2>1, <2>2, <2>4, <2>5 DEF Exact
  <2> QED BY <2>6 DEF c
<1> QED BY <1>4, <1>5, <1>6 DEF ListOf, changes

\* The fields that a diff takes from a scan.
LEMMA FieldsRead ==
  ASSUME WrongIsNoFunction, NEW j, IsScan(j)
  PROVE  LET states    == FieldOf(j.observed_anchors, "mapping_state")
             mappings  == FieldOf(j.stored_mappings, "state")
             covering  == Lists(j.files, "covering_anchor_ids")
             targets   == Lists(j.files, "supported_local_targets")
         IN  /\ DOMAIN states = DOMAIN j.observed_anchors
             /\ \A k \in DOMAIN states : Leaf("anchor", k) /\ Leaf("observed", states[k])
             /\ DOMAIN mappings = DOMAIN j.stored_mappings
             /\ \A k \in DOMAIN mappings : Leaf("anchor", k) /\ Leaf("stored", mappings[k])
             /\ DOMAIN covering = DOMAIN j.files /\ DOMAIN targets = DOMAIN j.files
             /\ \A k \in DOMAIN covering : Leaf("path", k) /\ Leaf("anchors", covering[k])
             /\ \A k \in DOMAIN targets : Leaf("path", k) /\ Leaf("paths", targets[k])
<1>1. /\ DOMAIN j.observed_anchors \subseteq Anchors /\ DOMAIN j.stored_mappings \subseteq Anchors
      /\ DOMAIN j.files \subseteq Paths
  BY DEF IsScan, AreObservedAnchors, AreStoredMappings, AreFiles, MapOf
<1>2. \A k \in DOMAIN j.observed_anchors : Leaf("observed", j.observed_anchors[k]["mapping_state"])
  <2> TAKE k \in DOMAIN j.observed_anchors
  <2> DEFINE o == j.observed_anchors[k]
  <2>1. \/ Exact(o, [spec_path |-> "path", mapping_state |-> "observed"])
        \/ Exact(o, [spec_path |-> "path", mapping_state |-> "observed", source |-> "nested"])
    BY DEF IsScan, AreObservedAnchors, MapOf
  <2> HIDE DEF o
  <2>2. Leaf("observed", o["mapping_state"])
    BY <2>1 DEF Exact
  <2> QED BY <2>2 DEF o
<1>3. \A k \in DOMAIN j.stored_mappings : Leaf("stored", j.stored_mappings[k]["state"])
  <2> TAKE k \in DOMAIN j.stored_mappings
  <2>1. Exact(j.stored_mappings[k],
              [state |-> "stored", seed_files |-> "paths", reached_files |-> "paths"])
    BY DEF IsScan, AreStoredMappings, MapOf
  <2> QED BY <2>1 DEF Exact
<1>4. \A k \in DOMAIN j.files : /\ Leaf("anchors", j.files[k]["covering_anchor_ids"])
                                /\ Leaf("paths", j.files[k]["supported_local_targets"])
  <2> TAKE k \in DOMAIN j.files
  <2>1. Exact(j.files[k], [covering_anchor_ids |-> "anchors", supported_local_targets |-> "paths"])
    BY DEF IsScan, AreFiles, MapOf
  <2> QED BY <2>1 DEF Exact
<1>5. ASSUME NEW list, Leaf("anchors", list) \/ Leaf("paths", list)
      PROVE  /\ Leaf("anchors", list) => Leaf("anchors", InOrder(list))
             /\ Leaf("paths", list) => Leaf("paths", InOrder(list))
  <2>1. IsList(list) /\ ToSet(list) \subseteq Nat
    BY <1>5, LeafIs, ArtifactsAssumption DEF IsArray
  <2>2. IsArray(InOrder(list)) /\ ToSet(InOrder(list)) = ToSet(list)
    BY <2>1, OrderedNumbers, Arrays
  <2> QED BY <2>2, LeafIs
<1>6. \A k \in DOMAIN j.files : /\ Leaf("anchors", InOrder(j.files[k]["covering_anchor_ids"]))
                                /\ Leaf("paths", InOrder(j.files[k]["supported_local_targets"]))
  BY <1>4, <1>5
<1>7. /\ \A k \in DOMAIN j.observed_anchors : Leaf("anchor", k)
      /\ \A k \in DOMAIN j.stored_mappings : Leaf("anchor", k)
      /\ \A k \in DOMAIN j.files : Leaf("path", k)
  BY <1>1, LeafIs
<1> QED BY <1>2, <1>3, <1>6, <1>7 DEF FieldOf, Lists

\* What is added and removed, of anchors and of paths.
LEMMA KeysRead ==
  ASSUME WrongIsNoFunction, NEW K, NEW S, S \subseteq K, IsFiniteSet(K)
  PROVE  /\ K \subseteq Anchors => Leaf("anchors", Sorted(S))
         /\ K \subseteq Paths => Leaf("paths", Sorted(S))
<1>1. IsFiniteSet(S)
  BY FS_Subset
<1>2. ASSUME S \subseteq Nat PROVE IsArray(Sorted(S)) /\ ToSet(Sorted(S)) = S
  BY <1>1, <1>2, SortedIsArray
<1> QED BY <1>2, LeafIs, ArtifactsAssumption

LEMMA ScanKeys ==
  ASSUME NEW j, IsScan(j)
  PROVE  /\ DOMAIN j.observed_anchors \subseteq Anchors /\ IsFiniteSet(DOMAIN j.observed_anchors)
         /\ DOMAIN j.stored_mappings \subseteq Anchors /\ IsFiniteSet(DOMAIN j.stored_mappings)
         /\ DOMAIN j.files \subseteq Paths /\ IsFiniteSet(DOMAIN j.files)
         /\ DOMAIN j.observed_anchors \in SUBSET Nat /\ DOMAIN j.stored_mappings \in SUBSET Nat
         /\ DOMAIN j.files \in SUBSET Nat
<1>1. /\ DOMAIN j.observed_anchors \subseteq Anchors /\ IsFiniteSet(DOMAIN j.observed_anchors)
      /\ DOMAIN j.stored_mappings \subseteq Anchors /\ IsFiniteSet(DOMAIN j.stored_mappings)
      /\ DOMAIN j.files \subseteq Paths /\ IsFiniteSet(DOMAIN j.files)
  BY DEF IsScan, AreObservedAnchors, AreStoredMappings, AreFiles, MapOf, IsObject
<1> QED BY <1>1, ArtifactsAssumption

\* What a diff writes about two scans, the reader of diffs accepts: the anchors,
LEMMA AnchorsRead ==
  ASSUME WrongIsNoFunction, NEW b, IsScan(b), NEW h, IsScan(h)
  PROVE  LET d == diffScanResults(b, h)
         IN  AreAnchorChanges(d.anchors) /\ AreMappingChanges(d.mappings)
<1> DEFINE anchors == diffScanResults(b, h).anchors
           mappings == diffScanResults(b, h).mappings
           changed == Changes(FieldOf(b.observed_anchors, "mapping_state"),
                              FieldOf(h.observed_anchors, "mapping_state"), "anchor_id")
           moved == Changes(FieldOf(b.stored_mappings, "state"),
                            FieldOf(h.stored_mappings, "state"), "anchor_id")
<1>1. /\ anchors = [added |-> Added(b.observed_anchors, h.observed_anchors),
                    removed |-> Removed(b.observed_anchors, h.observed_anchors),
                    mapping_state_changed |-> changed]
      /\ mappings = [added |-> Added(b.stored_mappings, h.stored_mappings),
                     removed |-> Removed(b.stored_mappings, h.stored_mappings),
                     state_changed |-> moved]
  BY DEF diffScanResults
<1>2. /\ ListOf(changed, Change("anchor_id", "anchor", "observed"))
      /\ ListOf(moved, Change("anchor_id", "anchor", "stored"))
  <2> DEFINE from1 == FieldOf(b.observed_anchors, "mapping_state")
             to1 == FieldOf(h.observed_anchors, "mapping_state")
             from2 == FieldOf(b.stored_mappings, "state")
             to2 == FieldOf(h.stored_mappings, "state")
  <2>1. /\ DOMAIN from1 \in SUBSET Nat /\ IsFiniteSet(DOMAIN from1)
        /\ DOMAIN from2 \in SUBSET Nat /\ IsFiniteSet(DOMAIN from2)
        /\ \A k \in DOMAIN from1 : Leaf("anchor", k) /\ Leaf("observed", from1[k])
        /\ \A k \in DOMAIN to1 : Leaf("observed", to1[k])
        /\ \A k \in DOMAIN from2 : Leaf("anchor", k) /\ Leaf("stored", from2[k])
        /\ \A k \in DOMAIN to2 : Leaf("stored", to2[k])
    BY FieldsRead, ScanKeys
  <2> HIDE DEF from1, to1, from2, to2
  <2>2. ListOf(Changes(from1, to1, "anchor_id"), Change("anchor_id", "anchor", "observed"))
    BY <2>1, ChangesRead
  <2>3. ListOf(Changes(from2, to2, "anchor_id"), Change("anchor_id", "anchor", "stored"))
    BY <2>1, ChangesRead
  <2> QED BY <2>2, <2>3 DEF from1, to1, from2, to2
<1>3. /\ Leaf("anchors", Added(b.observed_anchors, h.observed_anchors))
      /\ Leaf("anchors", Removed(b.observed_anchors, h.observed_anchors))
      /\ Leaf("anchors", Added(b.stored_mappings, h.stored_mappings))
      /\ Leaf("anchors", Removed(b.stored_mappings, h.stored_mappings))
  <2>1. \A K, L : K \ L \subseteq K
    OBVIOUS
  <2> QED BY <2>1, ScanKeys, KeysRead DEF Added, Removed
<1> HIDE DEF anchors, mappings, changed, moved
<1>4. IsObject(anchors) /\ IsObject(mappings)
  BY <1>1, Objects, FewFields
<1>5. Exact(anchors, [added |-> "anchors", removed |-> "anchors", mapping_state_changed |-> "nested"])
  BY <1>1, <1>3, <1>4, LeafIs DEF Exact
<1>6. Exact(mappings, [added |-> "anchors", removed |-> "anchors", state_changed |-> "nested"])
  BY <1>1, <1>3, <1>4, LeafIs DEF Exact
<1>7. AreAnchorChanges(anchors) /\ AreMappingChanges(mappings)
  BY <1>1, <1>2, <1>5, <1>6 DEF AreAnchorChanges, AreMappingChanges
<1> QED BY <1>7 DEF anchors, mappings

\* the files,
LEMMA FilesRead ==
  ASSUME WrongIsNoFunction, NEW b, IsScan(b), NEW h, IsScan(h)
  PROVE  AreFileChanges(diffFiles(b.files, h.files))
<1> DEFINE d == diffFiles(b.files, h.files)
           from1 == Lists(b.files, "covering_anchor_ids")
           to1 == Lists(h.files, "covering_anchor_ids")
           from2 == Lists(b.files, "supported_local_targets")
           to2 == Lists(h.files, "supported_local_targets")
<1>1. d = [added          |-> Added(b.files, h.files),
           removed        |-> Removed(b.files, h.files),
           became_covered |-> changedCoverage(Uncovered(b.files), Covered(h.files)),
           lost_coverage  |-> changedCoverage(Covered(b.files), Uncovered(h.files)),
           covering_anchor_ids_changed |-> Changes(from1, to1, "path"),
           supported_local_targets_changed |-> Changes(from2, to2, "path")]
  BY DEF diffFiles
<1>2. /\ ListOf(Changes(from1, to1, "path"), Change("path", "path", "anchors"))
      /\ ListOf(Changes(from2, to2, "path"), Change("path", "path", "paths"))
  <2>1. /\ DOMAIN from1 \in SUBSET Nat /\ IsFiniteSet(DOMAIN from1)
        /\ DOMAIN from2 \in SUBSET Nat /\ IsFiniteSet(DOMAIN from2)
        /\ \A k \in DOMAIN from1 : Leaf("path", k) /\ Leaf("anchors", from1[k])
        /\ \A k \in DOMAIN to1 : Leaf("anchors", to1[k])
        /\ \A k \in DOMAIN from2 : Leaf("path", k) /\ Leaf("paths", from2[k])
        /\ \A k \in DOMAIN to2 : Leaf("paths", to2[k])
    BY FieldsRead, ScanKeys
  <2> HIDE DEF from1, to1, from2, to2
  <2> QED BY <2>1, ChangesRead
<1>3. /\ Leaf("paths", Added(b.files, h.files)) /\ Leaf("paths", Removed(b.files, h.files))
      /\ Leaf("paths", changedCoverage(Uncovered(b.files), Covered(h.files)))
      /\ Leaf("paths", changedCoverage(Covered(b.files), Uncovered(h.files)))
  <2>1. \A K, L : K \ L \subseteq K
    OBVIOUS
  <2>2. /\ Uncovered(b.files) \intersect Covered(h.files) \subseteq DOMAIN b.files
        /\ Covered(b.files) \intersect Uncovered(h.files) \subseteq DOMAIN b.files
    BY DEF Covered, Uncovered
  <2> QED BY <2>1, <2>2, ScanKeys, KeysRead DEF Added, Removed, changedCoverage
<1> HIDE DEF d, from1, to1, from2, to2
<1>4. IsObject(d)
  BY <1>1, Objects, FewFields
<1>5. Exact(d, [added |-> "paths", removed |-> "paths", became_covered |-> "paths",
                lost_coverage |-> "paths", covering_anchor_ids_changed |-> "nested",
                supported_local_targets_changed |-> "nested"])
  BY <1>1, <1>3, <1>4, LeafIs DEF Exact
<1>6. AreFileChanges(d)
  BY <1>1, <1>2, <1>5 DEF AreFileChanges
<1> QED BY <1>6 DEF d

\* the findings and the counters,
LEMMA FindingsRead ==
  ASSUME WrongIsNoFunction, NEW b, AreFindings(b), NEW h, AreFindings(h)
  PROVE  AreFindingChanges(diffFindings(b, h))
<1> DEFINE d == diffFindings(b, h)
<1>1. d = [added |-> d.added, removed |-> d.removed]
  BY DEF diffFindings
<1>2. AreFindings(d.added) /\ AreFindings(d.removed)
  BY FindingsWithout, Arrays DEF AreFindings
<1> HIDE DEF d
<1>3. IsObject(d)
  BY <1>1, Objects, FewFields
<1>4. Exact(d, [added |-> "nested", removed |-> "nested"])
  BY <1>1, <1>3, LeafIs DEF Exact
<1>5. AreFindingChanges(d)
  BY <1>2, <1>4 DEF AreFindingChanges
<1> QED BY <1>5 DEF d

LEMMA SummaryIsFinite == IsFiniteSet(SummaryFields)
<1>1. \A a, b, c, d, e, f, g, h, i, j, k : IsFiniteSet({a, b, c, d, e, f, g, h, i, j, k})
  <2> TAKE a, b, c, d, e, f, g, h, i, j, k
  <2>1. {a, b, c, d, e, f, g, h, i, j, k, k} = {a, b, c, d, e, f, g, h, i, j, k}
    OBVIOUS
  <2> QED BY <2>1, More
<1> QED BY <1>1 DEF SummaryFields

LEMMA DeltasRead ==
  ASSUME WrongIsNoFunction, NEW b, NEW h, \A field \in SummaryFields : b[field] \in Nat /\ h[field] \in Nat
  PROVE  AreDeltas(diffTraceabilitySummary(b, h))
<1> DEFINE d == diffTraceabilitySummary(b, h)
<1>1. d = [field \in SummaryFields |-> h[field] - b[field]]
  BY DEF diffTraceabilitySummary
<1> HIDE DEF d
<1>2. IsObject(d)
  BY <1>1, Objects, SummaryIsFinite
<1>3. \A field \in SummaryFields : d[field] \in Int
  BY <1>1
<1> QED BY <1>1, <1>2, <1>3, LeafIs DEF AreDeltas, Exact, Counted, d

\* and the whole.
LEMMA DiffRead ==
  ASSUME WrongIsNoFunction, NEW b, IsScan(b), NEW h, IsScan(h)
  PROVE  IsDiff(diffScanResults(b, h))
<1> DEFINE d == diffScanResults(b, h)
           change == d.analysis_health_change
<1>1. /\ AreAnchorChanges(d.anchors) /\ AreMappingChanges(d.mappings)
      /\ AreFileChanges(d.files) /\ AreFindingChanges(d.findings) /\ AreDeltas(d.metrics_delta)
  <2>1. /\ d.files = diffFiles(b.files, h.files)
        /\ d.findings = diffFindings(b.findings, h.findings)
        /\ d.metrics_delta = diffTraceabilitySummary(b.traceability_metrics.summary,
                                                     h.traceability_metrics.summary)
    BY DEF diffScanResults
  <2> QED BY <2>1, ReadKeys, AnchorsRead, FilesRead, FindingsRead, DeltasRead
<1>2. /\ d.schema_version = 1
      /\ d.base_scan_schema_version = b.schema_version
      /\ d.head_scan_schema_version = h.schema_version
      /\ d.comparability \in {"same_scope", "scope_changed"}
      /\ change = [from |-> b.analysis_health, to |-> h.analysis_health]
      /\ d = [field \in DOMAIN d |-> d[field]]
      /\ DOMAIN d = {"schema_version", "base_scan_schema_version", "head_scan_schema_version",
                     "comparability", "analysis_health_change", "anchors", "mappings", "files",
                     "findings", "metrics_delta"}
  BY DEF diffScanResults
<1>3. \A j \in {b, h} : j.schema_version \in {4, 5} /\ j.analysis_health \in {"clean", "degraded"}
  BY LeafIs DEF IsScan, Exact, ScanFields
<1> HIDE DEF d, change
<1>4. IsObject(d)
  <2>1. \A i, j, k, l, m, n, o, p, q, r : IsFiniteSet({i, j, k, l, m, n, o, p, q, r})
    <3> TAKE i, j, k, l, m, n, o, p, q, r
    <3>1. {i, j, k, l, m, n, o, p, q, r, r, r} = {i, j, k, l, m, n, o, p, q, r}
      OBVIOUS
    <3> QED BY <3>1, More
  <2>2. IsFiniteSet({"schema_version", "base_scan_schema_version", "head_scan_schema_version",
                     "comparability", "analysis_health_change", "anchors", "mappings", "files",
                     "findings", "metrics_delta"})
    BY <2>1, Zenon
  <2>3. IsFiniteSet(DOMAIN d)
    BY <1>2, <2>2
  <2> QED BY <1>2, <2>3, Objects
<1>5. Exact(d, [schema_version |-> "one", base_scan_schema_version |-> "count",
               head_scan_schema_version |-> "count", comparability |-> "comparability",
               analysis_health_change |-> "nested", anchors |-> "nested", mappings |-> "nested",
               files |-> "nested", findings |-> "nested", metrics_delta |-> "nested"])
  BY <1>2, <1>3, <1>4, LeafIs DEF Exact
<1>6. Exact(change, [from |-> "health", to |-> "health"])
  <2>1. IsObject(change)
    BY <1>2, Objects, FewFields
  <2> QED BY <1>2, <1>3, <2>1, LeafIs DEF Exact
<1> QED BY <1>1, <1>5, <1>6 DEF IsDiff, d, change

-----------------------------------------------------------------------------
(* what a scan writes *)

\* The fields of a finding, and the tuple they are compared by.
LEMMA TupleShape ==
  ASSUME NEW f, OneOf(f, FindingFields)
  PROVE  /\ f.kind \in DOMAIN FindingFields /\ f = [key \in DOMAIN f |-> f[key]]
         /\ FindingTuple(f)[1] = Rank(f.kind)
         /\ f.kind \in {"unmapped_anchor", "stale_mapping_anchor"} =>
              /\ DOMAIN f = {"kind", "anchor_id"}
              /\ FindingTuple(f)[2] = f.anchor_id
         /\ f.kind = "broken_seed_path" =>
              /\ DOMAIN f = {"kind", "anchor_id", "seed_path"}
              /\ FindingTuple(f)[2] = f.anchor_id
              /\ FindingTuple(f)[3] = f.seed_path
         /\ f.kind = "unresolved_static_edge" =>
              /\ DOMAIN f = {"kind", "importer", "specifier"}
              /\ FindingTuple(f)[2] = f.importer
              /\ FindingTuple(f)[3] = f.specifier
         /\ f.kind = "unsupported_static_edge" =>
              /\ DOMAIN f = {"kind", "importer", "syntax_kind", "specifier"}
              /\ FindingTuple(f)[2] = f.importer
              /\ FindingTuple(f)[3] = (IF f.syntax_kind = "dynamic_import" THEN 1 ELSE 2)
              /\ FindingTuple(f)[4] = f.specifier
              /\ f.syntax_kind \in {"require_call", "dynamic_import"}
         /\ f.kind \in {"out_of_scope_static_edge", "unsupported_local_target"} =>
              /\ DOMAIN f = {"kind", "importer", "target_path"}
              /\ FindingTuple(f)[2] = f.importer
              /\ FindingTuple(f)[3] = f.target_path
         /\ f.kind = "untraced_product_file" =>
              /\ DOMAIN f = {"kind", "path"}
              /\ FindingTuple(f)[2] = f.path
<1>1. /\ f.kind \in DOMAIN FindingFields
      /\ DOMAIN f = DOMAIN FindingFields[f.kind] /\ f = [key \in DOMAIN f |-> f[key]]
      /\ \A key \in DOMAIN FindingFields[f.kind] : Leaf(FindingFields[f.kind][key], f[key])
  BY DEF OneOf, Exact, IsObject
<1>2. ASSUME f.kind \in {"unmapped_anchor", "stale_mapping_anchor"}
     PROVE  /\ DOMAIN f = {"kind", "anchor_id"}
            /\ FindingTuple(f)[1] = Rank(f.kind)
            /\ FindingTuple(f)[2] = f.anchor_id
  <2>1. DOMAIN f = {"kind", "anchor_id"}
    BY <1>1, <1>2 DEF FindingFields
  <2>2. FindingTuple(f) = <<Rank(f.kind)>> \o <<f.anchor_id>>
    BY <1>2 DEF FindingTuple
  <2> QED BY <2>1, <2>2
<1>3. ASSUME f.kind = "broken_seed_path"
     PROVE  /\ DOMAIN f = {"kind", "anchor_id", "seed_path"}
            /\ FindingTuple(f)[1] = Rank(f.kind)
            /\ FindingTuple(f)[2] = f.anchor_id
            /\ FindingTuple(f)[3] = f.seed_path
  <2>1. DOMAIN f = {"kind", "anchor_id", "seed_path"}
    BY <1>1, <1>3 DEF FindingFields
  <2>2. FindingTuple(f) = <<Rank(f.kind)>> \o <<f.anchor_id, f.seed_path>>
    BY <1>3 DEF FindingTuple
  <2> QED BY <2>1, <2>2
<1>4. ASSUME f.kind = "unresolved_static_edge"
     PROVE  /\ DOMAIN f = {"kind", "importer", "specifier"}
            /\ FindingTuple(f)[1] = Rank(f.kind)
            /\ FindingTuple(f)[2] = f.importer
            /\ FindingTuple(f)[3] = f.specifier
  <2>1. DOMAIN f = {"kind", "importer", "specifier"}
    BY <1>1, <1>4 DEF FindingFields
  <2>2. FindingTuple(f) = <<Rank(f.kind)>> \o <<f.importer, f.specifier>>
    BY <1>4 DEF FindingTuple
  <2> QED BY <2>1, <2>2
<1>5. ASSUME f.kind = "unsupported_static_edge"
     PROVE  /\ DOMAIN f = {"kind", "importer", "syntax_kind", "specifier"}
            /\ FindingTuple(f)[1] = Rank(f.kind)
            /\ FindingTuple(f)[2] = f.importer
            /\ FindingTuple(f)[3] = (IF f.syntax_kind = "dynamic_import" THEN 1 ELSE 2)
            /\ FindingTuple(f)[4] = f.specifier
            /\ f.syntax_kind \in {"require_call", "dynamic_import"}
  <2>1. DOMAIN f = {"kind", "importer", "syntax_kind", "specifier"}
    BY <1>1, <1>5 DEF FindingFields
  <2>2. FindingTuple(f) = <<Rank(f.kind)>> \o <<f.importer, IF f.syntax_kind = "dynamic_import" THEN 1 ELSE 2, f.specifier>>
    BY <1>5 DEF FindingTuple
  <2>3. Leaf("syntax", f.syntax_kind)
    BY <1>1, <1>5 DEF FindingFields
  <2>4. f.syntax_kind \in {"require_call", "dynamic_import"}
    BY <2>3 DEF Leaf
  <2> QED BY <2>1, <2>2, <2>4
<1>6. ASSUME f.kind \in {"out_of_scope_static_edge", "unsupported_local_target"}
     PROVE  /\ DOMAIN f = {"kind", "importer", "target_path"}
            /\ FindingTuple(f)[1] = Rank(f.kind)
            /\ FindingTuple(f)[2] = f.importer
            /\ FindingTuple(f)[3] = f.target_path
  <2>1. DOMAIN f = {"kind", "importer", "target_path"}
    BY <1>1, <1>6 DEF FindingFields
  <2>2. FindingTuple(f) = <<Rank(f.kind)>> \o <<f.importer, f.target_path>>
    BY <1>6 DEF FindingTuple
  <2> QED BY <2>1, <2>2
<1>7. ASSUME f.kind = "untraced_product_file"
     PROVE  /\ DOMAIN f = {"kind", "path"}
            /\ FindingTuple(f)[1] = Rank(f.kind)
            /\ FindingTuple(f)[2] = f.path
  <2>1. DOMAIN f = {"kind", "path"}
    BY <1>1, <1>7 DEF FindingFields
  <2>2. FindingTuple(f) = <<Rank(f.kind)>> \o <<f.path>>
    BY <1>7 DEF FindingTuple
  <2> QED BY <2>1, <2>2
<1> QED BY <1>1, <1>2, <1>3, <1>4, <1>5, <1>6, <1>7 DEF FindingFields

\* Two findings with the same tuple are the same.
LEMMA TupleTells ==
  ASSUME NEW f, OneOf(f, FindingFields), NEW g, OneOf(g, FindingFields),
         FindingTuple(f) = FindingTuple(g)
  PROVE  f = g
<1>1. /\ f.kind \in DOMAIN FindingFields /\ f = [key \in DOMAIN f |-> f[key]]
      /\ g.kind \in DOMAIN FindingFields /\ g = [key \in DOMAIN g |-> g[key]]
      /\ Rank(f.kind) = Rank(g.kind)
  BY TupleShape
<1>2. \A kind \in DOMAIN FindingFields : FindingKinds[Rank(kind)] = kind
  <2> TAKE kind \in DOMAIN FindingFields
  <2>1. \E k \in DOMAIN FindingKinds : FindingKinds[k] = kind
    BY DEF FindingFields, FindingKinds
  <2> QED BY <2>1 DEF Rank
<1>3. f.kind = g.kind
  BY <1>1, <1>2, Zenon
<1>4. ASSUME DOMAIN f = DOMAIN g, \A key \in DOMAIN f : f[key] = g[key] PROVE f = g
  <2>1. f = [key \in DOMAIN f |-> f[key]] /\ g = [key \in DOMAIN f |-> g[key]]
    BY <1>1, <1>4
  <2> QED BY <1>4, <2>1
<1>5. CASE f.kind \in {"unmapped_anchor", "stale_mapping_anchor"}
  <2>1. DOMAIN f = {"kind", "anchor_id"} /\ DOMAIN g = DOMAIN f
    BY <1>3, <1>5, TupleShape
  <2>2. FindingTuple(f)[2] = f.anchor_id
    BY <1>3, <1>5, TupleShape
  <2>3. FindingTuple(g)[2] = g.anchor_id
    BY <1>3, <1>5, TupleShape
  <2>4. f.anchor_id = g.anchor_id
    BY <2>2, <2>3
  <2> QED BY <1>3, <1>4, <2>1, <2>4
<1>6. CASE f.kind = "broken_seed_path"
  <2>1. DOMAIN f = {"kind", "anchor_id", "seed_path"} /\ DOMAIN g = DOMAIN f
    BY <1>3, <1>6, TupleShape
  <2>2. /\ FindingTuple(f)[2] = f.anchor_id
        /\ FindingTuple(f)[3] = f.seed_path
    BY <1>3, <1>6, TupleShape
  <2>3. /\ FindingTuple(g)[2] = g.anchor_id
        /\ FindingTuple(g)[3] = g.seed_path
    BY <1>3, <1>6, TupleShape
  <2>4. f.anchor_id = g.anchor_id /\ f.seed_path = g.seed_path
    BY <2>2, <2>3
  <2> QED BY <1>3, <1>4, <2>1, <2>4
<1>7. CASE f.kind = "unresolved_static_edge"
  <2>1. DOMAIN f = {"kind", "importer", "specifier"} /\ DOMAIN g = DOMAIN f
    BY <1>3, <1>7, TupleShape
  <2>2. /\ FindingTuple(f)[2] = f.importer
        /\ FindingTuple(f)[3] = f.specifier
    BY <1>3, <1>7, TupleShape
  <2>3. /\ FindingTuple(g)[2] = g.importer
        /\ FindingTuple(g)[3] = g.specifier
    BY <1>3, <1>7, TupleShape
  <2>4. f.importer = g.importer /\ f.specifier = g.specifier
    BY <2>2, <2>3
  <2> QED BY <1>3, <1>4, <2>1, <2>4
<1>8. CASE f.kind = "unsupported_static_edge"
  <2>1. DOMAIN f = {"kind", "importer", "syntax_kind", "specifier"} /\ DOMAIN g = DOMAIN f
    BY <1>3, <1>8, TupleShape
  <2>2. /\ FindingTuple(f)[2] = f.importer
        /\ FindingTuple(f)[3] = (IF f.syntax_kind = "dynamic_import" THEN 1 ELSE 2)
        /\ FindingTuple(f)[4] = f.specifier
        /\ f.syntax_kind \in {"require_call", "dynamic_import"}
    BY <1>3, <1>8, TupleShape
  <2>3. /\ FindingTuple(g)[2] = g.importer
        /\ FindingTuple(g)[3] = (IF g.syntax_kind = "dynamic_import" THEN 1 ELSE 2)
        /\ FindingTuple(g)[4] = g.specifier
        /\ g.syntax_kind \in {"require_call", "dynamic_import"}
    BY <1>3, <1>8, TupleShape
  <2>4. f.importer = g.importer /\ f.syntax_kind = g.syntax_kind /\ f.specifier = g.specifier
    BY <2>2, <2>3
  <2> QED BY <1>3, <1>4, <2>1, <2>4
<1>9. CASE f.kind \in {"out_of_scope_static_edge", "unsupported_local_target"}
  <2>1. DOMAIN f = {"kind", "importer", "target_path"} /\ DOMAIN g = DOMAIN f
    BY <1>3, <1>9, TupleShape
  <2>2. /\ FindingTuple(f)[2] = f.importer
        /\ FindingTuple(f)[3] = f.target_path
    BY <1>3, <1>9, TupleShape
  <2>3. /\ FindingTuple(g)[2] = g.importer
        /\ FindingTuple(g)[3] = g.target_path
    BY <1>3, <1>9, TupleShape
  <2>4. f.importer = g.importer /\ f.target_path = g.target_path
    BY <2>2, <2>3
  <2> QED BY <1>3, <1>4, <2>1, <2>4
<1>10. CASE f.kind = "untraced_product_file"
  <2>1. DOMAIN f = {"kind", "path"} /\ DOMAIN g = DOMAIN f
    BY <1>3, <1>10, TupleShape
  <2>2. FindingTuple(f)[2] = f.path
    BY <1>3, <1>10, TupleShape
  <2>3. FindingTuple(g)[2] = g.path
    BY <1>3, <1>10, TupleShape
  <2>4. f.path = g.path
    BY <2>2, <2>3
  <2> QED BY <1>3, <1>4, <2>1, <2>4
<1> QED BY <1>1, <1>5, <1>6, <1>7, <1>8, <1>9, <1>10 DEF FindingFields

\* The list of a set of findings has them all, each once.
LEMMA SortedFindings ==
  ASSUME NEW S, IsFiniteSet(S), \A f \in S : OneOf(f, FindingFields)
  PROVE  /\ IsList(SortedBy(S, compareFindings))
         /\ \A k \in DOMAIN SortedBy(S, compareFindings) : SortedBy(S, compareFindings)[k] \in S
<1> DEFINE n == Cardinality(S)
           R == {pair \in S \X S : compareFindings(pair[1], pair[2])}
           Place(k) == CHOOSE x \in S : Cardinality({y \in S : compareFindings(y, x)}) = k - 1
           list == [k \in 1..n |-> Place(k)]
           tuple == [f \in S |-> FindingTuple(f)]
<1>1. \A f \in S : tuple[f] \in Tuples
  BY ReadFinding
<1>2. \A f, g \in S : <<f, g>> \in R <=> TupleBefore(tuple[f], tuple[g])
  BY DEF compareFindings, TupleBefore
<1>3. \A f, g \in S : tuple[f] = tuple[g] => f = g
  BY TupleTells
<1>4. StrictOrder(S, R)
  <2> HIDE DEF R, tuple
  <2>1. \A f \in S : <<f, f>> \notin R
    BY <1>1, <1>2, TupleOrder
  <2>2. \A f, g \in S : f = g \/ <<f, g>> \in R \/ <<g, f>> \in R
    BY <1>1, <1>2, <1>3, TupleOrder
  <2>3. \A f, g, h \in S : <<f, g>> \in R /\ <<g, h>> \in R => <<f, h>> \in R
    BY <1>1, <1>2, TupleOrder
  <2> QED BY <2>1, <2>2, <2>3 DEF StrictOrder
<1>5. \A x \in S : Below(S, R, x) = {y \in S : compareFindings(y, x)}
  BY DEF Below
<1>6. /\ n \in Nat
      /\ \A k \in 1..n : \E x \in S : Cardinality({y \in S : compareFindings(y, x)}) = k - 1
  <2>1. /\ Cardinality(S) \in Nat
        /\ \A k \in 1..Cardinality(S) : \E x \in S : Cardinality(Below(S, R, x)) = k - 1
    <3> HIDE DEF R
    <3> QED BY <1>4, Ranks
  <2> QED BY <1>5, <2>1
<1>7. \A k \in 1..n : Place(k) \in S
  BY <1>6
<1>9. list = SortedBy(S, compareFindings)
  BY DEF SortedBy
<1> HIDE DEF Place
<1>8. list = [k \in 1..n |-> list[k]] /\ \A k \in 1..n : list[k] \in S
  BY <1>7
<1> HIDE DEF list, n
<1> QED BY <1>6, <1>8, <1>9, Listed

\* So has that of a set of aliases.
LEMMA SortedAliases ==
  ASSUME NEW S \in SUBSET [prefix : Texts, target : Texts], IsFiniteSet(S)
  PROVE  /\ IsList(SortedBy(S, AliasBefore))
         /\ \A k \in DOMAIN SortedBy(S, AliasBefore) : SortedBy(S, AliasBefore)[k] \in S
<1> DEFINE n == Cardinality(S)
           R == {pair \in S \X S : AliasBefore(pair[1], pair[2])}
           Place(k) == CHOOSE x \in S : Cardinality({y \in S : AliasBefore(y, x)}) = k - 1
           list == [k \in 1..n |-> Place(k)]
<1>1. \A a \in S : a.prefix \in Nat /\ a.target \in Nat
  BY ArtifactsAssumption
<1>2. \A a, b \in S : <<a, b>> \in R <=> AliasBefore(a, b)
  OBVIOUS
<1>3. \A a, b \in S : a.prefix = b.prefix /\ a.target = b.target => a = b
  OBVIOUS
<1>4. StrictOrder(S, R)
  <2> HIDE DEF R
  <2>1. \A f \in S : <<f, f>> \notin R
    BY <1>1, <1>2 DEF AliasBefore
  <2>2. \A f, g \in S : f = g \/ <<f, g>> \in R \/ <<g, f>> \in R
    <3> TAKE f, g \in S
    <3>1. /\ f.prefix < g.prefix \/ g.prefix < f.prefix \/ f.prefix = g.prefix
          /\ f.target < g.target \/ g.target < f.target \/ f.target = g.target
      BY <1>1
    <3> QED BY <1>2, <1>3, <3>1 DEF AliasBefore
  <2>3. \A f, g, h \in S : <<f, g>> \in R /\ <<g, h>> \in R => <<f, h>> \in R
    BY <1>1, <1>2 DEF AliasBefore
  <2> QED BY <2>1, <2>2, <2>3 DEF StrictOrder
<1>5. \A x \in S : Below(S, R, x) = {y \in S : AliasBefore(y, x)}
  BY DEF Below
<1>6. /\ n \in Nat
      /\ \A k \in 1..n : \E x \in S : Cardinality({y \in S : AliasBefore(y, x)}) = k - 1
  <2>1. /\ Cardinality(S) \in Nat
        /\ \A k \in 1..Cardinality(S) : \E x \in S : Cardinality(Below(S, R, x)) = k - 1
    <3> HIDE DEF R
    <3> QED BY <1>4, Ranks
  <2> QED BY <1>5, <2>1
<1>7. \A k \in 1..n : Place(k) \in S
  BY <1>6
<1>9. list = SortedBy(S, AliasBefore)
  BY DEF SortedBy
<1> HIDE DEF Place
<1>8. list = [k \in 1..n |-> list[k]] /\ \A k \in 1..n : list[k] \in S
  BY <1>7
<1> HIDE DEF list, n
<1> QED BY <1>6, <1>8, <1>9, Listed

\* The readers accept the findings of a scan,
LEMMA MadeFindings ==
  ASSUME WrongIsNoFunction, NEW p \in Projects, NEW reached,
         NEW f \in BaseFindings(p) \union UntracedFindings(p, reached)
  PROVE  OneOf(f, FindingFields)
<1>1. ASSUME NEW a \in Anchors, NEW kind \in {"stale_mapping_anchor", "unmapped_anchor"}
      PROVE  OneOf([kind |-> kind, anchor_id |-> a], FindingFields)
  <2> DEFINE x == [kind |-> kind, anchor_id |-> a]
  <2>1. IsObject(x)
    BY Objects, FewFields
  <2>2. Leaf("anchor", a) /\ Leaf("kind", kind)
    BY LeafIs
  <2> QED BY <2>1, <2>2 DEF OneOf, Exact, FindingFields
<1>2. ASSUME NEW a \in Anchors, NEW s \in Paths
      PROVE  OneOf([kind |-> "broken_seed_path", anchor_id |-> a, seed_path |-> s], FindingFields)
  <2> DEFINE x == [kind |-> "broken_seed_path", anchor_id |-> a, seed_path |-> s]
  <2>1. IsObject(x)
    BY Objects, FewFields
  <2>2. Leaf("anchor", a) /\ Leaf("path", s) /\ Leaf("kind", "broken_seed_path")
    BY LeafIs
  <2> QED BY <2>1, <2>2 DEF OneOf, Exact, FindingFields
<1>3. ASSUME NEW s \in Paths
      PROVE  OneOf([kind |-> "untraced_product_file", path |-> s], FindingFields)
  <2> DEFINE x == [kind |-> "untraced_product_file", path |-> s]
  <2>1. IsObject(x)
    BY Objects, FewFields
  <2>2. Leaf("path", s) /\ Leaf("kind", "untraced_product_file")
    BY LeafIs
  <2> QED BY <2>1, <2>2 DEF OneOf, Exact, FindingFields
<1>4. /\ \A g \in p.graph : OneOf(g, FindingFields)
      /\ DOMAIN p.mappings \subseteq Anchors /\ Active(p) \subseteq Anchors
      /\ \A a \in DOMAIN p.mappings : p.mappings[a] \subseteq Paths
      /\ p.files \subseteq Paths
  BY ProjectsAssumption DEF Active
<1>5. CASE f \in BaseFindings(p)
  <2>1. \/ f \in p.graph
        \/ \E a \in DOMAIN p.mappings \ Active(p) : f = [kind |-> "stale_mapping_anchor", anchor_id |-> a]
        \/ \E a \in Active(p) \ DOMAIN p.mappings : f = [kind |-> "unmapped_anchor", anchor_id |-> a]
        \/ \E a \in DOMAIN p.mappings \intersect Active(p) : \E s \in p.mappings[a] \ p.files :
             f = [kind |-> "broken_seed_path", anchor_id |-> a, seed_path |-> s]
    BY <1>5 DEF BaseFindings
  <2> QED BY <1>1, <1>2, <1>4, <2>1
<1>6. CASE f \in UntracedFindings(p, reached)
  <2>1. \E s \in p.files : f = [kind |-> "untraced_product_file", path |-> s]
    BY <1>6 DEF UntracedFindings
  <2> QED BY <1>3, <1>4, <2>1
<1> QED BY <1>5, <1>6

LEMMA ScanFindingsRead ==
  ASSUME WrongIsNoFunction, NEW p \in Projects
  PROVE  AreFindings(ScanOf(p).findings)
<1> DEFINE reached == [a \in Usable(p) |-> ReachedFrom(p, p.mappings[a])]
           found == BaseFindings(p) \union UntracedFindings(p, reached)
<1>1. ScanOf(p).findings = SortedBy(found, compareFindings)
  BY DEF ScanOf
<1>2. IsFiniteSet(found)
  BY FindingsFinite
<1>3. \A f \in found : OneOf(f, FindingFields)
  BY MadeFindings
<1> HIDE DEF found
<1> DEFINE list == SortedBy(found, compareFindings)
<1>4. IsList(list) /\ \A k \in DOMAIN list : list[k] \in found
  BY <1>2, <1>3, SortedFindings
<1> HIDE DEF list
<1>5. AreFindings(list)
  BY <1>3, <1>4, Arrays DEF AreFindings
<1> QED BY <1>1, <1>5 DEF list

\* its configuration,
LEMMA ConfigRead ==
  ASSUME WrongIsNoFunction, NEW p \in Projects
  PROVE  IsConfig(ConfigView(p.config))
<1> DEFINE c == p.config
           v == ConfigView(c)
           aliases == SortedBy(c.local_aliases, AliasBefore)
<1>1. v = [version |-> 1, product_root |-> c.product_root, spec_roots |-> Sorted(c.spec_roots),
           ignore_roots |-> Sorted(c.ignore_roots), tsconfig_path |-> c.tsconfig_path,
           local_aliases |-> aliases]
  BY DEF ConfigView
<1>2. /\ c.product_root \in Paths /\ c.tsconfig_path \in {Null, "tsconfig.json"}
      /\ c.spec_roots \subseteq Paths /\ IsFiniteSet(c.spec_roots)
      /\ c.ignore_roots \subseteq Paths /\ IsFiniteSet(c.ignore_roots)
      /\ c.local_aliases \in SUBSET [prefix : Texts, target : Texts] /\ IsFiniteSet(c.local_aliases)
  BY ProjectsAssumption
<1> HIDE DEF c, v, aliases
<1>3. Leaf("paths", Sorted(c.spec_roots)) /\ Leaf("paths", Sorted(c.ignore_roots))
  BY <1>2, KeysRead
<1>4. Leaf("path", c.product_root) /\ Leaf("tsconfig", c.tsconfig_path)
  BY <1>2, LeafIs
<1>5. ListOf(aliases, [prefix |-> "text", target |-> "text"])
  <2>1. IsList(aliases) /\ \A k \in DOMAIN aliases : aliases[k] \in c.local_aliases
    BY <1>2, SortedAliases DEF aliases
  <2>2. ASSUME NEW a \in [prefix : Texts, target : Texts]
        PROVE  Exact(a, [prefix |-> "text", target |-> "text"])
    <3>1. IsObject(a)
      <4>1. a = [key \in DOMAIN a |-> a[key]] /\ DOMAIN a = {"prefix", "target"}
        OBVIOUS
      <4>2. IsFiniteSet(DOMAIN a)
        BY <4>1, FewFields
      <4> QED BY <4>1, <4>2, Objects
    <3> QED BY <3>1, LeafIs DEF Exact
  <2> QED BY <1>2, <2>1, <2>2, Arrays DEF ListOf
<1>6. IsObject(v)
  BY <1>1, Objects, FewFields
<1>7. Exact(v, ConfigFields)
  BY <1>1, <1>3, <1>4, <1>6, LeafIs DEF Exact, ConfigFields
<1> QED BY <1>1, <1>5, <1>7 DEF IsConfig, v, c

\* its anchors, mappings and files,
LEMMA ObservedRead ==
  ASSUME WrongIsNoFunction, NEW p \in Projects
  PROVE  AreObservedAnchors(ScanOf(p).observed_anchors, 5)
<1> DEFINE o == ScanOf(p).observed_anchors
<1>1. o = [a \in DOMAIN p.anchors |-> [spec_path     |-> p.anchors[a].spec_path,
                                       mapping_state |-> MappingStateOf(p, a),
                                       source        |-> p.anchors[a].source]]
  BY DEF ScanOf
<1> HIDE DEF o
<1>2. /\ DOMAIN p.anchors \subseteq Anchors /\ IsFiniteSet(DOMAIN p.anchors)
      /\ \A a \in DOMAIN p.anchors : /\ p.anchors[a].spec_path \in Paths
                                     /\ OneOf(p.anchors[a].source, SourceFields)
  BY ProjectsAssumption
<1>3. IsObject(o)
  BY <1>1, <1>2, Objects
<1>4. ASSUME NEW a \in DOMAIN p.anchors
      PROVE  /\ Exact(o[a], [spec_path |-> "path", mapping_state |-> "observed", source |-> "nested"])
             /\ OneOf(o[a].source, SourceFields)
  <2> DEFINE x == o[a]
  <2>1. x = [spec_path |-> p.anchors[a].spec_path, mapping_state |-> MappingStateOf(p, a),
             source |-> p.anchors[a].source]
    BY <1>1
  <2>2. MappingStateOf(p, a) \in {"absent", "usable", "invalid", "draft"}
    BY DEF MappingStateOf, StateOf
  <2> HIDE DEF x
  <2>3. IsObject(x)
    BY <2>1, Objects, FewFields
  <2>4. Exact(x, [spec_path |-> "path", mapping_state |-> "observed", source |-> "nested"])
    BY <1>2, <2>1, <2>2, <2>3, LeafIs DEF Exact
  <2> QED BY <1>2, <2>1, <2>4 DEF x
<1>5. MapOf(o, Anchors, [spec_path |-> "path", mapping_state |-> "observed", source |-> "nested"])
  BY <1>1, <1>2, <1>3, <1>4 DEF MapOf
<1>6. AreObservedAnchors(o, 5)
  <2>1. \A a \in DOMAIN o : OneOf(o[a].source, SourceFields)
    BY <1>1, <1>4
  <2>2. 5 # 4
    OBVIOUS
  <2> QED BY <1>5, <2>1, <2>2, Zenon DEF AreObservedAnchors
<1> QED BY <1>6 DEF o

LEMMA MappingsRead ==
  ASSUME WrongIsNoFunction, NEW p \in Projects
  PROVE  AreStoredMappings(ScanOf(p).stored_mappings)
<1> DEFINE reached == [a \in Usable(p) |-> ReachedFrom(p, p.mappings[a])]
           m == ScanOf(p).stored_mappings
<1>1. m = [a \in DOMAIN p.mappings |-> StoredMapping(p, reached, a)]
  BY DEF ScanOf
<1>2. /\ DOMAIN p.mappings \subseteq Anchors /\ IsFiniteSet(DOMAIN p.mappings)
      /\ \A a \in DOMAIN p.mappings : p.mappings[a] \subseteq Paths /\ IsFiniteSet(p.mappings[a])
      /\ p.files \subseteq Paths /\ IsFiniteSet(p.files)
  BY ProjectsAssumption
<1>3. \A a \in Usable(p) : reached[a] \subseteq p.files
  BY ReachedFacts
<1> HIDE DEF m, reached
<1>4. IsObject(m)
  BY <1>1, <1>2, Objects
<1>5. ASSUME NEW a \in DOMAIN p.mappings
      PROVE  Exact(m[a], [state |-> "stored", seed_files |-> "paths", reached_files |-> "paths"])
  <2> DEFINE x == m[a]
             files == IF a \in Usable(p) THEN Sorted(reached[a]) ELSE <<>>
  <2>1. x = [state |-> StateOf(p, a), seed_files |-> Sorted(p.mappings[a]), reached_files |-> files]
    BY <1>1 DEF StoredMapping
  <2>2. StateOf(p, a) \in {"usable", "invalid", "stale"}
    BY DEF StateOf
  <2>3. Leaf("paths", Sorted(p.mappings[a]))
    BY <1>2, KeysRead
  <2>4. Leaf("paths", files)
    <3>1. CASE a \in Usable(p)
      BY <1>2, <1>3, <3>1, KeysRead
    <3>2. CASE a \notin Usable(p)
      <4>2. IsList(<<>>) /\ DOMAIN <<>> = {}
        BY DEF IsList
      <4>3. IsArray(<<>>) /\ ToSet(<<>>) \subseteq Paths
        BY <4>2, Arrays DEF ToSet
      <4> QED BY <3>2, <4>3, LeafIs
    <3> QED BY <3>1, <3>2
  <2> HIDE DEF x, files
  <2>5. IsObject(x)
    BY <2>1, Objects, FewFields
  <2>6. Exact(x, [state |-> "stored", seed_files |-> "paths", reached_files |-> "paths"])
    BY <2>1, <2>2, <2>3, <2>4, <2>5, LeafIs DEF Exact
  <2> QED BY <2>6 DEF x
<1> QED BY <1>1, <1>2, <1>4, <1>5 DEF AreStoredMappings, MapOf, m

LEMMA FileViewsRead ==
  ASSUME WrongIsNoFunction, NEW p \in Projects
  PROVE  AreFiles(ScanOf(p).files)
<1> DEFINE reached == [a \in Usable(p) |-> ReachedFrom(p, p.mappings[a])]
           v == ScanOf(p).files
<1>1. v = [f \in p.files |-> FileView(p, reached, f)]
  BY DEF ScanOf
<1>2. /\ DOMAIN p.mappings \subseteq Anchors /\ IsFiniteSet(DOMAIN p.mappings)
      /\ p.files \subseteq Paths /\ IsFiniteSet(p.files)
      /\ \A f \in p.files : p.edges[f] \subseteq Paths /\ IsFiniteSet(p.edges[f])
  BY ProjectsAssumption
<1>3. \A f : Covering(reached, f) \subseteq DOMAIN p.mappings
  BY DEF Covering, Usable
<1> HIDE DEF v, reached
<1>4. IsObject(v)
  BY <1>1, <1>2, Objects
<1>5. ASSUME NEW f \in p.files
      PROVE  Exact(v[f], [covering_anchor_ids |-> "anchors", supported_local_targets |-> "paths"])
  <2> DEFINE x == v[f]
  <2>1. x = [covering_anchor_ids |-> Sorted(Covering(reached, f)),
             supported_local_targets |-> Sorted(p.edges[f])]
    BY <1>1 DEF FileView
  <2>2. Leaf("paths", Sorted(p.edges[f])) /\ Leaf("anchors", Sorted(Covering(reached, f)))
    BY <1>2, <1>3, KeysRead
  <2> HIDE DEF x
  <2>3. IsObject(x)
    BY <2>1, Objects, FewFields
  <2>4. Exact(x, [covering_anchor_ids |-> "anchors", supported_local_targets |-> "paths"])
    BY <2>1, <2>2, <2>3, LeafIs DEF Exact
  <2> QED BY <2>4 DEF x
<1> QED BY <1>1, <1>2, <1>4, <1>5 DEF AreFiles, MapOf, v

\* and its counters.
LEMMA AnchorCounters ==
  ASSUME NEW p \in Projects, NEW a,
         NEW reached, reached = [x \in Usable(p) |-> ReachedFrom(p, p.mappings[x])],
         NEW field \in AnchorMetricsFields
  PROVE  AnchorMetrics(p, reached, a)[field] \in Nat
<1> DEFINE seeds == IF a \in DOMAIN p.mappings THEN Cardinality(p.mappings[a]) ELSE 0
           direct == IF a \in Usable(p) THEN seeds ELSE 0
           files == IF a \in Usable(p) THEN reached[a] ELSE {}
           alone == {f \in files : Cardinality(Covering(reached, f)) = 1}
<1>1. /\ IsFiniteSet(p.files)
      /\ \A x \in DOMAIN p.mappings : IsFiniteSet(p.mappings[x])
  BY ProjectsAssumption
<1>2. a \in Usable(p) => /\ a \in DOMAIN p.mappings /\ p.mappings[a] \subseteq p.files
                         /\ reached[a] \subseteq p.files
  BY ReachedFacts DEF Usable, StateOf
<1>3. a \in Usable(p) => p.mappings[a] \subseteq reached[a]
  BY <1>2, ReachedFacts
<1>4. IsFiniteSet(files)
  <2>1. files \subseteq p.files
    BY <1>2
  <2> QED BY <1>1, <2>1, FS_Subset
<1>5. seeds \in Nat /\ direct \in Nat /\ Cardinality(files) \in Nat
  BY <1>1, <1>4, FS_CardinalityType
<1>6. direct <= Cardinality(files)
  <2>1. CASE a \in Usable(p)
    <3>1. Cardinality(p.mappings[a]) <= Cardinality(reached[a])
      BY <1>1, <1>3, <1>4, <2>1, FS_Subset
    <3> QED BY <1>2, <2>1, <3>1
  <2>2. CASE a \notin Usable(p)
    BY <1>5, <2>2
  <2> QED BY <2>1, <2>2
<1>7. Cardinality(alone) \in Nat /\ Cardinality(files \ alone) \in Nat
  <2>1. alone \subseteq files /\ files \ alone \subseteq files
    OBVIOUS
  <2> HIDE DEF alone, files
  <2>2. IsFiniteSet(alone) /\ IsFiniteSet(files \ alone)
    BY <1>4, <2>1, FS_Subset
  <2> QED BY <2>2, FS_CardinalityType
<1>8. AnchorMetrics(p, reached, a) =
        [seed_file_count               |-> seeds,
         direct_seed_file_count        |-> direct,
         reached_file_count            |-> Cardinality(files),
         transitive_reached_file_count |-> Cardinality(files) - direct,
         unique_reached_file_count     |-> Cardinality(alone),
         shared_reached_file_count     |-> Cardinality(files \ alone)]
  BY DEF AnchorMetrics
<1> HIDE DEF seeds, direct, files, alone
<1>9. Cardinality(files) - direct \in Nat
  BY <1>5, <1>6
<1> DEFINE transitive == Cardinality(files) - direct
<1>10. transitive \in Nat
  BY <1>9
<1>11. AnchorMetrics(p, reached, a).transitive_reached_file_count = transitive
  BY <1>8
<1> HIDE DEF transitive
<1> DEFINE m == AnchorMetrics(p, reached, a)
<1>12. /\ m.seed_file_count \in Nat /\ m.direct_seed_file_count \in Nat
       /\ m.reached_file_count \in Nat
  BY <1>5, <1>8
<1>13. m.unique_reached_file_count \in Nat /\ m.shared_reached_file_count \in Nat
  <2>1. /\ m.unique_reached_file_count = Cardinality(alone)
        /\ m.shared_reached_file_count = Cardinality(files \ alone)
    BY <1>8
  <2> QED BY <1>7, <2>1, Zenon
<1>14. m.transitive_reached_file_count \in Nat
  BY <1>10, <1>11
<1> HIDE DEF m
<1>15. m[field] \in Nat
  BY <1>12, <1>13, <1>14, Zenon DEF AnchorMetricsFields
<1> QED BY <1>15 DEF m

LEMMA SummaryCounters ==
  ASSUME NEW p \in Projects, NEW reached, NEW field \in SummaryFields
  PROVE  Summary(p, reached)[field] \in Nat
<1> DEFINE CoveredBy(counts) == {f \in p.files : Cardinality(Covering(reached, f)) \in counts}
           seeded == UNION {p.mappings[a] : a \in Usable(p)}
<1>1. /\ IsFiniteSet(p.files) /\ IsFiniteSet(DOMAIN p.mappings) /\ IsFiniteSet(DOMAIN p.anchors)
  BY ProjectsAssumption
<1>2. /\ Usable(p) \subseteq DOMAIN p.mappings /\ Active(p) \subseteq DOMAIN p.anchors
      /\ DOMAIN p.anchors \ Active(p) \subseteq DOMAIN p.anchors
      /\ seeded \subseteq p.files
  BY DEF Usable, Active, StateOf
<1>3. \A counts : CoveredBy(counts) \subseteq p.files
  OBVIOUS
<1> HIDE DEF CoveredBy, seeded
<1>4. /\ Cardinality(p.files) \in Nat /\ Cardinality(DOMAIN p.mappings) \in Nat
      /\ Cardinality(DOMAIN p.anchors) \in Nat
      /\ Cardinality(Usable(p)) \in Nat /\ Cardinality(Active(p)) \in Nat
      /\ Cardinality(DOMAIN p.anchors \ Active(p)) \in Nat
      /\ Cardinality(seeded) \in Nat
      /\ \A counts : Cardinality(CoveredBy(counts)) \in Nat
  BY <1>1, <1>2, <1>3, FS_Subset, FS_CardinalityType
<1>5. Summary(p, reached) =
        [product_file_count                 |-> Cardinality(p.files),
         stored_mapping_count               |-> Cardinality(DOMAIN p.mappings),
         usable_mapping_count               |-> Cardinality(Usable(p)),
         observed_anchor_count              |-> Cardinality(DOMAIN p.anchors),
         active_anchor_count                |-> Cardinality(Active(p)),
         draft_anchor_count                 |-> Cardinality(DOMAIN p.anchors \ Active(p)),
         covered_product_file_count         |-> Cardinality(CoveredBy(Nat \ {0})),
         uncovered_product_file_count       |-> Cardinality(CoveredBy({0})),
         directly_seeded_product_file_count |-> Cardinality(seeded),
         single_cover_product_file_count    |-> Cardinality(CoveredBy({1})),
         multi_cover_product_file_count     |-> Cardinality(CoveredBy(Nat \ {0, 1}))]
  BY DEF Summary, CoveredBy, seeded
<1> QED BY <1>4, <1>5 DEF SummaryFields

LEMMA MetricsRead ==
  ASSUME WrongIsNoFunction, NEW p \in Projects
  PROVE  AreMetrics(ScanOf(p).traceability_metrics)
<1> DEFINE reached == [a \in Usable(p) |-> ReachedFrom(p, p.mappings[a])]
           summary == Summary(p, reached)
           keys == DOMAIN p.anchors \union DOMAIN p.mappings
           anchors == [a \in keys |-> AnchorMetrics(p, reached, a)]
           m == ScanOf(p).traceability_metrics
<1>1. m = [summary |-> summary, anchors |-> anchors]
  BY DEF ScanOf
<1>2. keys \subseteq Anchors /\ IsFiniteSet(keys)
  BY ProjectsAssumption, FS_Union
<1>3. Exact(summary, Counted(SummaryFields, "count"))
  <2>1. DOMAIN summary = SummaryFields /\ summary = [field \in DOMAIN summary |-> summary[field]]
    BY DEF Summary, SummaryFields
  <2>2. \A field \in SummaryFields : summary[field] \in Nat
    BY SummaryCounters
  <2> HIDE DEF summary
  <2>3. IsObject(summary)
    BY <2>1, SummaryIsFinite, Objects
  <2> QED BY <2>1, <2>2, <2>3, LeafIs DEF Exact, Counted
<1>4. ASSUME NEW a \in keys PROVE Exact(anchors[a], Counted(AnchorMetricsFields, "count"))
  <2> DEFINE x == AnchorMetrics(p, reached, a)
  <2>1. DOMAIN x = AnchorMetricsFields /\ x = [field \in DOMAIN x |-> x[field]]
    BY DEF AnchorMetrics, AnchorMetricsFields
  <2>2. \A field \in AnchorMetricsFields : x[field] \in Nat
    BY AnchorCounters
  <2>3. anchors[a] = x
    OBVIOUS
  <2> HIDE DEF x, anchors
  <2>4. IsFiniteSet(AnchorMetricsFields)
    BY FewFields DEF AnchorMetricsFields
  <2>5. IsObject(x)
    BY <2>1, <2>4, Objects
  <2> QED BY <2>1, <2>2, <2>3, <2>5, LeafIs DEF Exact, Counted
<1>5. DOMAIN anchors = keys /\ IsObject(anchors)
  <2>1. DOMAIN anchors = keys /\ anchors = [a \in DOMAIN anchors |-> anchors[a]]
    OBVIOUS
  <2> HIDE DEF anchors, keys
  <2> QED BY <1>2, <2>1, Objects
<1> HIDE DEF m, summary, anchors, keys
<1>6. Exact(m, [summary |-> "nested", anchors |-> "nested"])
  <2>1. IsObject(m)
    BY <1>1, Objects, FewFields
  <2> QED BY <1>1, <2>1, LeafIs DEF Exact
<1>7. AreMetrics(m)
  BY <1>1, <1>2, <1>3, <1>4, <1>5, <1>6 DEF AreMetrics, MapOf
<1> QED BY <1>7 DEF m

\* A scan is read back.
LEMMA ScanRead ==
  ASSUME WrongIsNoFunction, NEW p \in Projects
  PROVE  IsScan(ScanOf(p))
<1> DEFINE scan == ScanOf(p)
           fields == {"schema_version", "config", "analysis_health", "observed_anchors",
                      "stored_mappings", "files", "traceability_metrics", "findings"}
<1>1. /\ scan.schema_version = 5 /\ scan.config = ConfigView(p.config)
      /\ scan = [field \in DOMAIN scan |-> scan[field]] /\ DOMAIN scan = fields
  BY DEF ScanOf
<1>2. scan.analysis_health \in {"clean", "degraded"}
  BY DEF ScanOf, analysisHealth
<1>3. /\ IsConfig(scan.config) /\ AreObservedAnchors(scan.observed_anchors, scan.schema_version)
      /\ AreStoredMappings(scan.stored_mappings) /\ AreFiles(scan.files)
      /\ AreMetrics(scan.traceability_metrics) /\ AreFindings(scan.findings)
  <2>1. AreObservedAnchors(scan.observed_anchors, scan.schema_version)
    BY <1>1, ObservedRead
  <2>2. IsConfig(scan.config)
    BY <1>1, ConfigRead
  <2> QED BY <2>1, <2>2, MappingsRead, FileViewsRead, MetricsRead, ScanFindingsRead
<1> HIDE DEF scan
<1>4. IsObject(scan)
  <2>1. \A a, b, c, d, e, f, g, h : IsFiniteSet({a, b, c, d, e, f, g, h})
    <3> TAKE a, b, c, d, e, f, g, h
    <3>1. {a, b, c, d, e, f, g, h, h, h, h, h} = {a, b, c, d, e, f, g, h}
      OBVIOUS
    <3> QED BY <3>1, More
  <2>2. IsFiniteSet(fields)
    BY <2>1, Zenon
  <2> HIDE DEF fields
  <2> QED BY <1>1, <2>2, Objects
<1>5. Exact(scan, ScanFields)
  BY <1>1, <1>2, <1>4, LeafIs DEF Exact, ScanFields
<1> QED BY <1>3, <1>5 DEF IsScan, scan

-----------------------------------------------------------------------------
(* what is written is read *)

\* A file that holds what a command has written holds it as it was, and what reads the
\* artifacts of that file accepts it.
Kept(s) ==
  written[s] # Null =>
    file[s] = JsonFile("canonical", written[s]) /\ Acceptable(ReaderOf(s), written[s])
RInv == CInv /\ \A s \in Slots : Kept(s)

\* What a command leaves.
LEMMA EndsRInv ==
  ASSUME RInv, CInv', NEW command, NEW args, NEW target \in Slots \union {Null}, NEW exit, NEW why,
         NEW json, NEW view, Ends(command, args, target, exit, why, json, view),
         target # Null /\ view # Null => json = view /\ Acceptable(ReaderOf(target), view)
  PROVE  RInv'
<1>1. ASSUME NEW s \in Slots PROVE Kept(s)'
  <2>1. CASE s = target /\ target # Null
    <3>1. /\ file'[s] = IF view = Null THEN Garbled ELSE JsonFile("canonical", json)
          /\ written'[s] = view
      BY <2>1 DEF Ends, RInv, CInv
    <3> QED BY <2>1, <3>1 DEF Kept
  <2>2. CASE ~(s = target /\ target # Null)
    <3>1. file'[s] = file[s] /\ written'[s] = written[s]
      BY <2>2 DEF Ends, RInv, CInv
    <3> QED BY <3>1 DEF Kept, RInv
  <2> QED BY <2>1, <2>2
<1> QED BY <1>1 DEF RInv

LEMMA PrintsRInv ==
  ASSUME RInv, CInv', NEW command, NEW args, NEW target \in Slots \union {Null}, NEW exit,
         NEW json, NEW view, Prints(command, args, target, exit, json, view),
         target # Null /\ view # Null => json = view /\ Acceptable(ReaderOf(target), view)
  PROVE  RInv'
BY EndsRInv, Zenon DEF Prints

LEMMA FailsRInv ==
  ASSUME RInv, CInv', NEW command, NEW args, NEW target \in Slots \union {Null}, NEW exit, NEW why,
         Fails(command, args, target, exit, why)
  PROVE  RInv'
BY EndsRInv, Zenon DEF Fails

\* A scan that was read is one.
LEMMA ScanOfOption ==
  ASSUME NEW files, NEW option \in {"--scan", "--base", "--head"}, NEW token,
         Loaded(files, option, token) # Refused
  PROVE  IsScan(Loaded(files, option, token))
BY DEF Loaded, Acceptable

\* What a check and a diff write about what they have read.
LEMMA CheckRInv ==
  ASSUME WrongIsNoFunction, RInv, CInv', NEW args, NEW target \in Targets("check", args),
         Check(args, target)
  PROVE  RInv'
<1> DEFINE options == CommandArgs("check", args)
           files   == Truncated(target)
           live    == ~Given(options, "--scan")
           policy  == Option(files, options, "--policy")
           scan    == IF live THEN ScanOf(project) ELSE Option(files, options, "--scan")
           result  == evaluatePolicy(scan, policy)
<1>1. target = Null \/ target = "check.json"
  BY DEF Targets
<1>2. target \in Slots \union {Null}
  BY <1>1 DEF Slots
<1>3. policy = Loaded(files, "--policy", options["--policy"][1])
  BY PolicyGiven DEF Check, Option
<1>4. \/ \E exit, why : Fails("check", args, target, exit, why)
      \/ /\ policy # Refused /\ (~live => scan # Refused)
         /\ \E exit : Prints("check", args, target, exit, RenderPolicyResult(result), result)
  BY Zenon DEF Check
<1>5. CASE \E exit, why : Fails("check", args, target, exit, why)
  BY <1>2, <1>5, FailsRInv
<1>6. CASE /\ policy # Refused /\ (~live => scan # Refused)
           /\ \E exit : Prints("check", args, target, exit, RenderPolicyResult(result), result)
  <2>1. IsPolicy(policy)
    BY <1>3, <1>6, ReadPolicy
  <2>2. IsScan(scan)
    <3>1. CASE live
      BY <3>1, ScanRead DEF RInv, CInv
    <3>2. CASE ~live
      <4>1. scan = Loaded(files, "--scan", options["--scan"][1])
        BY <3>2 DEF Option
      <4> QED BY <1>6, <3>2, <4>1, ScanOfOption
    <3> QED BY <3>1, <3>2
  <2> HIDE DEF scan, policy
  <2>3. IsPolicyResult(result) /\ RenderPolicyResult(result) = result
    BY <2>1, <2>2, CheckRead, PolicyResultSame
  <2>4. target # Null => Acceptable(ReaderOf(target), result)
    BY <1>1, <2>3 DEF ReaderOf, Acceptable, ScanSlots
  <2> HIDE DEF result
  <2> QED BY <1>2, <1>6, <2>3, <2>4, PrintsRInv
<1> QED BY <1>4, <1>5, <1>6

LEMMA DiffRInv ==
  ASSUME WrongIsNoFunction, RInv, CInv', NEW args, NEW target \in Targets("diff", args),
         Diff(args, target)
  PROVE  RInv'
<1> DEFINE options == CommandArgs("diff", args)
           files   == Truncated(target)
           base    == Loaded(files, "--base", options["--base"][1])
           head    == Loaded(files, "--head", options["--head"][1])
           diff    == diffScanResults(base, head)
<1>1. target = Null \/ target = "diff.json"
  BY DEF Targets
<1>2. target \in Slots \union {Null}
  BY <1>1 DEF Slots
<1>3. /\ Option(files, options, "--base") = base
      /\ Option(files, options, "--head") = head
  BY ScansGiven DEF Diff, Option
<1>4. IF Refused \in {base, head} THEN Fails("diff", args, target, 4, "input")
      ELSE Prints("diff", args, target, 0, RenderDiff(diff), diff)
  BY <1>3 DEF Diff
<1>5. CASE Refused \in {base, head}
  BY <1>2, <1>4, <1>5, FailsRInv
<1>6. CASE base # Refused /\ head # Refused
  <2>1. IsScan(base) /\ IsScan(head)
    BY <1>6, ScanOfOption
  <2> HIDE DEF base, head
  <2>2. IsDiff(diff) /\ RenderDiff(diff) = diff
    BY <2>1, DiffRead, DiffSame
  <2>3. target # Null => Acceptable(ReaderOf(target), diff)
    BY <1>1, <2>2 DEF ReaderOf, Acceptable, ScanSlots
  <2>4. Prints("diff", args, target, 0, RenderDiff(diff), diff)
    BY <1>4, <1>6
  <2> HIDE DEF diff
  <2> QED BY <1>2, <2>2, <2>3, <2>4, PrintsRInv
<1> QED BY <1>5, <1>6

LEMMA ScanRInv ==
  ASSUME WrongIsNoFunction, RInv, CInv', NEW args, NEW target \in Targets("scan", args),
         Scan(args, target)
  PROVE  RInv'
<1> DEFINE scan == ScanOf(project)
<1>1. target = Null \/ target \in ScanSlots
  BY DEF Targets
<1>2. target \in Slots \union {Null}
  BY <1>1 DEF Slots
<1>3. IsScan(scan) /\ RenderScan(scan) = scan
  BY ScanRead, ScanSame DEF RInv, CInv
<1>4. IF project.fault # 0 THEN Fails("scan", args, target, project.fault, "project")
      ELSE Prints("scan", args, target, 0, RenderScan(scan), scan)
  BY DEF Scan
<1> HIDE DEF scan
<1>5. target # Null => Acceptable(ReaderOf(target), scan)
  BY <1>1, <1>3 DEF ReaderOf, Acceptable, ScanSlots
<1> QED BY <1>2, <1>3, <1>4, <1>5, FailsRInv, PrintsRInv

\* No command breaks the invariant, and neither does any other step.
LEMMA RunRInv ==
  ASSUME WrongIsNoFunction, RInv, CInv', NEW command \in Commands, NEW args,
         NEW target \in Targets(command, args), Run(command, args, target)
  PROVE  RInv'
<1>1. command \notin {"scan", "check", "diff"} => target = Null
  BY DEF Targets
<1>2. target \in Slots \union {Null}
  BY DEF Targets, Slots
<1>3. CASE command = "scan" /\ Scan(args, target)
  BY <1>3, ScanRInv
<1>4. CASE command = "check" /\ Check(args, target)
  BY <1>4, CheckRInv
<1>5. CASE command = "diff" /\ Diff(args, target)
  BY <1>5, DiffRInv
<1>6. CASE command = "explain" /\ Explain(args, target)
  BY <1>1, <1>2, <1>6, FailsRInv, PrintsRInv, Zenon DEF Explain
<1>7. CASE command = "report" /\ Report(args, target)
  BY <1>1, <1>2, <1>7, FailsRInv, EndsRInv, Zenon DEF Report
<1>8. CASE command = "bundle" /\ Bundle(args, target)
  BY <1>1, <1>2, <1>8, FailsRInv, PrintsRInv, Zenon DEF Bundle
<1>9. CASE HandOver(command, args)
  BY <1>9, EndsRInv, Zenon DEF HandOver
<1>10. CASE RefuseArguments(command, args, target)
  BY <1>2, <1>10, FailsRInv, Zenon DEF RefuseArguments
<1> QED BY <1>3, <1>4, <1>5, <1>6, <1>7, <1>8, <1>9, <1>10 DEF Run

LEMMA NextRInv == WrongIsNoFunction /\ RInv /\ [Next]_vars => RInv'
<1> SUFFICES ASSUME WrongIsNoFunction, RInv, [Next]_vars PROVE RInv'
  OBVIOUS
<1>0. CInv'
  BY NextCInv DEF RInv
<1>1. ASSUME NEW command \in Commands, NEW call \in Calls(command), Run(command, call[1], call[2])
      PROVE  RInv'
  <2>1. call[2] \in Targets(command, call[1])
    BY DEF Calls
  <2> QED BY <1>0, <1>1, <2>1, RunRInv
<1>2. CASE file' = file /\ written' = written
  BY <1>0, <1>2 DEF RInv, Kept
<1>3. CASE Prompt \/ ChangeProject \/ UNCHANGED vars
  BY <1>2, <1>3 DEF Prompt, ChangeProject, vars
<1>4. ASSUME NEW s \in Slots, Edit(s) PROVE RInv'
  <2>1. \A x \in Slots \ {s} : file'[x] = file[x]
    BY <1>4 DEF Edit, RInv, CInv
  <2>2. written' = [written EXCEPT ![s] = Null]
    BY <1>4 DEF Edit
  <2>3. \A x \in Slots : Kept(x)'
    BY <2>1, <2>2 DEF Kept, RInv, CInv
  <2> QED BY <1>0, <2>3 DEF RInv
<1> QED BY <1>1, <1>3, <1>4 DEF Next

\* A bundle has all four of its artifacts.
LEMMA PartsGiven ==
  ASSUME NEW args, CommandArgs("bundle", args) # Refused
  PROVE  /\ Given(CommandArgs("bundle", args), "--scan")
         /\ Given(CommandArgs("bundle", args), "--check")
         /\ Given(CommandArgs("bundle", args), "--diff")
BY DEF CommandArgs, Validated, parseBundleArgs, Requiring, Given

\* The digests of a bundle are those of the files it was made of.
LEMMA BundleHashes ==
  ASSUME NEW scan, IsScan(scan), NEW check, IsPolicyResult(check), NEW diff, IsDiff(diff),
         NEW metadata, NEW version
  PROVE  LET hashes == RenderBundle(buildArtifactBundle(scan, check, diff, metadata, version)).hashes
         IN  /\ hashes["scan_sha256"] = Bytes("canonical", scan)
             /\ hashes["check_sha256"] = Bytes("canonical", check)
             /\ hashes["diff_sha256"] = Bytes("canonical", diff)
<1> DEFINE bundle == buildArtifactBundle(scan, check, diff, metadata, version)
<1>1. bundle.hashes = [scan_sha256  |-> sha256Hex(RenderScan(scan)),
                       check_sha256 |-> sha256Hex(RenderPolicyResult(check)),
                       diff_sha256  |-> sha256Hex(RenderDiff(diff))]
  BY DEF buildArtifactBundle
<1> HIDE DEF bundle
<1>2. RenderBundle(bundle).hashes = Object(bundle.hashes, {"scan_sha256", "check_sha256", "diff_sha256"})
  BY DEF RenderBundle
<1>3. /\ RenderBundle(bundle).hashes["scan_sha256"] = sha256Hex(RenderScan(scan))
      /\ RenderBundle(bundle).hashes["check_sha256"] = sha256Hex(RenderPolicyResult(check))
      /\ RenderBundle(bundle).hashes["diff_sha256"] = sha256Hex(RenderDiff(diff))
  BY <1>1, <1>2 DEF Object
<1> QED BY <1>3, ScanSame, PolicyResultSame, DiffSame DEF sha256Hex, bundle

\* Every artifact the tool vouches for is read back.
WrittenIsRead == \A s \in Slots : written[s] # Null => Loaded(file, ReaderOf(s), s) = written[s]

LEMMA KeptIsRead == RInv => WrittenIsRead
<1> SUFFICES ASSUME RInv, NEW s \in Slots, written[s] # Null
             PROVE  Loaded(file, ReaderOf(s), s) = written[s]
  BY DEF WrittenIsRead
<1>1. file[s] = JsonFile("canonical", written[s]) /\ Acceptable(ReaderOf(s), written[s])
  BY DEF RInv, Kept
<1>2. FileAt(file, s) = JsonFile("canonical", written[s])
  BY <1>1 DEF FileAt
<1> QED BY <1>1, <1>2 DEF Loaded, JsonFile

\* A bundle has the digests of its files,
DigestsMatch ==
  Ran("bundle") /\ outcome.json # Null =>
    \A pair \in {<<"--scan", "scan_sha256">>, <<"--check", "check_sha256">>,
                 <<"--diff", "diff_sha256">>} :
      FileOf(pair[1]).form = "canonical" =>
        outcome.json.hashes[pair[2]] = Bytes("canonical", FileOf(pair[1]).json)

LEMMA BundleStep ==
  ASSUME NEW args, NEW target \in Targets("bundle", args), Bundle(args, target)
  PROVE  DigestsMatch'
<1> DEFINE options == CommandArgs("bundle", args)
           scan == Loaded(file, "--scan", options["--scan"][1])
           check == Loaded(file, "--check", options["--check"][1])
           diff == Loaded(file, "--diff", options["--diff"][1])
           metadata == Option(file, options, "--metadata")
           bundle == buildArtifactBundle(scan, check, diff, metadata, ToolVersion)
<1>1. target = Null
  BY DEF Targets
<1>2. /\ Option(file, options, "--scan") = scan
      /\ Option(file, options, "--check") = check
      /\ Option(file, options, "--diff") = diff
  BY PartsGiven DEF Bundle, Option
<1>3. IF Refused \in {scan, check, diff, metadata} THEN Fails("bundle", args, target, 4, "input")
      ELSE Prints("bundle", args, target, 0, RenderBundle(bundle), bundle)
  BY <1>2 DEF Bundle
<1>4. CASE Refused \in {scan, check, diff, metadata}
  <2>1. outcome'.json = Null
    BY <1>3, <1>4 DEF Fails, Ends
  <2> QED BY <2>1 DEF DigestsMatch
<1>5. CASE Refused \notin {scan, check, diff, metadata}
  <2>1. /\ file' = file /\ outcome'.options = options
        /\ outcome'.json \in {RenderBundle(bundle), Null}
    <3> HIDE DEF scan, check, diff, metadata, bundle
    <3> QED BY <1>1, <1>3, <1>5 DEF Prints, Ends
  <2>2. /\ IsScan(scan) /\ scan = FileAt(file, options["--scan"][1]).json
        /\ IsPolicyResult(check) /\ check = FileAt(file, options["--check"][1]).json
        /\ IsDiff(diff) /\ diff = FileAt(file, options["--diff"][1]).json
    BY <1>5 DEF Loaded, Acceptable
  <2> HIDE DEF scan, check, diff, metadata
  <2>3. LET hashes == RenderBundle(bundle).hashes
        IN  /\ hashes["scan_sha256"] = Bytes("canonical", scan)
            /\ hashes["check_sha256"] = Bytes("canonical", check)
            /\ hashes["diff_sha256"] = Bytes("canonical", diff)
    BY <2>2, BundleHashes
  <2> HIDE DEF bundle
  <2>4. /\ FileOf("--scan")'.json = scan /\ FileOf("--check")'.json = check
        /\ FileOf("--diff")'.json = diff
    BY <2>1, <2>2 DEF FileOf, Value
  <2>5. CASE outcome'.json = Null
    BY <2>5 DEF DigestsMatch
  <2>6. CASE outcome'.json = RenderBundle(bundle)
    <3>1. /\ outcome'.json.hashes["scan_sha256"] = Bytes("canonical", FileOf("--scan")'.json)
          /\ outcome'.json.hashes["check_sha256"] = Bytes("canonical", FileOf("--check")'.json)
          /\ outcome'.json.hashes["diff_sha256"] = Bytes("canonical", FileOf("--diff")'.json)
      BY <2>3, <2>4, <2>6
    <3> QED BY <3>1 DEF DigestsMatch
  <2> QED BY <2>1, <2>5, <2>6
<1> QED BY <1>4, <1>5

LEMMA NextDigests == DigestsMatch /\ [Next]_vars => DigestsMatch'
<1> SUFFICES ASSUME DigestsMatch, [Next]_vars PROVE DigestsMatch'
  OBVIOUS
<1>1. CASE outcome' = Null
  BY <1>1 DEF DigestsMatch, Ran
<1>2. CASE UNCHANGED vars
  <2>1. file' = file /\ outcome' = outcome
    BY <1>2 DEF vars
  <2>2. \A option : Value(option)' = Value(option)
    BY <2>1 DEF Value
  <2>3. /\ FileOf("--scan")' = FileOf("--scan") /\ FileOf("--check")' = FileOf("--check")
        /\ FileOf("--diff")' = FileOf("--diff")
    BY <2>1, <2>2 DEF FileOf
  <2> QED BY <2>1, <2>3 DEF DigestsMatch, Ran
<1>3. ASSUME NEW command \in Commands, NEW call \in Calls(command), Run(command, call[1], call[2]),
             outcome'.command = command
      PROVE  DigestsMatch'
  <2>1. CASE command # "bundle"
    BY <1>3, <2>1 DEF DigestsMatch, Ran
  <2>2. CASE RefuseArguments(command, call[1], call[2])
    BY <2>2 DEF DigestsMatch, RefuseArguments, Fails, Ends
  <2>3. CASE command = "bundle" /\ ~RefuseArguments(command, call[1], call[2])
    <3>1. Bundle(call[1], call[2])
      BY <1>3, <2>3 DEF Run
    <3>2. call[2] \in Targets("bundle", call[1])
      BY <2>3 DEF Calls
    <3> QED BY <3>1, <3>2, BundleStep
  <2> QED BY <2>1, <2>2, <2>3
<1> QED BY <1>1, <1>2, <1>3, OutcomeOf

\* The artifacts the commands write are those the readers accept, and they are read as
\* they were written, whatever the projects, the policies and the files are; a bundle
\* carries the digests of the files it was made of.  Wrong must be what it stands for,
\* no list and no object (render-json.ts, artifact-json-validation.ts,
\* artifact-policy-validation.ts, bundle-model.ts).
THEOREM ArtifactsAreReadBack == WrongIsNoFunction => (Spec => []WhatIsWrittenIsRead)
<1> SUFFICES ASSUME WrongIsNoFunction PROVE Spec => []WhatIsWrittenIsRead
  OBVIOUS
<1>1. Init => RInv /\ DigestsMatch
  <2>1. Init => \A s \in Slots : written[s] = Null
    BY DEF Init
  <2>2. Init => outcome = Null
    BY DEF Init
  <2> QED BY <2>1, <2>2, InitCInv DEF RInv, Kept, DigestsMatch, Ran
<1>2. RInv /\ DigestsMatch /\ [Next]_vars => (RInv /\ DigestsMatch)'
  BY NextRInv, NextDigests
<1>3. RInv /\ DigestsMatch => WhatIsWrittenIsRead
  BY KeptIsRead DEF WrittenIsRead, DigestsMatch, WhatIsWrittenIsRead
<1> QED BY <1>1, <1>2, <1>3, PTL DEF Spec

-----------------------------------------------------------------------------
(* the explanation of an anchor *)

\* The paths of length n from the seeds, along the imports of a scan.
Chains(scan, seeds, K, n) ==
  {q \in [1..n -> K] : q[1] \in seeds /\ \A i \in 1..(n - 1) : q[i + 1] \in TargetsIn(scan, q[i])}

\* The seeds are among the files of K, and no import leads out of it.
ClosedWith(scan, seeds, K) == seeds \subseteq K /\ \A f \in K : TargetsIn(scan, f) \subseteq K

\* The paths of a set with one more file.
Longer(scan, set) == UNION {{Append(path, t) : t \in TargetsIn(scan, Last(path))} : path \in set}

\* Every path but a single file is another and one more file.
LEMMA ChainsGrow ==
  ASSUME NEW scan, NEW K, NEW seeds, ClosedWith(scan, seeds, K),
         NEW k \in Nat, k >= 1
  PROVE  Chains(scan, seeds, K, k + 1) = Longer(scan, Chains(scan, seeds, K, k))
<1> DEFINE After(path) == {Append(path, t) : t \in TargetsIn(scan, Last(path))}
<1>0. \A f \in K : TargetsIn(scan, f) \subseteq K
  BY DEF ClosedWith
<1>1. ASSUME NEW path \in Chains(scan, seeds, K, k), NEW t \in TargetsIn(scan, Last(path))
      PROVE  Append(path, t) \in Chains(scan, seeds, K, k + 1)
  <2>1. /\ path \in [1..k -> K] /\ path[1] \in seeds
        /\ \A i \in 1..(k - 1) : path[i + 1] \in TargetsIn(scan, path[i])
    BY DEF Chains
  <2>2. path \in Seq(K) /\ Len(path) = k /\ Last(path) = path[k]
    BY <2>1 DEF Last
  <2>3. t \in K
    BY <1>0, <2>1, <2>2
  <2> DEFINE q == Append(path, t)
  <2>4. q \in [1..(k + 1) -> K] /\ q[k + 1] = t /\ \A i \in 1..k : q[i] = path[i]
    <3>1. q \in Seq(K) /\ Len(q) = k + 1
      BY <2>2, <2>3
    <3>2. q[k + 1] = t /\ \A i \in 1..k : q[i] = path[i]
      BY <2>2, <2>3
    <3> HIDE DEF q
    <3> QED BY <3>1, <3>2
  <2> HIDE DEF q
  <2>5. ASSUME NEW i \in 1..k PROVE q[i + 1] \in TargetsIn(scan, q[i])
    <3>1. CASE i = k
      BY <2>2, <2>4, <3>1
    <3>2. CASE i # k
      <4>1. i \in 1..(k - 1) /\ i + 1 \in 1..k
        BY <3>2
      <4> QED BY <2>1, <2>4, <4>1
    <3> QED BY <3>1, <3>2
  <2>6. q[1] \in seeds /\ (k + 1) - 1 = k
    BY <2>1, <2>4
  <2>7. q \in Chains(scan, seeds, K, k + 1)
    BY <2>4, <2>5, <2>6 DEF Chains
  <2> QED BY <2>7 DEF q
<1>2. ASSUME NEW q \in Chains(scan, seeds, K, k + 1)
      PROVE  \E path \in Chains(scan, seeds, K, k) :
               \E t \in TargetsIn(scan, Last(path)) : q = Append(path, t)
  <2>1. /\ q \in [1..(k + 1) -> K] /\ q[1] \in seeds
        /\ \A i \in 1..k : q[i + 1] \in TargetsIn(scan, q[i])
    BY DEF Chains
  <2> DEFINE path == [i \in 1..k |-> q[i]]
             t == q[k + 1]
  <2>2. path \in [1..k -> K] /\ path[1] \in seeds
        /\ \A i \in 1..(k - 1) : path[i + 1] \in TargetsIn(scan, path[i])
    BY <2>1
  <2>3. path \in Chains(scan, seeds, K, k)
    BY <2>2 DEF Chains
  <2>4. path \in Seq(K) /\ Len(path) = k /\ Last(path) = q[k]
    BY <2>1 DEF Last
  <2>5. t \in TargetsIn(scan, Last(path))
    BY <2>1, <2>4
  <2>6. q = Append(path, t)
    BY <2>1, <2>4
  <2> QED BY <2>3, <2>5, <2>6
<1> DEFINE all == Chains(scan, seeds, K, k)
<1>3. \A path, q : q \in After(path) <=> \E t \in TargetsIn(scan, Last(path)) : q = Append(path, t)
  OBVIOUS
<1>4. Longer(scan, all) = UNION {After(path) : path \in all}
  BY DEF Longer
<1> HIDE DEF After, all
<1>5. \A q : q \in Longer(scan, all) <=> \E path \in all : q \in After(path)
  BY <1>4
<1>6. ASSUME NEW q \in Longer(scan, all) PROVE q \in Chains(scan, seeds, K, k + 1)
  <2>1. PICK path \in all : q \in After(path)
    BY <1>5
  <2>2. PICK t \in TargetsIn(scan, Last(path)) : q = Append(path, t)
    BY <1>3, <2>1
  <2>3. path \in Chains(scan, seeds, K, k)
    BY DEF all
  <2> QED BY <1>1, <2>2, <2>3
<1>7. ASSUME NEW q \in Chains(scan, seeds, K, k + 1) PROVE q \in Longer(scan, all)
  <2>1. PICK path \in all : \E t \in TargetsIn(scan, Last(path)) : q = Append(path, t)
    BY <1>2 DEF all
  <2> QED BY <1>3, <1>5, <2>1
<1> QED BY <1>6, <1>7 DEF all

\* So PathsOf is those.
LEMMA PathsAreChains ==
  ASSUME NEW scan, NEW K, NEW seeds, ClosedWith(scan, seeds, K),
         NEW n \in Nat, n >= 1
  PROVE  PathsOf(scan, seeds, n) = Chains(scan, seeds, K, n)
<1> DEFINE single == {<<s>> : s \in seeds}
           paths == CHOOSE paths : paths =
                      [k \in 0..n |->
                        IF k <= 1 THEN {<<s>> : s \in seeds}
                        ELSE UNION {{Append(path, t) : t \in TargetsIn(scan, Last(path))} :
                                      path \in paths[k - 1]}]
           g == [k \in 0..n |-> IF k <= 1 THEN single ELSE Chains(scan, seeds, K, k)]
<1>1. PathsOf(scan, seeds, n) = paths[n]
  BY DEF PathsOf
<1>2. single = Chains(scan, seeds, K, 1)
  <2>0. seeds \subseteq K
    BY DEF ClosedWith
  <2>1. \A s \in seeds : <<s>> \in Chains(scan, seeds, K, 1)
    BY <2>0 DEF Chains
  <2>2. ASSUME NEW q \in Chains(scan, seeds, K, 1) PROVE q[1] \in seeds /\ q = <<q[1]>>
    BY DEF Chains
  <2> QED BY <2>1, <2>2
<1> HIDE DEF single
<1>3. \A k \in 0..n : k >= 1 => g[k] = Chains(scan, seeds, K, k)
  BY <1>2
<1>4. \A k \in 0..n : k > 1 => Chains(scan, seeds, K, k) = Longer(scan, Chains(scan, seeds, K, k - 1))
  <2> TAKE k \in 0..n
  <2> HAVE k > 1
  <2> DEFINE m == k - 1
  <2>1. m \in Nat /\ m >= 1 /\ m + 1 = k
    OBVIOUS
  <2> HIDE DEF m
  <2>2. Chains(scan, seeds, K, m + 1) = Longer(scan, Chains(scan, seeds, K, m))
    BY <2>1, ChainsGrow
  <2> QED BY <2>1, <2>2 DEF m
<1>5. \A k \in 0..n : g[k] = IF k <= 1 THEN single ELSE Longer(scan, g[k - 1])
  <2> TAKE k \in 0..n
  <2>1. CASE k <= 1
    BY <2>1
  <2>2. CASE k > 1
    <3>1. k - 1 \in 0..n /\ k - 1 >= 1 /\ ~(k <= 1)
      BY <2>2
    <3>2. g[k] = Chains(scan, seeds, K, k) /\ g[k - 1] = Chains(scan, seeds, K, k - 1)
      BY <1>3, <2>2, <3>1
    <3> HIDE DEF g
    <3> QED BY <1>4, <2>2, <3>1, <3>2
  <2> QED BY <2>1, <2>2
<1>6. g = [k \in 0..n |-> IF k <= 1 THEN single ELSE Longer(scan, g[k - 1])]
  <2>1. g = [k \in 0..n |-> g[k]]
    OBVIOUS
  <2> HIDE DEF g
  <2> QED BY <1>5, <2>1
<1> HIDE DEF g
<1>7. paths = [k \in 0..n |-> IF k <= 1 THEN single ELSE Longer(scan, paths[k - 1])]
  BY <1>6, Zenon DEF single, Longer
<1> HIDE DEF paths
<1> DEFINE N == {k \in Nat : k + 1 <= n => paths[k + 1] = Chains(scan, seeds, K, k + 1)}
<1>8. 0 \in N
  BY <1>2, <1>7
<1>9. ASSUME NEW k \in Nat, k \in N PROVE k + 1 \in N
  <2> SUFFICES ASSUME (k + 1) + 1 <= n PROVE paths[(k + 1) + 1] = Chains(scan, seeds, K, (k + 1) + 1)
    OBVIOUS
  <2> DEFINE m == (k + 1) + 1
  <2>1. m \in 0..n /\ m > 1 /\ ~(m <= 1) /\ m - 1 = k + 1 /\ k + 1 <= n
    OBVIOUS
  <2> HIDE DEF m
  <2>2. paths[m] = Longer(scan, paths[m - 1])
    BY <1>7, <2>1
  <2>3. paths[m - 1] = Chains(scan, seeds, K, m - 1)
    BY <1>9, <2>1
  <2>4. paths[m] = Chains(scan, seeds, K, m)
    BY <1>4, <2>1, <2>2, <2>3
  <2> QED BY <2>4 DEF m
<1>10. n - 1 \in N
  <2> HIDE DEF N
  <2>1. n - 1 \in Nat
    OBVIOUS
  <2> QED BY <1>8, <1>9, <2>1, InductionOverNat
<1>11. (n - 1) + 1 = n
  OBVIOUS
<1> QED BY <1>1, <1>10, <1>11

\* One turn of the loop over the queue.
Turn(scan, w, n) ==
  IF n > Len(w.queue) THEN w
  ELSE LET current == w.queue[n]
           new == TargetsIn(scan, current) \ DOMAIN w.path
       IN  [path  |-> [f \in DOMAIN w.path \union new |->
                         IF f \in new THEN Append(w.path[current], f) ELSE w.path[f]],
            queue |-> w.queue \o Sorted(new)]

Walks(K) ==
  {w \in [path : UNION {[D -> Seq(K)] : D \in SUBSET K}, queue : Seq(K)] :
     \A i \in DOMAIN w.queue : w.queue[i] \in DOMAIN w.path}

\* What a turn that finds a file to look at does: the files it finds come last in the
\* queue, each with the path of the file looked at and itself.
Moved(scan, K, w, n, v) ==
  LET current == w.queue[n]
      new == TargetsIn(scan, current) \ DOMAIN w.path
      m == Len(w.queue)
  IN  /\ v \in Walks(K)
      /\ current \in DOMAIN w.path /\ m \in Nat
      /\ IsFiniteSet(new) /\ new \subseteq K /\ Cardinality(new) \in Nat
      /\ DOMAIN v.path = DOMAIN w.path \union new
      /\ \A f \in DOMAIN w.path : v.path[f] = w.path[f]
      /\ \A f \in new : v.path[f] = Append(w.path[current], f)
      /\ Len(v.queue) = m + Cardinality(new)
      /\ \A i \in 1..m : v.queue[i] = w.queue[i]
      /\ \A i \in 1..(m + Cardinality(new)) : i > m => v.queue[i] \in new
      /\ \A f \in new : \E i \in 1..(m + Cardinality(new)) : i > m /\ v.queue[i] = f

LEMMA TurnDoes ==
  ASSUME NEW scan, NEW seeds, NEW K \in SUBSET Nat, IsFiniteSet(K), ClosedWith(scan, seeds, K),
         NEW w \in Walks(K), NEW n \in Nat, n >= 1, n <= Len(w.queue)
  PROVE  Moved(scan, K, w, n, Turn(scan, w, n))
<1> DEFINE p == w.path
           q == w.queue
           D == DOMAIN p
           m == Len(q)
           current == q[n]
           new == TargetsIn(scan, current) \ D
           r == Cardinality(new)
           list == Sorted(new)
           longer == [f \in D \union new |-> IF f \in new THEN Append(p[current], f) ELSE p[f]]
<1>1. /\ q \in Seq(K) /\ m \in Nat /\ DOMAIN q = 1..m /\ \A i \in 1..m : q[i] \in D
      /\ D \subseteq K /\ p \in [D -> Seq(K)]
  <2>1. w.path \in UNION {[E -> Seq(K)] : E \in SUBSET K} /\ w.queue \in Seq(K)
        /\ \A i \in DOMAIN w.queue : w.queue[i] \in DOMAIN w.path
    BY DEF Walks
  <2>2. PICK E \in SUBSET K : w.path \in [E -> Seq(K)]
    BY <2>1
  <2>3. /\ q \in Seq(K) /\ \A i \in DOMAIN q : q[i] \in D
        /\ p \in [E -> Seq(K)]
    BY <2>1, <2>2
  <2> HIDE DEF p, q
  <2>4. D = E /\ m \in Nat /\ DOMAIN q = 1..m
    BY <2>3
  <2> QED BY <2>3, <2>4
<1>2. Turn(scan, w, n) = [path |-> longer, queue |-> q \o list]
  <2>1. ~(n > m)
    BY <1>1
  <2> QED BY <2>1 DEF Turn
<1> HIDE DEF p, q, m
<1>3. n \in 1..m /\ n <= m
  BY <1>1 DEF m, q
<1>4. current \in D /\ current \in K
  BY <1>1, <1>3
<1> HIDE DEF current
<1>5. new \subseteq K /\ IsFiniteSet(new) /\ new \intersect D = {}
  <2>1. new \subseteq K /\ new \intersect D = {}
    BY <1>4 DEF ClosedWith
  <2> HIDE DEF new
  <2> QED BY <2>1, FS_Subset
<1> HIDE DEF D, new
<1>6. /\ r \in Nat /\ list \in [1..r -> new] /\ \A f \in new : \E i \in 1..r : list[i] = f
  <2>1. new \in SUBSET Nat
    BY <1>5
  <2> QED BY <1>5, <2>1, SortedFacts
<1> HIDE DEF r, list
<1>7. list \in Seq(K) /\ Len(list) = r
  <2>1. list \in [1..r -> K]
    BY <1>5, <1>6
  <2> QED BY <1>6, <2>1
<1>8. /\ q \o list \in Seq(K) /\ Len(q \o list) = m + r
      /\ \A i \in 1..m : (q \o list)[i] = q[i]
      /\ \A i \in 1..(m + r) : i > m => (q \o list)[i] = list[i - m]
  BY <1>1, <1>7 DEF m
<1> DEFINE queue == q \o list
<1>9. queue \in Seq(K) /\ Len(queue) = m + r /\ \A i \in 1..m : queue[i] = q[i]
  BY <1>8
<1>10. \A i \in 1..(m + r) : i > m => queue[i] = list[i - m]
  BY <1>8
<1>11. \A i \in 1..(m + r) : i > m => i - m \in 1..r
  BY <1>1, <1>6
<1> HIDE DEF queue
<1>12. \A i \in 1..(m + r) : i > m => queue[i] \in new
  BY <1>6, <1>10, <1>11
<1>13. \A f \in new : \E i \in 1..(m + r) : i > m /\ queue[i] = f
  <2> TAKE f \in new
  <2>1. PICK i \in 1..r : list[i] = f
    BY <1>6
  <2>2. m + i \in 1..(m + r) /\ m + i > m /\ (m + i) - m = i
    BY <1>1, <1>6
  <2> QED BY <1>10, <2>1, <2>2
<1>14. /\ DOMAIN longer = D \union new
       /\ \A f \in D : longer[f] = p[f]
       /\ \A f \in new : longer[f] = Append(p[current], f)
  BY <1>5
<1>15. longer \in [D \union new -> Seq(K)]
  <2>1. \A f \in new : Append(p[current], f) \in Seq(K)
    BY <1>1, <1>4, <1>5
  <2>2. \A f \in D : p[f] \in Seq(K)
    BY <1>1
  <2> QED BY <2>1, <2>2
<1> HIDE DEF longer
<1>16. D \union new \in SUBSET K
  BY <1>1, <1>5
<1>17. \A i \in DOMAIN queue : queue[i] \in D \union new
  <2> TAKE i \in DOMAIN queue
  <2>1. i \in 1..(m + r)
    BY <1>9
  <2>2. i \in 1..m \/ i > m
    BY <1>1, <1>6, <2>1
  <2> QED BY <1>1, <1>9, <1>12, <2>1, <2>2
<1>18. [path |-> longer, queue |-> queue] \in Walks(K)
  BY <1>9, <1>14, <1>15, <1>16, <1>17 DEF Walks
<1>19. Turn(scan, w, n) = [path |-> longer, queue |-> queue]
  BY <1>2 DEF queue
<1> DEFINE v == Turn(scan, w, n)
<1>20. v.path = longer /\ v.queue = queue /\ v \in Walks(K)
  BY <1>18, <1>19
<1> HIDE DEF v
<1>21. /\ v \in Walks(K)
       /\ current \in D /\ m \in Nat
       /\ IsFiniteSet(new) /\ new \subseteq K /\ r \in Nat
       /\ DOMAIN v.path = D \union new
       /\ \A f \in D : v.path[f] = p[f]
       /\ \A f \in new : v.path[f] = Append(p[current], f)
       /\ Len(v.queue) = m + r
       /\ \A i \in 1..m : v.queue[i] = q[i]
       /\ \A i \in 1..(m + r) : i > m => v.queue[i] \in new
       /\ \A f \in new : \E i \in 1..(m + r) : i > m /\ v.queue[i] = f
  BY <1>1, <1>4, <1>5, <1>6, <1>9, <1>12, <1>13, <1>14, <1>20, Zenon
<1> QED BY <1>21, Zenon DEF Moved, v, D, m, r, new, current, p, q

\* A turn leaves a walk.
LEMMA TurnWalks ==
  ASSUME NEW scan, NEW seeds, NEW K \in SUBSET Nat, IsFiniteSet(K), ClosedWith(scan, seeds, K),
         NEW w \in Walks(K), NEW n \in Nat, n >= 1
  PROVE  Turn(scan, w, n) \in Walks(K)
<1>1. CASE n > Len(w.queue)
  BY <1>1 DEF Turn
<1>2. CASE n <= Len(w.queue)
  BY <1>2, TurnDoes DEF Moved
<1>3. Len(w.queue) \in Nat
  BY DEF Walks
<1> QED BY <1>1, <1>2, <1>3

\* How far from a seed the i-th file of the queue was found.
Depth(w, i) == Len(w.path[w.queue[i]])

\* The state of the walk after n turns.  The queue lists the files that have a path, those
\* nearer to a seed first; what the files looked at import has a path that is at most one
\* longer; and nothing in the queue is more than one farther than the next to look at.
IsWalk(scan, seeds, K, w) ==
  /\ w \in Walks(K) /\ seeds \subseteq DOMAIN w.path
  /\ \A f \in DOMAIN w.path :
       /\ Len(w.path[f]) \in Nat /\ Len(w.path[f]) >= 1
       /\ w.path[f] \in Chains(scan, seeds, K, Len(w.path[f])) /\ Last(w.path[f]) = f
  /\ \A s \in seeds : Len(w.path[s]) = 1
  /\ Len(w.queue) = Cardinality(DOMAIN w.path)
  /\ \A f \in DOMAIN w.path : \E i \in 1..Len(w.queue) : w.queue[i] = f
NearFirst(w) == \A i, j \in 1..Len(w.queue) : i <= j => Depth(w, i) <= Depth(w, j)
LookedAt(scan, w, n) ==
  \A i \in 1..Len(w.queue) : i <= n =>
    \A t \in TargetsIn(scan, w.queue[i]) : t \in DOMAIN w.path /\ Len(w.path[t]) <= Depth(w, i) + 1
OneAhead(w, n) ==
  n + 1 <= Len(w.queue) => \A j \in 1..Len(w.queue) : Depth(w, j) <= Depth(w, n + 1) + 1
Walked(scan, seeds, K, w, n) ==
  IsWalk(scan, seeds, K, w) /\ NearFirst(w) /\ LookedAt(scan, w, n) /\ OneAhead(w, n)

\* A path and one more file is a path.
LEMMA ChainAppend ==
  ASSUME NEW scan, NEW K, NEW seeds, ClosedWith(scan, seeds, K), NEW k \in Nat, k >= 1,
         NEW path \in Chains(scan, seeds, K, k), NEW t \in TargetsIn(scan, Last(path))
  PROVE  /\ Append(path, t) \in Chains(scan, seeds, K, k + 1)
         /\ Len(path) = k /\ Len(Append(path, t)) = k + 1 /\ Last(Append(path, t)) = t
<1>1. path \in Seq(K) /\ Len(path) = k /\ Last(path) = path[k] /\ path[k] \in K
  BY DEF Chains, Last
<1>2. t \in K
  BY <1>1 DEF ClosedWith
<1>3. Append(path, t) \in Longer(scan, Chains(scan, seeds, K, k))
  BY DEF Longer
<1>4. Append(path, t) \in Chains(scan, seeds, K, k + 1)
  BY <1>3, ChainsGrow
<1>5. Len(Append(path, t)) = k + 1 /\ Append(path, t)[k + 1] = t
  BY <1>1, <1>2
<1> QED BY <1>1, <1>4, <1>5 DEF Last

\* A turn leaves the walk as it should be.
LEMMA TurnKeepsWalked ==
  ASSUME NEW scan, NEW seeds, NEW K \in SUBSET Nat, IsFiniteSet(K), ClosedWith(scan, seeds, K),
         NEW w, NEW n \in Nat, Walked(scan, seeds, K, w, n)
  PROVE  Walked(scan, seeds, K, Turn(scan, w, n + 1), n + 1)
<1> DEFINE m == Len(w.queue)
           v == Turn(scan, w, n + 1)
           D == DOMAIN w.path
           current == w.queue[n + 1]
           new == TargetsIn(scan, current) \ D
           r == Cardinality(new)
           d == Len(w.path[current])
<1>0. w \in Walks(K) /\ m \in Nat /\ n + 1 \in Nat /\ n + 1 >= 1
  BY DEF Walked, IsWalk, Walks
<1>1. CASE n + 1 > m
  <2>1. v = w
    BY <1>1 DEF Turn
  <2>2. LookedAt(scan, w, n + 1) /\ OneAhead(w, n + 1)
    BY <1>0, <1>1 DEF Walked, LookedAt, OneAhead
  <2> HIDE DEF v
  <2> QED BY <2>1, <2>2 DEF Walked, v
<1>2. CASE n + 1 <= m
  <2>1. /\ v \in Walks(K)
        /\ current \in D
        /\ IsFiniteSet(new) /\ new \subseteq K /\ r \in Nat
        /\ DOMAIN v.path = D \union new
        /\ \A f \in D : v.path[f] = w.path[f]
        /\ \A f \in new : v.path[f] = Append(w.path[current], f)
        /\ Len(v.queue) = m + r
        /\ \A i \in 1..m : v.queue[i] = w.queue[i]
        /\ \A i \in 1..(m + r) : i > m => v.queue[i] \in new
        /\ \A f \in new : \E i \in 1..(m + r) : i > m /\ v.queue[i] = f
    <3>1. n + 1 <= Len(w.queue)
      BY <1>2
    <3>2. Moved(scan, K, w, n + 1, v)
      BY <1>0, <3>1, TurnDoes
    <3> HIDE DEF v
    <3> QED BY <1>0, <3>2 DEF Moved
  <2>2. \A i \in 1..m : w.queue[i] \in D
    BY <1>0 DEF Walks
  <2>3. /\ \A f \in D : /\ Len(w.path[f]) \in Nat /\ Len(w.path[f]) >= 1
                        /\ w.path[f] \in Chains(scan, seeds, K, Len(w.path[f])) /\ Last(w.path[f]) = f
        /\ seeds \subseteq D /\ \A s \in seeds : Len(w.path[s]) = 1
        /\ m = Cardinality(D)
        /\ \A f \in D : \E i \in 1..m : w.queue[i] = f
    BY DEF Walked, IsWalk
  <2>4. new \intersect D = {} /\ new \subseteq TargetsIn(scan, current)
        /\ TargetsIn(scan, current) \subseteq D \union new
    OBVIOUS
  <2>5. D \subseteq K /\ IsFiniteSet(D)
    <3>1. D \subseteq K
      BY <1>0 DEF Walks
    <3> QED BY <3>1, FS_Subset
  <2>6. d \in Nat /\ d >= 1
    BY <2>1, <2>3
  <2>7. \A f \in new : /\ v.path[f] \in Chains(scan, seeds, K, d + 1)
                       /\ Len(v.path[f]) = d + 1 /\ Last(v.path[f]) = f
    <3>1. w.path[current] \in Chains(scan, seeds, K, d) /\ Last(w.path[current]) = current
      BY <2>1, <2>3
    <3> TAKE f \in new
    <3>2. f \in TargetsIn(scan, Last(w.path[current]))
      BY <3>1
    <3>3. v.path[f] = Append(w.path[current], f)
      BY <2>1
    <3> HIDE DEF v, d, new, current
    <3> QED BY <2>6, <3>1, <3>2, <3>3, ChainAppend
  <2>8. NearFirst(w) /\ LookedAt(scan, w, n) /\ OneAhead(w, n)
    BY DEF Walked
  <2> HIDE DEF v, D, new, r, d, m
  <2>9. Cardinality(D \union new) = m + r
    <3>1. /\ Cardinality(D \union new)
                = Cardinality(D) + Cardinality(new) - Cardinality(D \intersect new)
          /\ D \intersect new = {}
      BY <2>1, <2>4, <2>5, FS_Union
    <3>2. Cardinality(D \intersect new) = 0
      BY <3>1, FS_EmptySet
    <3>3. m \in Nat /\ r = Cardinality(new)
      BY <1>0 DEF m, r
    <3> QED BY <2>1, <2>3, <3>1, <3>2, <3>3
  <2>10. /\ \A i \in 1..m : Depth(v, i) = Depth(w, i)
         /\ \A i \in 1..(m + r) : i > m => Depth(v, i) = d + 1
    BY <2>1, <2>2, <2>7 DEF Depth
  <2>11. \A i \in 1..m : Depth(w, i) \in Nat
    BY <2>2, <2>3 DEF Depth
  <2>12. n + 1 \in 1..m /\ Depth(w, n + 1) = d
    BY <1>0, <1>2 DEF Depth, d
  <2>13. \A i \in 1..m : Depth(w, i) <= d + 1
    BY <1>2, <2>8, <2>12 DEF OneAhead, m
  <2>14. \A i \in 1..m : i >= n + 1 => d <= Depth(w, i)
    BY <2>8, <2>12 DEF NearFirst, m
  <2>15. IsWalk(scan, seeds, K, v)
    <3>1. seeds \subseteq DOMAIN v.path /\ \A s \in seeds : Len(v.path[s]) = 1
      BY <2>1, <2>3
    <3>2. ASSUME NEW f \in DOMAIN v.path
          PROVE  /\ Len(v.path[f]) \in Nat /\ Len(v.path[f]) >= 1
                 /\ v.path[f] \in Chains(scan, seeds, K, Len(v.path[f])) /\ Last(v.path[f]) = f
                 /\ \E i \in 1..(m + r) : v.queue[i] = f
      <4>1. CASE f \in D
        <5>1. PICK i \in 1..m : w.queue[i] = f
          BY <2>3, <4>1
        <5>2. i \in 1..(m + r) /\ v.queue[i] = f
          BY <1>0, <2>1, <5>1 DEF m
        <5> QED BY <2>1, <2>3, <4>1, <5>2
      <4>2. CASE f \in new
        BY <2>1, <2>6, <2>7, <4>2
      <4> QED BY <2>1, <4>1, <4>2
    <3>3. Len(v.queue) = Cardinality(DOMAIN v.path)
      BY <2>1, <2>9
    <3> QED BY <2>1, <3>1, <3>2, <3>3 DEF IsWalk
  <2>16. NearFirst(v)
    <3> SUFFICES ASSUME NEW i \in 1..(m + r), NEW j \in 1..(m + r), i <= j
                 PROVE  Depth(v, i) <= Depth(v, j)
      BY <2>1 DEF NearFirst
    <3>1. CASE j <= m
      <4>1. i \in 1..m /\ j \in 1..m
        BY <1>0, <3>1 DEF m
      <4> QED BY <2>8, <2>10, <4>1 DEF NearFirst, m
    <3>2. CASE j > m /\ i <= m
      <4>1. i \in 1..m
        BY <1>0, <3>2 DEF m
      <4> QED BY <2>10, <2>13, <3>2, <4>1
    <3>3. CASE i > m
      <4>1. j > m
        BY <1>0, <3>3 DEF m
      <4> QED BY <2>6, <2>10, <3>3, <4>1
    <3>4. m \in Nat
      BY <1>0 DEF m
    <3> QED BY <3>1, <3>2, <3>3, <3>4
  <2>17. LookedAt(scan, v, n + 1)
    <3> SUFFICES ASSUME NEW i \in 1..(m + r), i <= n + 1, NEW t \in TargetsIn(scan, v.queue[i])
                 PROVE  t \in DOMAIN v.path /\ Len(v.path[t]) <= Depth(v, i) + 1
      BY <2>1 DEF LookedAt
    <3>1. i \in 1..m /\ Depth(v, i) = Depth(w, i) /\ v.queue[i] = w.queue[i]
      <4>1. i \in 1..m
        BY <1>0, <2>12 DEF m
      <4> QED BY <2>1, <2>10, <4>1
    <3>2. CASE i <= n
      <4>1. t \in D /\ Len(w.path[t]) <= Depth(w, i) + 1
        BY <2>8, <3>1, <3>2 DEF LookedAt, m, D
      <4> QED BY <2>1, <3>1, <4>1
    <3>3. CASE i = n + 1
      <4>1. t \in TargetsIn(scan, current) /\ Depth(v, i) = d
        BY <2>12, <3>1, <3>3
      <4>2. CASE t \in new
        BY <2>1, <2>6, <2>7, <4>1, <4>2
      <4>3. CASE t \in D
        <5>1. PICK j \in 1..m : w.queue[j] = t
          BY <2>3, <4>3
        <5>2. Len(w.path[t]) <= d + 1
          BY <2>13, <5>1 DEF Depth
        <5> QED BY <2>1, <4>1, <4>3, <5>2
      <4> QED BY <2>4, <4>1, <4>2, <4>3
    <3> QED BY <3>2, <3>3
  <2>18. OneAhead(v, n + 1)
    <3> SUFFICES ASSUME (n + 1) + 1 <= m + r, NEW j \in 1..(m + r)
                 PROVE  Depth(v, j) <= Depth(v, (n + 1) + 1) + 1
      BY <2>1 DEF OneAhead
    <3> DEFINE k == (n + 1) + 1
    <3>1. k \in 1..(m + r) /\ k >= n + 1 /\ m \in Nat
      BY <1>0 DEF m
    <3> HIDE DEF k
    <3>2. Depth(v, k) \in Nat /\ d <= Depth(v, k)
      <4>1. CASE k <= m
        <5>1. k \in 1..m
          BY <3>1, <4>1
        <5> QED BY <2>10, <2>11, <2>14, <3>1, <5>1
      <4>2. CASE k > m
        BY <2>6, <2>10, <3>1, <4>2
      <4> QED BY <3>1, <4>1, <4>2
    <3>3. Depth(v, j) \in Nat /\ Depth(v, j) <= d + 1
      <4>1. CASE j <= m
        <5>1. j \in 1..m
          BY <3>1, <4>1
        <5> QED BY <2>10, <2>11, <2>13, <5>1
      <4>2. CASE j > m
        BY <2>6, <2>10, <4>2
      <4> QED BY <3>1, <4>1, <4>2
    <3>4. Depth(v, j) <= Depth(v, k) + 1
      BY <2>6, <3>2, <3>3
    <3> QED BY <3>4 DEF k
  <2>19. Walked(scan, seeds, K, v, n + 1)
    BY <2>15, <2>16, <2>17, <2>18 DEF Walked
  <2> QED BY <2>19 DEF v
<1> HIDE DEF m
<1> QED BY <1>0, <1>1, <1>2

\* The walk before its first turn: the seeds, each with itself as its path.
AtSeeds(start) == [path |-> [s \in start |-> <<s>>], queue |-> Sorted(start)]

LEMMA WalkStarts ==
  ASSUME NEW scan, NEW seeds, NEW K \in SUBSET Nat, IsFiniteSet(K), ClosedWith(scan, seeds, K)
  PROVE  Walked(scan, seeds, K, AtSeeds(seeds), 0)
<1> DEFINE w == AtSeeds(seeds)
           path == [s \in seeds |-> <<s>>]
           queue == Sorted(seeds)
           n == Cardinality(seeds)
<1>1. seeds \subseteq K /\ seeds \in SUBSET Nat /\ IsFiniteSet(seeds)
  <2>1. seeds \subseteq K
    BY DEF ClosedWith
  <2> QED BY <2>1, FS_Subset
<1>2. /\ n \in Nat /\ queue \in [1..n -> seeds] /\ \A f \in seeds : \E i \in 1..n : queue[i] = f
  BY <1>1, SortedFacts
<1>3. w.path = path /\ w.queue = queue /\ w = [path |-> path, queue |-> queue]
  BY DEF AtSeeds
<1>4. /\ DOMAIN path = seeds /\ path \in [seeds -> Seq(K)]
      /\ \A s \in seeds : path[s] = <<s>> /\ Len(path[s]) = 1 /\ Last(path[s]) = s
  BY <1>1 DEF Last
<1> HIDE DEF w, path, queue, n
<1>5. queue \in [1..n -> K] /\ Len(queue) = n /\ DOMAIN queue = 1..n
  <2>1. queue \in [1..n -> K]
    BY <1>1, <1>2
  <2>2. queue \in Seq(K) /\ Len(queue) = n
    BY <1>2, <2>1
  <2> QED BY <2>1, <2>2
<1>6. w \in Walks(K)
  <2>1. queue \in Seq(K)
    BY <1>2, <1>5
  <2>2. path \in UNION {[D -> Seq(K)] : D \in SUBSET K}
    BY <1>1, <1>4
  <2>3. \A i \in DOMAIN queue : queue[i] \in DOMAIN path
    BY <1>2, <1>4, <1>5
  <2> QED BY <1>3, <2>1, <2>2, <2>3 DEF Walks
<1>7. \A s \in seeds : path[s] \in Chains(scan, seeds, K, Len(path[s]))
  <2> TAKE s \in seeds
  <2>1. <<s>> \in Chains(scan, seeds, K, 1)
    BY <1>1 DEF Chains
  <2> QED BY <1>4, <2>1
<1>8. IsWalk(scan, seeds, K, w)
  <2>1. \A f \in DOMAIN path :
          /\ Len(path[f]) \in Nat /\ Len(path[f]) >= 1
          /\ path[f] \in Chains(scan, seeds, K, Len(path[f])) /\ Last(path[f]) = f
    <3> TAKE f \in DOMAIN path
    <3>1. f \in seeds
      BY <1>4
    <3>2. Len(path[f]) = 1 /\ Last(path[f]) = f
      BY <1>4, <3>1
    <3>3. path[f] \in Chains(scan, seeds, K, Len(path[f]))
      BY <1>7, <3>1, Zenon
    <3>4. Len(path[f]) \in Nat /\ Len(path[f]) >= 1
      BY <3>2
    <3> QED BY <3>2, <3>3, <3>4
  <2>2. /\ seeds \subseteq DOMAIN path /\ \A s \in seeds : Len(path[s]) = 1
        /\ Len(queue) = Cardinality(DOMAIN path)
        /\ \A f \in DOMAIN path : \E i \in 1..Len(queue) : queue[i] = f
    BY <1>2, <1>4, <1>5 DEF n
  <2> QED BY <1>3, <1>6, <2>1, <2>2, Zenon DEF IsWalk
<1>9. \A i \in 1..n : Depth(w, i) = 1
  BY <1>2, <1>3, <1>4 DEF Depth
<1>10. NearFirst(w) /\ LookedAt(scan, w, 0) /\ OneAhead(w, 0)
  BY <1>2, <1>3, <1>5, <1>9 DEF NearFirst, LookedAt, OneAhead
<1>11. Walked(scan, seeds, K, w, 0)
  BY <1>8, <1>10 DEF Walked
<1> QED BY <1>11 DEF w

\* The paths of the explanation are those of a walk of as many turns as there are files.
LEMMA WalkTaken ==
  ASSUME NEW scan, NEW seeds, Known(scan, ToSet(seeds)) \subseteq Nat,
         IsFiniteSet(Known(scan, ToSet(seeds)))
  PROVE  LET K == Known(scan, ToSet(seeds))
         IN  /\ ClosedWith(scan, ToSet(seeds), K)
             /\ \E w : /\ Walked(scan, ToSet(seeds), K, w, Cardinality(K))
                       /\ anchorPathsByFile(scan, seeds) = w.path
<1> DEFINE start == ToSet(seeds)
           K == Known(scan, start)
           C == Cardinality(K)
           S == Walks(K)
           walk == CHOOSE walk : walk =
             [n \in 0..Cardinality(Known(scan, start)) |->
               IF n = 0 THEN [path |-> [s \in start |-> <<s>>], queue |-> Sorted(start)]
               ELSE LET w == walk[n - 1]
                    IN  IF n > Len(w.queue) THEN w
                        ELSE LET current == w.queue[n]
                                 new == TargetsIn(scan, current) \ DOMAIN w.path
                             IN  [path  |-> [f \in DOMAIN w.path \union new |->
                                              IF f \in new THEN Append(w.path[current], f)
                                              ELSE w.path[f]],
                                  queue |-> w.queue \o Sorted(new)]]
           init == AtSeeds(start)
           step == [n \in 1..C |-> [w \in S |-> Turn(scan, w, n)]]
<1>1. anchorPathsByFile(scan, seeds) = walk[C].path
  BY DEF anchorPathsByFile
<1>2. ClosedWith(scan, start, K)
  BY DEF ClosedWith, Known, TargetsIn
<1>3. K \in SUBSET Nat /\ IsFiniteSet(K) /\ C \in Nat
  BY FS_CardinalityType
<1> HIDE DEF start, K
<1>4. Walked(scan, start, K, init, 0)
  BY <1>2, <1>3, WalkStarts
<1>5. init \in S /\ IsStep(step, C, S)
  <2>1. init \in S
    BY <1>4 DEF Walked, IsWalk
  <2>2. \A n \in 1..C : \A w \in S : Turn(scan, w, n) \in S
    <3> TAKE n \in 1..C
    <3> TAKE w \in S
    <3>1. n \in Nat /\ n >= 1
      BY <1>3
    <3> QED BY <1>2, <1>3, <3>1, TurnWalks
  <2> HIDE DEF S, init, C
  <2>3. \A n \in 1..C : step[n] \in [S -> S]
    BY <2>2
  <2> QED BY <2>1, <2>3 DEF IsStep
<1>6. PICK g : AreTurns(g, step, init, C, S)
  <2> HIDE DEF C, S, init, step
  <2> QED BY <1>3, <1>5, TurnsExist
<1>7. \A n \in 1..C : n - 1 \in 0..C /\ n # 0
  BY <1>3
<1>8. \A n \in 0..C : n # 0 => n \in 1..C
  BY <1>3
<1>9. C = Cardinality(Known(scan, start))
  BY DEF K
<1> HIDE DEF C
<1>10. \A n \in 1..C : g[n] = Turn(scan, g[n - 1], n)
  BY <1>6, <1>7 DEF AreTurns
<1>11. g = [n \in 0..C |-> IF n = 0 THEN init ELSE Turn(scan, g[n - 1], n)]
  BY <1>6, <1>8, <1>10 DEF AreTurns
<1>12. walk = [n \in 0..C |-> IF n = 0 THEN init ELSE Turn(scan, walk[n - 1], n)]
  BY <1>9, <1>11, Zenon DEF Turn, AtSeeds
<1> HIDE DEF walk, init
<1> DEFINE N == {n \in Nat : n <= C => Walked(scan, start, K, walk[n], n)}
<1>13. 0 \in N
  BY <1>3, <1>4, <1>12
<1>14. ASSUME NEW n \in Nat, n \in N PROVE n + 1 \in N
  <2> SUFFICES ASSUME n + 1 <= C PROVE Walked(scan, start, K, walk[n + 1], n + 1)
    OBVIOUS
  <2>1. n <= C /\ n + 1 \in 0..C /\ n + 1 # 0 /\ (n + 1) - 1 = n
    BY <1>3
  <2>2. walk[n + 1] = Turn(scan, walk[n], n + 1)
    BY <1>12, <2>1
  <2>3. Walked(scan, start, K, walk[n], n)
    BY <1>14, <2>1
  <2> QED BY <1>2, <1>3, <2>2, <2>3, TurnKeepsWalked
<1>15. C \in N
  <2> HIDE DEF N
  <2> QED BY <1>3, <1>13, <1>14, InductionOverNat
<1>16. Walked(scan, start, K, walk[C], C)
  BY <1>3, <1>15
<1>17. anchorPathsByFile(scan, seeds) = walk[C].path
  BY <1>1 DEF C
<1> QED BY <1>2, <1>16, <1>17 DEF C, K, start

\* The paths found: each is a path from a seed to its file, and none is shorter; and what
\* can be reached has one.
AreShortest(scan, start, path) ==
  /\ start \subseteq DOMAIN path
  /\ \A f \in DOMAIN path : TargetsIn(scan, f) \subseteq DOMAIN path
  /\ \A f \in DOMAIN path :
       /\ path[f] \in PathsOf(scan, start, Len(path[f])) /\ Last(path[f]) = f
       /\ \A n \in 1..(Len(path[f]) - 1) : \A q \in PathsOf(scan, start, n) : Last(q) # f

LEMMA ShortestFound ==
  ASSUME NEW scan, NEW seeds, Known(scan, ToSet(seeds)) \subseteq Nat,
         IsFiniteSet(Known(scan, ToSet(seeds)))
  PROVE  AreShortest(scan, ToSet(seeds), anchorPathsByFile(scan, seeds))
<1> DEFINE start == ToSet(seeds)
           K == Known(scan, start)
           C == Cardinality(K)
           path == anchorPathsByFile(scan, seeds)
<1>1. /\ ClosedWith(scan, start, K)
      /\ \E w : Walked(scan, start, K, w, C) /\ path = w.path
  BY WalkTaken
<1>2. K \in SUBSET Nat /\ IsFiniteSet(K)
  OBVIOUS
<1> HIDE DEF start, K, path
<1>3. PICK w : Walked(scan, start, K, w, C) /\ path = w.path
  BY <1>1
<1> DEFINE D == DOMAIN path
<1>4. /\ start \subseteq D /\ \A s \in start : Len(path[s]) = 1
      /\ \A f \in D : /\ Len(path[f]) \in Nat /\ Len(path[f]) >= 1
                      /\ path[f] \in Chains(scan, start, K, Len(path[f])) /\ Last(path[f]) = f
      /\ Len(w.queue) = Cardinality(D) /\ w \in Walks(K)
      /\ \A f \in D : \E i \in 1..Len(w.queue) : w.queue[i] = f
  BY <1>3 DEF Walked, IsWalk
<1>5. D \subseteq K /\ Cardinality(D) <= C /\ Cardinality(D) \in Nat /\ C \in Nat
  <2>1. D \subseteq K
    BY <1>3, <1>4 DEF Walks
  <2> QED BY <1>2, <2>1, FS_Subset, FS_CardinalityType
<1>6. \A f \in D : \A t \in TargetsIn(scan, f) : t \in D /\ Len(path[t]) <= Len(path[f]) + 1
  <2> TAKE f \in D
  <2>1. PICK i \in 1..Len(w.queue) : w.queue[i] = f
    BY <1>4
  <2>2. i <= C
    BY <1>4, <1>5, <2>1
  <2> QED BY <1>3, <2>1, <2>2 DEF Walked, LookedAt, Depth
<1> HIDE DEF D, C
<1>7. ASSUME NEW n \in Nat, n >= 1, NEW q \in Chains(scan, start, K, n)
      PROVE  Last(q) \in D /\ Len(path[Last(q)]) <= n
  <2>1. /\ q \in [1..n -> K] /\ q[1] \in start
        /\ \A i \in 1..(n - 1) : q[i + 1] \in TargetsIn(scan, q[i])
    BY DEF Chains
  <2> DEFINE N == {i \in Nat : i + 1 <= n => q[i + 1] \in D /\ Len(path[q[i + 1]]) <= i + 1}
  <2>2. 0 \in N
    <3>1. q[1] \in D /\ Len(path[q[1]]) = 1
      BY <1>4, <2>1
    <3>2. q[0 + 1] \in D /\ Len(path[q[0 + 1]]) = 0 + 1
      BY <3>1
    <3>3. Len(path[q[0 + 1]]) <= 0 + 1
      BY <3>2
    <3> QED BY <3>2, <3>3
  <2>3. ASSUME NEW i \in Nat, i \in N PROVE i + 1 \in N
    <3> SUFFICES ASSUME (i + 1) + 1 <= n
                 PROVE  q[(i + 1) + 1] \in D /\ Len(path[q[(i + 1) + 1]]) <= (i + 1) + 1
      OBVIOUS
    <3> DEFINE k == i + 1
    <3>1. k \in 1..(n - 1) /\ k <= n /\ k \in Nat
      OBVIOUS
    <3>2. q[k] \in D /\ Len(path[q[k]]) <= k
      BY <2>3, <3>1
    <3> HIDE DEF k
    <3>3. q[k + 1] \in TargetsIn(scan, q[k])
      BY <2>1, <3>1
    <3>4. q[k + 1] \in D /\ Len(path[q[k + 1]]) <= Len(path[q[k]]) + 1
      BY <1>6, <3>2, <3>3
    <3>5. Len(path[q[k + 1]]) \in Nat /\ Len(path[q[k]]) \in Nat
      BY <1>4, <3>2, <3>4 DEF D
    <3>6. Len(path[q[k + 1]]) <= k + 1
      BY <3>1, <3>2, <3>4, <3>5
    <3> QED BY <3>4, <3>6 DEF k
  <2>4. n - 1 \in N
    <3> HIDE DEF N
    <3>1. n - 1 \in Nat
      BY <1>7
    <3> QED BY <2>2, <2>3, <3>1, InductionOverNat
  <2>5. (n - 1) + 1 = n /\ Last(q) = q[n]
    <3>1. q \in Seq(K) /\ Len(q) = n
      BY <2>1
    <3> QED BY <3>1 DEF Last
  <2> QED BY <2>4, <2>5
<1>8. \A n \in Nat : n >= 1 => PathsOf(scan, start, n) = Chains(scan, start, K, n)
  BY <1>1, PathsAreChains
<1>9. \A f \in D : path[f] \in PathsOf(scan, start, Len(path[f])) /\ Last(path[f]) = f
  BY <1>4, <1>8 DEF D
<1>10. ASSUME NEW f \in D, NEW n \in 1..(Len(path[f]) - 1), NEW q \in PathsOf(scan, start, n),
              Last(q) = f
       PROVE  FALSE
  <2>1. n \in Nat /\ n >= 1 /\ n < Len(path[f])
    BY <1>4 DEF D
  <2>2. q \in Chains(scan, start, K, n)
    BY <1>8, <2>1
  <2>3. Len(path[f]) <= n
    BY <1>7, <1>10, <2>1, <2>2
  <2>4. Len(path[f]) \in Nat
    BY <1>4 DEF D
  <2> QED BY <2>1, <2>3, <2>4
<1>11. AreShortest(scan, start, path)
  BY <1>4, <1>6, <1>9, <1>10 DEF AreShortest, D
<1> QED BY <1>11 DEF start, path

\* An explanation has a scan, and is about an anchor or a file.
LEMMA ScanToExplain ==
  ASSUME NEW args, CommandArgs("explain", args) # Refused
  PROVE  Given(CommandArgs("explain", args), "--scan")
BY DEF CommandArgs, Validated, parseExplainArgs, Requiring, Given

\* What the explanation of an anchor prints is right, if its scan is sound.
LEMMA ExplanationRight ==
  ASSUME NEW scan, Explains(scan), NEW a
  PROVE  LET json    == RenderExplain(explainAnchor(scan, a))
             seeds   == ToSet(json.mapping.seed_files)
             reached == json.coverage.reached_files
         IN  \A k \in DOMAIN reached :
               LET path == reached[k].path_from_seed
               IN  /\ path \in PathsOf(scan, seeds, Len(path))
                   /\ Last(path) = reached[k].path
                   /\ \A n \in 1..(Len(path) - 1) :
                        \A q \in PathsOf(scan, seeds, n) : Last(q) # Last(path)
<1> DEFINE view == explainAnchor(scan, a)
           json == RenderExplain(view)
           mapped == a \in DOMAIN scan.stored_mappings
           seeds == IF mapped THEN scan.stored_mappings[a].seed_files ELSE <<>>
           found == IF mapped THEN scan.stored_mappings[a].reached_files ELSE <<>>
           path == anchorPathsByFile(scan, seeds)
           Told(f) == [path |-> f, path_from_seed |-> IF f \in DOMAIN path THEN path[f] ELSE <<>>]
           start == ToSet(seeds)
           shown == json.coverage.reached_files
<1>1. /\ view.mapping.seed_files = InOrder(seeds)
      /\ DOMAIN view.mapping = {"present", "state", "seed_files", "reached_file_count"}
      /\ view.mapping = [key \in DOMAIN view.mapping |-> view.mapping[key]]
      /\ view.coverage = [reached_files |-> Each(InOrder(found), Told)]
  BY DEF explainAnchor
<1>2. /\ json.mapping = RenderUnlessNull(view.mapping, {"present", "state", "seed_files",
                                                      "reached_file_count"})
      /\ json.coverage = RenderCoverage(view.coverage)
  BY DEF RenderExplain
<1> HIDE DEF view, json
<1>3. json.mapping.seed_files = InOrder(seeds)
  BY <1>1, <1>2 DEF RenderUnlessNull, Object
<1>4. shown = Each(Each(InOrder(found), Told), LAMBDA x : Object(x, {"path", "path_from_seed"}))
  <2> DEFINE all == Each(InOrder(found), Told)
  <2>0. view.coverage = [reached_files |-> all]
    BY <1>1
  <2> HIDE DEF all
  <2>1. view.coverage.reached_files = all /\ Has(view.coverage, "reached_files")
    BY <2>0 DEF Has
  <2>2. RenderCoverage(view.coverage).reached_files
          = Each(view.coverage.reached_files, LAMBDA x : Object(x, {"path", "path_from_seed"}))
    BY <2>1 DEF RenderCoverage
  <2> QED BY <1>2, <2>1, <2>2 DEF all
<1>5. /\ DOMAIN shown = DOMAIN InOrder(found)
      /\ \A k \in DOMAIN shown :
           /\ shown[k].path = InOrder(found)[k]
           /\ shown[k].path_from_seed = Told(InOrder(found)[k]).path_from_seed
  <2> HIDE DEF found, path
  <2> QED BY <1>4 DEF Each, Object
<1>6. /\ IsList(seeds) /\ start \subseteq Nat /\ IsList(found) /\ ToSet(found) \subseteq Nat
      /\ mapped => /\ Known(scan, start) \subseteq Nat /\ IsFiniteSet(Known(scan, start))
                   /\ Reachable(scan, seeds, found)
  <2>1. CASE mapped
    <3>1. start \subseteq Known(scan, start)
      BY DEF Known
    <3> QED BY <2>1, <3>1 DEF Explains
  <2>2. CASE ~mapped
    <3>1. IsList(<<>>) /\ ToSet(<<>>) = {}
      BY DEF IsList, ToSet
    <3> QED BY <2>2, <3>1
  <2> QED BY <2>1, <2>2
<1>7. ~mapped => found = <<>>
  OBVIOUS
<1> HIDE DEF seeds, found, path, shown, mapped, start
<1>8. /\ ToSet(InOrder(seeds)) = start
      /\ IsList(InOrder(found)) /\ ToSet(InOrder(found)) = ToSet(found)
  BY <1>6, OrderedNumbers DEF start
<1>9. CASE ~mapped
  <2>1. ToSet(InOrder(found)) = {}
    BY <1>7, <1>8, <1>9 DEF ToSet
  <2>2. DOMAIN shown = {}
    BY <1>5, <2>1 DEF ToSet
  <2> QED BY <2>2 DEF shown, json, view
<1>10. CASE mapped
  <2>1. AreShortest(scan, start, path)
    BY <1>6, <1>10, ShortestFound DEF path, start
  <2>2. ToSet(found) \subseteq DOMAIN path
    BY <1>6, <1>10, <2>1 DEF Reachable, AreShortest, start
  <2>3. ASSUME NEW k \in DOMAIN shown
        PROVE  LET q == shown[k].path_from_seed
               IN  /\ q \in PathsOf(scan, start, Len(q)) /\ Last(q) = shown[k].path
                   /\ \A n \in 1..(Len(q) - 1) :
                        \A other \in PathsOf(scan, start, n) : Last(other) # Last(q)
    <3> DEFINE f == InOrder(found)[k]
    <3>1. f \in ToSet(InOrder(found))
      BY <1>5 DEF ToSet
    <3>2. f \in DOMAIN path
      BY <1>8, <2>2, <3>1
    <3>3. shown[k].path = f /\ shown[k].path_from_seed = path[f]
      BY <1>5, <3>2
    <3> HIDE DEF f
    <3> QED BY <2>1, <3>2, <3>3 DEF AreShortest
  <2> QED BY <1>3, <1>8, <2>3 DEF shown, json, view
<1> QED BY <1>9, <1>10

LEMMA ExplainStep ==
  ASSUME CInv, NEW args, NEW target \in Targets("explain", args), Explain(args, target)
  PROVE  ExplainShortest'
<1> DEFINE options == CommandArgs("explain", args)
           slot == options["--scan"][1]
           scan == Loaded(file, "--scan", slot)
           a == AnchorOf[options["--anchor"][1]]
           view == IF Given(options, "--anchor") THEN explainAnchor(scan, a)
                   ELSE explainFile(scan, PathOf[options["--file"][1]])
<1>1. target = Null
  BY DEF Targets
<1>2. Option(file, options, "--scan") = scan
  BY ScanToExplain DEF Explain, Option
<1>3. IF scan = Refused THEN Fails("explain", args, target, 4, "input")
      ELSE Prints("explain", args, target, 0, RenderExplain(view), view)
  BY <1>2 DEF Explain
<1>4. CASE scan = Refused
  <2>1. outcome'.json = Null
    BY <1>3, <1>4 DEF Fails, Ends
  <2> QED BY <2>1 DEF ExplainShortest
<1>5. CASE scan # Refused
  <2>1. /\ file' = file /\ written' = written /\ outcome'.options = options
        /\ outcome'.json \in {RenderExplain(view), Null}
    <3> HIDE DEF scan, view
    <3> QED BY <1>1, <1>3, <1>5 DEF Prints, Ends
  <2>2. scan = FileAt(file, slot).json
    BY <1>5 DEF Loaded
  <2>3. CASE outcome'.json = RenderExplain(view) /\ Given(options, "--anchor") /\ Vouched("--scan")'
    <3>1. slot \in ScanSlots /\ written[slot] # Null
      BY <2>1, <2>3 DEF Vouched, Value
    <3>2. FileAt(file, slot) = file[slot]
      BY <3>1 DEF FileAt, Slots
    <3>3. Explains(scan)
      BY <2>2, <3>1, <3>2 DEF CInv, IsSound
    <3>4. FileOf("--scan")'.json = scan
      BY <2>1, <2>2 DEF FileOf, Value
    <3>5. outcome'.json = RenderExplain(explainAnchor(scan, a))
      BY <2>3
    <3> HIDE DEF scan, view, a, slot
    <3> QED BY <3>3, <3>4, <3>5, ExplanationRight DEF ExplainShortest
  <2>4. CASE outcome'.json = Null
    BY <2>4 DEF ExplainShortest
  <2>5. CASE ~(Given(options, "--anchor") /\ Vouched("--scan")')
    BY <2>1, <2>5 DEF ExplainShortest
  <2> QED BY <2>1, <2>3, <2>4, <2>5
<1> QED BY <1>4, <1>5

LEMMA NextExplain == CInv /\ ExplainShortest /\ [Next]_vars => ExplainShortest'
<1> SUFFICES ASSUME CInv, ExplainShortest, [Next]_vars PROVE ExplainShortest'
  OBVIOUS
<1>1. CASE outcome' = Null
  BY <1>1 DEF ExplainShortest, Ran
<1>2. CASE UNCHANGED vars
  <2>1. file' = file /\ written' = written /\ outcome' = outcome
    BY <1>2 DEF vars
  <2>2. /\ FileOf("--scan")' = FileOf("--scan")
        /\ Vouched("--scan")' <=> Vouched("--scan")
    BY <2>1 DEF FileOf, Vouched, Value
  <2> QED BY <2>1, <2>2 DEF ExplainShortest, Ran
<1>3. ASSUME NEW command \in Commands, NEW call \in Calls(command), Run(command, call[1], call[2]),
             outcome'.command = command
      PROVE  ExplainShortest'
  <2>1. CASE command # "explain"
    BY <1>3, <2>1 DEF ExplainShortest, Ran
  <2>2. CASE RefuseArguments(command, call[1], call[2])
    BY <2>2 DEF ExplainShortest, RefuseArguments, Fails, Ends
  <2>3. CASE command = "explain" /\ ~RefuseArguments(command, call[1], call[2])
    <3>1. Explain(call[1], call[2])
      BY <1>3, <2>3 DEF Run
    <3>2. call[2] \in Targets("explain", call[1])
      BY <2>3 DEF Calls
    <3> QED BY <3>1, <3>2, ExplainStep
  <2> QED BY <2>1, <2>2, <2>3
<1> QED BY <1>1, <1>2, <1>3, OutcomeOf

\* The explanation of an anchor in a scan that the tool has written gives every file the
\* anchor reaches a path from one of its seeds along imports of the scan, and no path is
\* shorter, whatever the projects and the history of the files (anchorPathsByFile of
\* explain-engine.ts).
THEOREM ExplanationsAreShortest == Spec => []ExplainShortest
<1>1. Init => CInv /\ ExplainShortest
  BY InitCInv DEF Init, ExplainShortest, Ran
<1>2. CInv /\ ExplainShortest /\ [Next]_vars => (CInv /\ ExplainShortest)'
  BY NextCInv, NextExplain
<1> QED BY <1>1, <1>2, PTL DEF Spec

-----------------------------------------------------------------------------
(* the options of a command line *)

\* What is left of a refused command line is no value of any option.
RefusedIsNoFunction == \A S, T : \A f \in [S -> T] : f # Refused

LEMMA NotRefused ==
  ASSUME RefusedIsNoFunction, NEW f, f = [x \in DOMAIN f |-> f[x]]
  PROVE  f # Refused
<1> DEFINE S == DOMAIN f
           T == {f[x] : x \in S}
<1>1. f \in [S -> T]
  OBVIOUS
<1> HIDE DEF S, T
<1> QED BY <1>1 DEF RefusedIsNoFunction

\* A number below all of a set comes first in its order, and moves the others by one.
LEMMA SortedWithFirst ==
  ASSUME NEW S \in SUBSET Nat, IsFiniteSet(S), NEW k \in Nat, \A x \in S : k < x
  PROVE  /\ Cardinality({k} \union S) = Cardinality(S) + 1
         /\ Sorted({k} \union S)[1] = k
         /\ \A n \in 1..Cardinality(S) : Sorted({k} \union S)[n + 1] = Sorted(S)[n]
<1> DEFINE T == {k} \union S
           m == Cardinality(S)
           Rank_(x) == Cardinality({y \in T : y < x})
<1>1. k \notin S
  OBVIOUS
<1>2. T \in SUBSET Nat /\ IsFiniteSet(T) /\ Cardinality(T) = m + 1 /\ m \in Nat
  BY <1>1, FS_AddElement, FS_CardinalityType
<1>3. StrictOrder(T, Less(T)) /\ StrictOrder(S, Less(S))
  BY <1>2 DEF StrictOrder, Less
<1>4. /\ \A x \in T : Below(T, Less(T), x) = {y \in T : y < x}
      /\ \A x \in S : Below(S, Less(S), x) = {y \in S : y < x}
  BY DEF Below, Less
<1>5. /\ \A x, y \in T : x < y => Rank_(x) < Rank_(y)
      /\ \A x \in T : Rank_(x) \in Nat
  <2>1. /\ \A x \in T : Cardinality(Below(T, Less(T), x)) \in 0..(Cardinality(T) - 1)
        /\ \A x, y \in T : <<x, y>> \in Less(T) =>
             Cardinality(Below(T, Less(T), x)) < Cardinality(Below(T, Less(T), y))
    BY <1>2, <1>3, Ranks
  <2>2. \A x, y \in T : x < y => <<x, y>> \in Less(T)
    BY DEF Less
  <2>3. \A x, y \in T : x < y => Rank_(x) < Rank_(y)
    <3> SUFFICES ASSUME NEW x \in T, NEW y \in T, x < y PROVE Rank_(x) < Rank_(y)
      OBVIOUS
    <3>1. Cardinality(Below(T, Less(T), x)) < Cardinality(Below(T, Less(T), y))
      BY <2>1, <2>2
    <3> QED BY <1>4, <3>1
  <2>4. \A x \in T : Rank_(x) \in Nat
    <3> TAKE x \in T
    <3>1. Cardinality(Below(T, Less(T), x)) \in 0..(Cardinality(T) - 1) /\ Cardinality(T) \in Nat
      BY <1>2, <2>1
    <3>2. Cardinality(Below(T, Less(T), x)) \in Nat
      BY <3>1
    <3> QED BY <1>4, <3>2
  <2> QED BY <2>3, <2>4
<1>6. \A x, y \in T : Rank_(x) = Rank_(y) => x = y
  <2> HIDE DEF Rank_
  <2> SUFFICES ASSUME NEW x \in T, NEW y \in T, x # y PROVE Rank_(x) # Rank_(y)
    OBVIOUS
  <2>0. x \in Nat /\ y \in Nat
    BY <1>2
  <2>1. x < y \/ y < x
    BY <2>0
  <2> QED BY <1>5, <2>1
<1>7. Rank_(k) = 0
  <2>0. ASSUME NEW y \in T PROVE ~(y < k)
    <3>1. y \in Nat /\ (y = k \/ k < y)
      OBVIOUS
    <3> QED BY <3>1
  <2>1. {y \in T : y < k} = {}
    <3> HIDE DEF T
    <3> QED BY <2>0
  <2> QED BY <2>1, FS_EmptySet
<1>8. \A x \in S : Rank_(x) = Cardinality({y \in S : y < x}) + 1 /\ Cardinality({y \in S : y < x}) \in Nat
  <2> TAKE x \in S
  <2> DEFINE before == {y \in S : y < x}
  <2>1. before \in SUBSET S /\ k \notin before /\ {y \in T : y < x} = before \union {k}
    BY <1>1
  <2>2. IsFiniteSet(before)
    BY <2>1, FS_Subset
  <2> HIDE DEF before
  <2>3. Cardinality(before \union {k}) = Cardinality(before) + 1 /\ Cardinality(before) \in Nat
    BY <2>1, <2>2, FS_AddElement, FS_CardinalityType
  <2> QED BY <2>1, <2>3 DEF before
<1>9. ASSUME NEW n \in 1..(m + 1), NEW x \in T, Rank_(x) = n - 1
      PROVE  Sorted(T)[n] = x
  <2>1. Sorted(T)[n] = CHOOSE y \in T : Rank_(y) = n - 1
    BY <1>2 DEF Sorted, SortedBy
  <2> HIDE DEF Rank_, T
  <2> QED BY <1>6, <1>9, <2>1
<1>10. Sorted(T)[1] = k
  BY <1>2, <1>7, <1>9
<1>11. ASSUME NEW n \in 1..m PROVE Sorted(T)[n + 1] = Sorted(S)[n]
  <2> DEFINE s == Sorted(S)[n]
  <2>1. s \in S /\ Cardinality({y \in S : y < s}) = n - 1
    <3>1. \E x \in S : Cardinality(Below(S, Less(S), x)) = n - 1
      BY <1>3, Ranks
    <3>2. \E x \in S : Cardinality({y \in S : y < x}) = n - 1
      BY <1>4, <3>1
    <3>3. s = CHOOSE x \in S : Cardinality({y \in S : y < x}) = n - 1
      BY DEF Sorted, SortedBy
    <3> QED BY <3>2, <3>3
  <2> HIDE DEF s
  <2>2. Rank_(s) = n /\ s \in T
    BY <1>2, <1>8, <2>1
  <2> DEFINE i == n + 1
  <2>3. i \in 1..(m + 1) /\ i - 1 = n
    BY <1>2
  <2> HIDE DEF i, Rank_, T
  <2>4. Sorted(T)[i] = s
    BY <1>9, <2>2, <2>3
  <2> QED BY <2>4 DEF i, s
<1> QED BY <1>2, <1>10, <1>11

\* The options a parser knows: those that take a value, of them those that may be
\* repeated, and the flags.
AreOptions(args, V, R, F) ==
  /\ args \in Seq(STRING)
  /\ R \subseteq V /\ V \intersect F = {} /\ V \union F \subseteq OptionNames

\* The options from the k-th argument on, the places one stands at, and its values.
NamedFrom(args, options, k) == {args[i] : i \in {j \in k..Len(args) : args[j] \in options}}
PlacesFrom(args, option, k) == {i \in k..Len(args) : args[i] = option}
ValuesAt(args, P) == [n \in 1..Cardinality(P) |-> args[Sorted(P)[n] + 1]]

\* What the loop accepts of the arguments from the k-th on, and what it makes of them.
Fits(args, V, R, F, k) ==
  /\ \A i \in k..Len(args) :
       args[i] \in V \union F \/ (i > k /\ args[i - 1] \in V /\ ~StartsWithDash(args[i]))
  /\ \A i \in k..Len(args) : args[i] \in V => i < Len(args) /\ ~StartsWithDash(args[i + 1])
  /\ \A i, j \in k..Len(args) : args[i] = args[j] /\ args[i] \in (V \ R) \union F => i = j

Meant(args, V, F, k) ==
  [option \in NamedFrom(args, V \union F, k) |->
     IF option \in F THEN <<TRUE>> ELSE ValuesAt(args, PlacesFrom(args, option, k))]

ReadFrom(args, V, R, F, k) == IF Fits(args, V, R, F, k) THEN Meant(args, V, F, k) ELSE Refused

LEMMA MeantIsNotRefused ==
  ASSUME RefusedIsNoFunction, NEW args, NEW V, NEW F, NEW k
  PROVE  Meant(args, V, F, k) # Refused
<1> DEFINE f == Meant(args, V, F, k)
<1>1. f = [x \in DOMAIN f |-> f[x]]
  BY DEF Meant
<1> HIDE DEF f
<1>2. f # Refused
  BY <1>1, NotRefused
<1> QED BY <1>2 DEF f

\* The values of an option that stands at one more place, before the others.
LEMMA ValuesWithFirst ==
  ASSUME NEW args, NEW S \in SUBSET Nat, IsFiniteSet(S), NEW k \in Nat, \A x \in S : k < x
  PROVE  ValuesAt(args, {k} \union S) = <<args[k + 1]>> \o ValuesAt(args, S)
<1> DEFINE m == Cardinality(S)
           T == {k} \union S
           first == <<args[k + 1]>>
           others == ValuesAt(args, S)
           all == ValuesAt(args, T)
           both == first \o others
<1>1. /\ m \in Nat /\ Cardinality(T) = m + 1
      /\ Sorted(T)[1] = k
      /\ \A n \in 1..m : Sorted(T)[n + 1] = Sorted(S)[n]
  BY SortedWithFirst, FS_CardinalityType
<1> HIDE DEF T, m
<1>2. others = [n \in 1..m |-> args[Sorted(S)[n] + 1]] /\ Len(others) = m
  BY <1>1 DEF ValuesAt, m
<1>3. all = [n \in 1..(m + 1) |-> args[Sorted(T)[n] + 1]]
  BY <1>1 DEF ValuesAt
<1>4. Len(first) = 1 /\ first[1] = args[k + 1]
  OBVIOUS
<1> DEFINE W == {args[k + 1]} \union {others[n] : n \in 1..m}
<1>a. first \in Seq(W)
  OBVIOUS
<1>b. others \in Seq(W)
  <2>1. others = [n \in 1..m |-> others[n]]
    BY <1>2
  <2>2. \A n \in 1..m : others[n] \in W
    OBVIOUS
  <2> HIDE DEF others, W
  <2> QED BY <1>1, <2>1, <2>2
<1> HIDE DEF first, others, all, W
<1>5. /\ both \in Seq(W) /\ Len(both) = m + 1
      /\ \A n \in 1..(m + 1) : both[n] = IF n <= 1 THEN first[n] ELSE others[n - 1]
  <2>1. /\ both \in Seq(W) /\ Len(both) = Len(first) + Len(others)
        /\ \A n \in 1..(Len(first) + Len(others)) :
             both[n] = IF n <= Len(first) THEN first[n] ELSE others[n - Len(first)]
    BY <1>a, <1>b, ConcatProperties
  <2>2. Len(first) + Len(others) = m + 1
    BY <1>1, <1>2, <1>4
  <2> QED BY <1>4, <2>1, <2>2
<1> HIDE DEF both
<1>6. ASSUME NEW n \in 1..(m + 1) PROVE all[n] = both[n]
  <2>1. CASE n = 1
    BY <1>1, <1>3, <1>4, <1>5, <2>1
  <2>2. CASE n # 1
    <3> DEFINE l == n - 1
    <3>1. l \in 1..m /\ n = l + 1 /\ ~(n <= 1)
      BY <1>1, <2>2
    <3>2. both[n] = others[l]
      BY <1>1, <1>5, <3>1
    <3>3. all[n] = args[Sorted(T)[n] + 1]
      BY <1>3
    <3> HIDE DEF l
    <3>4. Sorted(T)[n] = Sorted(S)[l]
      BY <1>1, <3>1
    <3> QED BY <1>2, <3>1, <3>2, <3>3, <3>4
  <2> QED BY <2>1, <2>2
<1>7. all = both
  <2>1. all = [n \in 1..(m + 1) |-> all[n]]
    BY <1>3
  <2>2. both = [n \in 1..(m + 1) |-> both[n]]
    BY <1>5
  <2> QED BY <1>6, <2>1, <2>2
<1> QED BY <1>7 DEF all, both, first, others, T

LEMMA PlacesAreFinite ==
  ASSUME NEW args \in Seq(STRING), NEW option, NEW k \in Nat
  PROVE  PlacesFrom(args, option, k) \in SUBSET Nat /\ IsFiniteSet(PlacesFrom(args, option, k))
<1>1. Len(args) \in Nat
  OBVIOUS
<1> DEFINE n == Len(args)
<1> HIDE DEF n
<1>2. IsFiniteSet(k..n)
  BY <1>1, FS_Interval DEF n
<1>3. PlacesFrom(args, option, k) \in SUBSET (k..n)
  BY DEF PlacesFrom, n
<1>4. k..n \subseteq Nat
  BY <1>1 DEF n
<1> QED BY <1>2, <1>3, <1>4, FS_Subset

\* The arguments before the k-th play no part; behind the last there is nothing.
LEMMA NothingLeft ==
  ASSUME NEW args, NEW V, NEW R, NEW F, AreOptions(args, V, R, F),
         NEW k \in {Len(args) + 1, Len(args) + 2}
  PROVE  ReadFrom(args, V, R, F, k) = <<>>
<1>1. Len(args) \in Nat
  BY DEF AreOptions
<1>2. k..Len(args) = {}
  BY <1>1
<1>3. Fits(args, V, R, F, k)
  BY <1>2 DEF Fits
<1>4. NamedFrom(args, V \union F, k) = {}
  BY <1>2 DEF NamedFrom
<1>5. Meant(args, V, F, k) = <<>>
  <2> DEFINE meant == Meant(args, V, F, k)
  <2>1. meant = [option \in {} |-> meant[option]]
    BY <1>4 DEF Meant
  <2> HIDE DEF meant
  <2>2. meant = <<>>
    BY <2>1
  <2> QED BY <2>2 DEF meant
<1> QED BY <1>3, <1>5 DEF ReadFrom

\* What the loop refuses at the k-th argument: what is no option, an option without a
\* value, a flag with one.
LEMMA LoopRefuses ==
  ASSUME NEW args, NEW V, NEW R, NEW F, AreOptions(args, V, R, F), NEW k \in 1..Len(args),
         \/ args[k] \notin V \union F
         \/ args[k] \in V /\ ~(k < Len(args) /\ ~StartsWithDash(args[k + 1]))
         \/ args[k] \in F /\ k < Len(args) /\ ~StartsWithDash(args[k + 1])
  PROVE  ReadFrom(args, V, R, F, k) = Refused
<1>1. Len(args) \in Nat
  BY DEF AreOptions
<1>2. k \in k..Len(args) /\ ~(k > k)
  BY <1>1
<1>3. CASE args[k] \notin V \union F
  BY <1>2, <1>3 DEF ReadFrom, Fits
<1>4. CASE args[k] \in V /\ ~(k < Len(args) /\ ~StartsWithDash(args[k + 1]))
  BY <1>2, <1>4 DEF ReadFrom, Fits
<1>5. CASE args[k] \in F /\ k < Len(args) /\ ~StartsWithDash(args[k + 1])
  <2> DEFINE l == k + 1
  <2>1. l \in k..Len(args) /\ l - 1 = k
    BY <1>1, <1>5
  <2>2. args[l] \notin V \union F
    BY <1>5 DEF AreOptions, StartsWithDash
  <2>3. args[l - 1] \notin V
    BY <1>5, <2>1 DEF AreOptions
  <2> HIDE DEF l
  <2> QED BY <2>1, <2>2, <2>3 DEF ReadFrom, Fits
<1> QED BY <1>3, <1>4, <1>5

\* The k-th argument is an option, the l-th the next one to look at.
Takes(args, V, R, F, k, l) ==
  \/ /\ args[k] \in F /\ l = k + 1
     /\ ~(k < Len(args) /\ ~StartsWithDash(args[k + 1]))
  \/ /\ args[k] \in V /\ l = k + 2
     /\ k < Len(args) /\ ~StartsWithDash(args[k + 1])

LEMMA TakesOne ==
  ASSUME NEW args, NEW V, NEW R, NEW F, AreOptions(args, V, R, F), NEW k \in 1..Len(args),
         NEW l, Takes(args, V, R, F, k, l)
  PROVE  /\ Len(args) \in Nat /\ l \in Nat /\ k < l /\ k \in Nat
         /\ args[k] \in V \union F
         /\ \A i \in k..Len(args) : i = k \/ i \in l..Len(args)
                                  \/ (i = k + 1 /\ l = k + 2 /\ args[i] \notin V \union F)
         /\ \A i \in l..Len(args) : i \in k..Len(args) /\ i > k
<1>1. Len(args) \in Nat
  BY DEF AreOptions
<1>2. k \in Nat /\ l \in Nat /\ k < l /\ (l = k + 1 \/ l = k + 2) /\ args[k] \in V \union F
  BY <1>1 DEF Takes
<1>3. \A i \in l..Len(args) : i \in k..Len(args) /\ i > k
  BY <1>1, <1>2
<1>4. ASSUME NEW i \in k..Len(args)
      PROVE  i = k \/ i \in l..Len(args)
             \/ (i = k + 1 /\ l = k + 2 /\ args[i] \notin V \union F)
  <2> DEFINE n == Len(args)
  <2>1. n \in Nat /\ i \in k..n
    BY <1>1
  <2> HIDE DEF n
  <2>2. i = k \/ i \in l..n \/ (i = k + 1 /\ l = k + 2)
    BY <1>2, <2>1
  <2>3. ASSUME i = k + 1, l = k + 2 PROVE args[i] \notin V \union F
    <3>1. ~(l = k + 1)
      BY <1>2, <2>3
    <3>2. ~StartsWithDash(args[i])
      BY <2>3, <3>1 DEF Takes
    <3> QED BY <3>2 DEF AreOptions, StartsWithDash
  <2> QED BY <2>2, <2>3 DEF n
<1> QED BY <1>1, <1>2, <1>3, <1>4

\* What is accepted from there on, and what is not.
LEMMA FitsWithOne ==
  ASSUME NEW args, NEW V, NEW R, NEW F, AreOptions(args, V, R, F), NEW k \in 1..Len(args),
         NEW l, Takes(args, V, R, F, k, l)
  PROVE  Fits(args, V, R, F, k) <=>
           /\ Fits(args, V, R, F, l)
           /\ args[k] \in NamedFrom(args, V \union F, l) => args[k] \in R
<1> DEFINE n == Len(args)
<1>1. /\ n \in Nat /\ l \in Nat /\ k < l /\ k \in Nat
      /\ args[k] \in V \union F
      /\ \A i \in k..n : i = k \/ i \in l..n
                       \/ (i = k + 1 /\ l = k + 2 /\ args[i] \notin V \union F)
      /\ \A i \in l..n : i \in k..n /\ i > k
  BY TakesOne
<1>2. /\ args[k] \in V => l = k + 2 /\ k < n /\ ~StartsWithDash(args[k + 1])
      /\ l = k + 2 => args[k] \in V
      /\ args[k] \notin V => l = k + 1
  BY DEF Takes, AreOptions
<1>3. R \subseteq V /\ V \intersect F = {}
  BY DEF AreOptions
<1>4. k \in k..n
  BY <1>1
<1> HIDE DEF n
<1>5. ASSUME Fits(args, V, R, F, k)
      PROVE  /\ Fits(args, V, R, F, l)
             /\ args[k] \in NamedFrom(args, V \union F, l) => args[k] \in R
  <2>1. ASSUME NEW i \in l..n, args[i] \notin V \union F
        PROVE  i > l /\ args[i - 1] \in V /\ ~StartsWithDash(args[i])
    <3>1. i \in k..n /\ i > k
      BY <1>1
    <3>2. i > k /\ args[i - 1] \in V /\ ~StartsWithDash(args[i])
      BY <1>5, <2>1, <3>1 DEF Fits, n
    <3>3. CASE i = l
      <4>1. CASE args[k] \notin V
        <5>1. i - 1 = k
          BY <1>1, <1>2, <3>3, <4>1
        <5> QED BY <3>2, <4>1, <5>1
      <4>2. CASE args[k] \in V
        <5> DEFINE h == k + 1
        <5>1. i - 1 = h /\ h \in k..n /\ h # k /\ ~(h \in l..n)
          BY <1>1, <1>2, <3>3, <4>2
        <5> HIDE DEF h
        <5>2. args[h] \notin V \union F
          BY <1>1, <5>1
        <5> QED BY <3>2, <5>1, <5>2
      <4> QED BY <4>1, <4>2
    <3> QED BY <1>1, <3>1, <3>2, <3>3
  <2>2. \A i \in l..n : args[i] \in V => i < n /\ ~StartsWithDash(args[i + 1])
    BY <1>1, <1>5 DEF Fits, n
  <2>3. \A i, j \in l..n : args[i] = args[j] /\ args[i] \in (V \ R) \union F => i = j
    BY <1>1, <1>5 DEF Fits, n
  <2>4. Fits(args, V, R, F, l)
    BY <2>1, <2>2, <2>3 DEF Fits, n
  <2>5. ASSUME args[k] \in NamedFrom(args, V \union F, l), args[k] \notin R PROVE FALSE
    <3>1. PICK i \in l..n : args[k] = args[i]
      BY <2>5 DEF NamedFrom, n
    <3>2. i \in k..n /\ i # k
      BY <1>1, <3>1
    <3> QED BY <1>1, <1>4, <1>5, <2>5, <3>1, <3>2 DEF Fits, n
  <2> QED BY <2>4, <2>5
<1>6. ASSUME Fits(args, V, R, F, l), args[k] \in NamedFrom(args, V \union F, l) => args[k] \in R
      PROVE  Fits(args, V, R, F, k)
  <2>1. ASSUME NEW i \in k..n, args[i] \notin V \union F
        PROVE  i > k /\ args[i - 1] \in V /\ ~StartsWithDash(args[i])
    <3>1. CASE i \in l..n
      <4>1. i > l /\ args[i - 1] \in V /\ ~StartsWithDash(args[i])
        BY <1>6, <2>1, <3>1 DEF Fits, n
      <4> QED BY <1>1, <3>1, <4>1
    <3>2. CASE i = k + 1 /\ l = k + 2
      <4>1. i - 1 = k /\ i > k
        BY <1>1, <3>2
      <4> QED BY <1>2, <3>2, <4>1
    <3> QED BY <1>1, <2>1, <3>1, <3>2
  <2>2. ASSUME NEW i \in k..n, args[i] \in V PROVE i < n /\ ~StartsWithDash(args[i + 1])
    <3>1. CASE i = k
      BY <1>2, <2>2, <3>1
    <3>2. CASE i \in l..n
      BY <1>6, <2>2, <3>2 DEF Fits, n
    <3> QED BY <1>1, <2>2, <3>1, <3>2
  <2>3. ASSUME NEW i \in k..n, NEW j \in k..n, args[i] = args[j], args[i] \in (V \ R) \union F
        PROVE  i = j
    <3>1. args[i] \in V \union F /\ args[j] \in V \union F /\ args[i] \notin R
      BY <1>3, <2>3
    <3>2. (i = k \/ i \in l..n) /\ (j = k \/ j \in l..n)
      BY <1>1, <3>1
    <3>3. ASSUME NEW x \in l..n, args[k] = args[x], args[x] \in V \union F, args[x] \notin R
          PROVE  FALSE
      <4>1. args[k] \in NamedFrom(args, V \union F, l)
        BY <3>3 DEF NamedFrom, n
      <4> QED BY <1>6, <3>3, <4>1
    <3>4. i \in l..n /\ j \in l..n => i = j
      BY <1>6, <2>3 DEF Fits, n
    <3> QED BY <2>3, <3>1, <3>2, <3>3, <3>4
  <2> QED BY <2>1, <2>2, <2>3 DEF Fits, n
<1> QED BY <1>5, <1>6

\* The options from there on are the one at k and those behind it.
AddsOne(args, options, k, l) ==
  /\ NamedFrom(args, options, k) = {args[k]} \union NamedFrom(args, options, l)
  /\ PlacesFrom(args, args[k], k) = {k} \union PlacesFrom(args, args[k], l)
  /\ \A x \in PlacesFrom(args, args[k], l) : k < x
  /\ \A option \in options :
       option # args[k] => PlacesFrom(args, option, k) = PlacesFrom(args, option, l)

LEMMA NamedWithOne ==
  ASSUME NEW args, NEW V, NEW R, NEW F, AreOptions(args, V, R, F), NEW k \in 1..Len(args),
         NEW l, Takes(args, V, R, F, k, l)
  PROVE  AddsOne(args, V \union F, k, l)
<1> DEFINE n == Len(args)
<1>1. /\ n \in Nat /\ l \in Nat /\ k < l /\ k \in Nat
      /\ args[k] \in V \union F
      /\ \A i \in k..n : i = k \/ i \in l..n
                       \/ (i = k + 1 /\ l = k + 2 /\ args[i] \notin V \union F)
      /\ \A i \in l..n : i \in k..n /\ i > k
  BY TakesOne
<1>2. k \in k..n
  BY <1>1
<1> HIDE DEF n
<1>3. NamedFrom(args, V \union F, k) = {args[k]} \union NamedFrom(args, V \union F, l)
  <2>1. ASSUME NEW x \in NamedFrom(args, V \union F, k)
        PROVE  x \in {args[k]} \union NamedFrom(args, V \union F, l)
    <3>1. PICK i \in k..n : args[i] \in V \union F /\ x = args[i]
      BY DEF NamedFrom, n
    <3>2. i = k \/ i \in l..n
      BY <1>1, <3>1
    <3> QED BY <3>1, <3>2 DEF NamedFrom, n
  <2>2. ASSUME NEW x \in {args[k]} \union NamedFrom(args, V \union F, l)
        PROVE  x \in NamedFrom(args, V \union F, k)
    <3>1. CASE x = args[k]
      BY <1>1, <1>2, <3>1 DEF NamedFrom, n
    <3>2. CASE x \in NamedFrom(args, V \union F, l)
      <4>1. PICK i \in l..n : args[i] \in V \union F /\ x = args[i]
        BY <3>2 DEF NamedFrom, n
      <4>2. i \in k..n
        BY <1>1
      <4> QED BY <4>1, <4>2 DEF NamedFrom, n
    <3> QED BY <2>2, <3>1, <3>2
  <2> QED BY <2>1, <2>2
<1>4. ASSUME NEW option \in V \union F
      PROVE  \A i : i \in PlacesFrom(args, option, k) <=>
                      (i = k /\ option = args[k]) \/ i \in PlacesFrom(args, option, l)
  <2> TAKE i
  <2>1. ASSUME i \in PlacesFrom(args, option, k)
        PROVE  (i = k /\ option = args[k]) \/ i \in PlacesFrom(args, option, l)
    <3>1. i \in k..n /\ args[i] = option
      BY <2>1 DEF PlacesFrom, n
    <3>2. i = k \/ i \in l..n
      BY <1>1, <3>1
    <3> QED BY <3>1, <3>2 DEF PlacesFrom, n
  <2>2. ASSUME i = k, option = args[k] PROVE i \in PlacesFrom(args, option, k)
    BY <1>2, <2>2 DEF PlacesFrom, n
  <2>3. ASSUME i \in PlacesFrom(args, option, l) PROVE i \in PlacesFrom(args, option, k)
    <3>1. i \in l..n /\ args[i] = option
      BY <2>3 DEF PlacesFrom, n
    <3>2. i \in k..n
      BY <1>1, <3>1
    <3> QED BY <3>1, <3>2 DEF PlacesFrom, n
  <2> QED BY <2>1, <2>2, <2>3
<1>5. \A option \in V \union F :
        option # args[k] => PlacesFrom(args, option, k) = PlacesFrom(args, option, l)
  <2> SUFFICES ASSUME NEW option \in V \union F, option # args[k]
               PROVE  PlacesFrom(args, option, k) = PlacesFrom(args, option, l)
    OBVIOUS
  <2>1. \A i : i \in PlacesFrom(args, option, k) <=> i \in PlacesFrom(args, option, l)
    BY <1>4
  <2> QED BY <2>1
<1>6. PlacesFrom(args, args[k], k) = {k} \union PlacesFrom(args, args[k], l)
  <2>1. \A i : i \in PlacesFrom(args, args[k], k) <=> i \in {k} \union PlacesFrom(args, args[k], l)
    BY <1>1, <1>4
  <2> QED BY <2>1
<1>7. \A x \in PlacesFrom(args, args[k], l) : k < x
  BY <1>1 DEF PlacesFrom, n
<1> QED BY <1>3, <1>5, <1>6, <1>7 DEF AddsOne

\* What an option is given: a flag the value TRUE.
ValueOf(args, flags, k) == IF args[k] \in flags THEN TRUE ELSE args[k + 1]

\* So a turn of the loop adds one value to what the rest of the arguments means.
LEMMA ReadWithOne ==
  ASSUME RefusedIsNoFunction, NEW args, NEW V, NEW R, NEW F, AreOptions(args, V, R, F),
         NEW k \in 1..Len(args), NEW l, Takes(args, V, R, F, k, l)
  PROVE  ReadFrom(args, V, R, F, k) =
           With(ReadFrom(args, V, R, F, l), args[k], ValueOf(args, F, k), args[k] \in R)
<1>0. AddsOne(args, V \union F, k, l)
  BY NamedWithOne
<1> DEFINE o == args[k]
           value == ValueOf(args, F, k)
           named == NamedFrom(args, V \union F, l)
           rest == Meant(args, V, F, l)
           all == Meant(args, V, F, k)
           Value_(x, i) == IF x \in F THEN <<TRUE>> ELSE ValuesAt(args, PlacesFrom(args, x, i))
<1>1. Fits(args, V, R, F, k) <=> Fits(args, V, R, F, l) /\ (o \in named => o \in R)
  BY FitsWithOne
<1>2. /\ NamedFrom(args, V \union F, k) = {o} \union named
      /\ PlacesFrom(args, o, k) = {k} \union PlacesFrom(args, o, l)
      /\ \A x \in PlacesFrom(args, o, l) : k < x
      /\ \A x \in V \union F : x # o => PlacesFrom(args, x, k) = PlacesFrom(args, x, l)
  <2> HIDE DEF rest, all, Value_
  <2> QED BY <1>0 DEF AddsOne
<1>3. k \in Nat /\ l \in Nat /\ o \in V \union F /\ args \in Seq(STRING)
  <2>1. args \in Seq(STRING)
    BY DEF AreOptions
  <2> HIDE DEF named, rest, all, value, Value_
  <2>2. k \in Nat /\ l \in Nat /\ args[k] \in V \union F
    BY TakesOne
  <2> QED BY <2>1, <2>2
<1>4. /\ all = [x \in {o} \union named |-> Value_(x, k)]
      /\ rest = [x \in named |-> Value_(x, l)]
  BY <1>2 DEF Meant
<1>5. named \subseteq V \union F
  BY DEF NamedFrom
<1>6. \A x \in named : x # o => Value_(x, k) = Value_(x, l)
  BY <1>2, <1>5
<1>7. rest # Refused
  BY MeantIsNotRefused
<1>8. ASSUME o \in V PROVE Value_(o, k) = <<value>> \o Value_(o, l)
  <2>1. o \notin F
    BY <1>8 DEF AreOptions
  <2> DEFINE S == PlacesFrom(args, o, l)
  <2>2. S \in SUBSET Nat /\ IsFiniteSet(S) /\ \A x \in S : k < x
    BY <1>2, <1>3, PlacesAreFinite
  <2> HIDE DEF S
  <2>3. ValuesAt(args, {k} \union S) = <<args[k + 1]>> \o ValuesAt(args, S)
    BY <1>3, <2>2, ValuesWithFirst
  <2>4. value = args[k + 1]
    BY <2>1 DEF ValueOf
  <2> QED BY <1>2, <2>1, <2>3, <2>4 DEF S
<1>9. ASSUME o \notin named PROVE Value_(o, k) = <<value>>
  <2>1. CASE o \in F
    BY <2>1 DEF ValueOf
  <2>2. CASE o \in V
    <3>1. PlacesFrom(args, o, l) = {}
      BY <1>3, <1>9 DEF PlacesFrom, NamedFrom
    <3>2. ValuesAt(args, {}) = <<>>
      <4>1. Cardinality({}) = 0
        BY FS_EmptySet
      <4> DEFINE v == ValuesAt(args, {})
      <4>2. v = [n \in 1..0 |-> v[n]]
        BY <4>1 DEF ValuesAt
      <4> HIDE DEF v
      <4>3. v = <<>>
        BY <4>2
      <4> QED BY <4>3 DEF v
    <3>3. o \notin F
      BY <2>2 DEF AreOptions
    <3>4. Value_(o, l) = <<>>
      BY <3>1, <3>2, <3>3
    <3>5. Value_(o, k) = <<value>> \o <<>>
      BY <1>8, <2>2, <3>4
    <3>6. <<value>> \o <<>> = <<value>>
      OBVIOUS
    <3> QED BY <3>5, <3>6
  <2> QED BY <1>3, <2>1, <2>2
<1> HIDE DEF named, rest, all, Value_, o, value
<1>10. CASE ~Fits(args, V, R, F, l)
  BY <1>1, <1>10 DEF ReadFrom, With, o
<1>11. CASE Fits(args, V, R, F, l) /\ o \notin named
  <2>1. ReadFrom(args, V, R, F, l) = rest /\ ReadFrom(args, V, R, F, k) = all
    BY <1>1, <1>11 DEF ReadFrom, rest, all
  <2>2. DOMAIN rest = named
    BY <1>4
  <2>3. With(rest, o, value, o \in R) = [x \in {o} \union named |-> IF x = o THEN <<value>> ELSE rest[x]]
    BY <1>7, <1>11, <2>2 DEF With
  <2>4. \A x \in {o} \union named : Value_(x, k) = IF x = o THEN <<value>> ELSE rest[x]
    BY <1>4, <1>6, <1>9, <1>11
  <2> QED BY <1>4, <2>1, <2>3, <2>4 DEF o, value
<1>12. CASE Fits(args, V, R, F, l) /\ o \in named
  <2>1. CASE o \in R
    <3>1. ReadFrom(args, V, R, F, l) = rest /\ ReadFrom(args, V, R, F, k) = all
      BY <1>1, <1>12, <2>1 DEF ReadFrom, rest, all
    <3>2. With(rest, o, value, o \in R) = [rest EXCEPT ![o] = <<value>> \o rest[o]]
      BY <1>4, <1>7, <1>12, <2>1 DEF With
    <3>3. o \in V
      BY <2>1 DEF AreOptions
    <3>4. \A x \in named : Value_(x, k) = IF x = o THEN <<value>> \o rest[o] ELSE rest[x]
      BY <1>4, <1>6, <1>8, <1>12, <3>3
    <3>5. {o} \union named = named
      BY <1>12
    <3>6. all = [rest EXCEPT ![o] = <<value>> \o rest[o]]
      BY <1>4, <3>4, <3>5
    <3> QED BY <3>1, <3>2, <3>6 DEF o, value
  <2>2. CASE o \notin R
    <3>1. ReadFrom(args, V, R, F, l) = rest /\ ReadFrom(args, V, R, F, k) = Refused
      BY <1>1, <1>12, <2>2 DEF ReadFrom, rest
    <3>2. With(rest, o, value, o \in R) = Refused
      BY <1>4, <1>12, <2>2 DEF With
    <3> QED BY <3>1, <3>2 DEF o, value
  <2> QED BY <2>1, <2>2
<1> QED BY <1>10, <1>11, <1>12

\* The equation of the loop, which what is read from each argument on satisfies.
LoopTurn(args, valued, repeatable, flags, from, k) ==
  IF k > Len(args) THEN <<>>
  ELSE IF args[k] \in flags
       THEN IF k < Len(args) /\ ~StartsWithDash(args[k + 1]) THEN Refused
            ELSE With(from[k + 1], args[k], TRUE, FALSE)
  ELSE IF args[k] \notin valued \union repeatable \/ ~(k < Len(args) /\ ~StartsWithDash(args[k + 1]))
       THEN Refused
  ELSE With(from[k + 2], args[k], args[k + 1], args[k] \in repeatable)

IsLoop(args, valued, repeatable, flags, from) ==
  from = [k \in 1..(Len(args) + 2) |-> LoopTurn(args, valued, repeatable, flags, from, k)]

LEMMA ReadIsLoop ==
  ASSUME RefusedIsNoFunction, NEW args, NEW valued, NEW repeatable, NEW flags,
         AreOptions(args, valued \union repeatable, repeatable, flags),
         NEW from, from = [k \in 1..(Len(args) + 2) |->
                             ReadFrom(args, valued \union repeatable, repeatable, flags, k)],
         NEW k \in 1..(Len(args) + 2)
  PROVE  from[k] = LoopTurn(args, valued, repeatable, flags, from, k)
<1> DEFINE V == valued \union repeatable
           n == Len(args)
           Read(i) == ReadFrom(args, V, repeatable, flags, i)
           Follows == k < n /\ ~StartsWithDash(args[k + 1])
<1>1. n \in Nat /\ AreOptions(args, V, repeatable, flags)
  BY DEF AreOptions
<1>2. from[k] = Read(k)
  OBVIOUS
<1>3. CASE k > n
  <2>1. k \in {n + 1, n + 2}
    BY <1>1, <1>3
  <2>2. Read(k) = <<>>
    BY <1>1, <2>1, NothingLeft
  <2> QED BY <1>2, <1>3, <2>2 DEF LoopTurn
<1>4. CASE ~(k > n)
  <2>1. k \in 1..n
    BY <1>1, <1>4
  <2>2. k + 1 \in 1..(n + 2) /\ k + 2 \in 1..(n + 2)
    BY <1>1, <2>1
  <2> HIDE DEF V, n
  <2>3. from[k + 1] = Read(k + 1) /\ from[k + 2] = Read(k + 2)
    BY <2>2 DEF V, n
  <2> HIDE DEF Read
  <2>4. CASE args[k] \in flags /\ Follows
    <3>1. Read(k) = Refused
      BY <1>1, <2>1, <2>4, LoopRefuses DEF Read, n
    <3> QED BY <1>2, <1>4, <2>4, <3>1 DEF LoopTurn, n
  <2>5. CASE args[k] \in flags /\ ~Follows
    <3> DEFINE l == k + 1
               value == ValueOf(args, flags, k)
    <3>1. Takes(args, V, repeatable, flags, k, l) /\ value = TRUE
      BY <2>5 DEF Takes, n, ValueOf
    <3> HIDE DEF l, value
    <3>2. Read(k) = With(Read(l), args[k], value, args[k] \in repeatable)
      BY <1>1, <2>1, <3>1, ReadWithOne DEF Read, n, value
    <3>3. args[k] \notin repeatable
      BY <1>1, <2>5 DEF AreOptions
    <3>4. With(Read(l), args[k], value, args[k] \in repeatable) = With(Read(l), args[k], TRUE, FALSE)
      BY <3>1, <3>3 DEF With
    <3> QED BY <1>2, <1>4, <2>3, <2>5, <3>2, <3>4 DEF LoopTurn, n, l
  <2>6. CASE args[k] \notin flags /\ (args[k] \notin V \/ ~Follows)
    <3>1. Read(k) = Refused
      BY <1>1, <2>1, <2>6, LoopRefuses DEF Read, n
    <3> QED BY <1>2, <1>4, <2>6, <3>1 DEF LoopTurn, n, V
  <2>7. CASE args[k] \notin flags /\ args[k] \in V /\ Follows
    <3> DEFINE l == k + 2
               value == ValueOf(args, flags, k)
    <3>1. Takes(args, V, repeatable, flags, k, l) /\ value = args[k + 1]
      BY <2>7 DEF Takes, n, ValueOf
    <3> HIDE DEF l, value
    <3>2. Read(k) = With(Read(l), args[k], value, args[k] \in repeatable)
      BY <1>1, <2>1, <3>1, ReadWithOne DEF Read, n, value
    <3> QED BY <1>2, <1>4, <2>3, <2>7, <3>1, <3>2 DEF LoopTurn, n, V, l
  <2> QED BY <2>4, <2>5, <2>6, <2>7
<1> QED BY <1>3, <1>4

\* Only one function satisfies it.
LEMMA LoopIsUnique ==
  ASSUME NEW args \in Seq(STRING), NEW valued, NEW repeatable, NEW flags, NEW f, NEW g,
         IsLoop(args, valued, repeatable, flags, f), IsLoop(args, valued, repeatable, flags, g)
  PROVE  f[1] = g[1]
<1> DEFINE n == Len(args)
           Both(k) == k \in 1..(n + 2) => f[k] = g[k]
           N == {m \in Nat : \A k \in Nat : k + m >= n + 1 => Both(k)}
<1>1. n \in Nat
  OBVIOUS
<1>2. /\ \A k \in 1..(n + 2) : f[k] = LoopTurn(args, valued, repeatable, flags, f, k)
      /\ \A k \in 1..(n + 2) : g[k] = LoopTurn(args, valued, repeatable, flags, g, k)
  BY DEF IsLoop
<1> HIDE DEF n
<1>3. 0 \in N
  <2> SUFFICES ASSUME NEW k \in Nat, k >= n + 1, k \in 1..(n + 2) PROVE f[k] = g[k]
    OBVIOUS
  <2>1. k > n
    BY <1>1
  <2>2. f[k] = <<>> /\ g[k] = <<>>
    BY <1>2, <2>1 DEF LoopTurn, n
  <2> QED BY <2>2
<1>4. ASSUME NEW m \in Nat, m \in N PROVE m + 1 \in N
  <2> SUFFICES ASSUME NEW k \in Nat, k + (m + 1) >= n + 1, k \in 1..(n + 2) PROVE f[k] = g[k]
    OBVIOUS
  <2>1. CASE k > n
    BY <1>2, <2>1 DEF LoopTurn, n
  <2>2. CASE ~(k > n)
    <3> DEFINE i == k + 1
               j == k + 2
    <3>1. /\ i \in Nat /\ i + m >= n + 1 /\ i \in 1..(n + 2)
          /\ j \in Nat /\ j + m >= n + 1 /\ j \in 1..(n + 2)
      BY <1>1, <2>2
    <3> HIDE DEF i, j
    <3>2. f[i] = g[i] /\ f[j] = g[j]
      BY <1>4, <3>1
    <3>3. LoopTurn(args, valued, repeatable, flags, f, k) = LoopTurn(args, valued, repeatable, flags, g, k)
      BY <3>2 DEF LoopTurn, i, j
    <3> QED BY <1>2, <3>3
  <2> QED BY <2>1, <2>2
<1>5. n \in N
  <2> HIDE DEF N
  <2> QED BY <1>1, <1>3, <1>4, InductionOverNat
<1>6. 1 \in Nat /\ 1 + n >= n + 1 /\ 1 \in 1..(n + 2)
  BY <1>1
<1> QED BY <1>5, <1>6

\* The loop reads all that is there: the options in any order.
LEMMA ParsedIsRead ==
  ASSUME RefusedIsNoFunction, NEW args, NEW valued, NEW repeatable, NEW flags,
         AreOptions(args, valued \union repeatable, repeatable, flags)
  PROVE  Parsed(args, valued, repeatable, flags) =
           ReadFrom(args, valued \union repeatable, repeatable, flags, 1)
<1> DEFINE D == 1..(Len(args) + 2)
           Follows(k) == k < Len(args) /\ ~StartsWithDash(args[k + 1])
           from == CHOOSE from : from = [k \in 1..(Len(args) + 2) |->
                     IF k > Len(args) THEN <<>>
                     ELSE IF args[k] \in flags
                          THEN IF Follows(k) THEN Refused ELSE With(from[k + 1], args[k], TRUE, FALSE)
                     ELSE IF args[k] \notin valued \union repeatable \/ ~Follows(k) THEN Refused
                     ELSE With(from[k + 2], args[k], args[k + 1], args[k] \in repeatable)]
           g == [k \in D |-> ReadFrom(args, valued \union repeatable, repeatable, flags, k)]
<1>1. Parsed(args, valued, repeatable, flags) = from[1]
  BY DEF Parsed
<1>2. \A k \in D : g[k] = LoopTurn(args, valued, repeatable, flags, g, k)
  <2> TAKE k \in D
  <2> HIDE DEF g
  <2>1. g = [i \in 1..(Len(args) + 2) |->
               ReadFrom(args, valued \union repeatable, repeatable, flags, i)]
    BY DEF g
  <2> QED BY <2>1, ReadIsLoop
<1>3. IsLoop(args, valued, repeatable, flags, g)
  <2>1. g = [k \in D |-> g[k]]
    OBVIOUS
  <2> HIDE DEF g
  <2> QED BY <1>2, <2>1 DEF IsLoop
<1>4. IsLoop(args, valued, repeatable, flags, from)
  <2> HIDE DEF g
  <2> QED BY <1>3, Zenon DEF LoopTurn, IsLoop
<1>5. args \in Seq(STRING)
  BY DEF AreOptions
<1>6. 1 \in D /\ Len(args) \in Nat
  BY <1>5
<1>7. g[1] = ReadFrom(args, valued \union repeatable, repeatable, flags, 1)
  BY <1>6
<1> HIDE DEF from, g
<1>8. from[1] = g[1]
  BY <1>3, <1>4, <1>5, LoopIsUnique
<1> QED BY <1>1, <1>7, <1>8

\* The options that may be repeated, and what the loop makes of a command line.
Repeatable(command) == ValuedOptions(command) \intersect {"--spec-root", "--ignore-root", "--seed"}
FitsCommand(command, args) ==
  Fits(args, ValuedOptions(command), Repeatable(command), FlagOptions(command), 1)
ReadCommand(command, args) ==
  ReadFrom(args, ValuedOptions(command), Repeatable(command), FlagOptions(command), 1)

LEMMA CommandOptions ==
  ASSUME NEW command \in Commands, NEW args \in Seq(STRING)
  PROVE  AreOptions(args, ValuedOptions(command), Repeatable(command), FlagOptions(command))
<1> DEFINE V == ValuedOptions(command)
           F == FlagOptions(command)
<1>1. V \intersect F = {} /\ V \union F \subseteq OptionNames
  <2>1. CASE command = "init"
    BY <2>1 DEF ValuedOptions, FlagOptions, OptionNames
  <2>2. CASE command = "map"
    BY <2>2 DEF ValuedOptions, FlagOptions, OptionNames
  <2>3. CASE command = "scaffold"
    BY <2>3 DEF ValuedOptions, FlagOptions, OptionNames
  <2>4. CASE command = "scan"
    BY <2>4 DEF ValuedOptions, FlagOptions, OptionNames
  <2>5. CASE command = "check"
    BY <2>5 DEF ValuedOptions, FlagOptions, OptionNames
  <2>6. CASE command = "diff"
    BY <2>6 DEF ValuedOptions, FlagOptions, OptionNames
  <2>7. CASE command = "explain"
    BY <2>7 DEF ValuedOptions, FlagOptions, OptionNames
  <2>8. CASE command = "report"
    BY <2>8 DEF ValuedOptions, FlagOptions, OptionNames
  <2>9. CASE command = "bundle"
    BY <2>9 DEF ValuedOptions, FlagOptions, OptionNames
  <2> QED BY <2>1, <2>2, <2>3, <2>4, <2>5, <2>6, <2>7, <2>8, <2>9 DEF Commands
<1> HIDE DEF V, F
<1>2. Repeatable(command) \subseteq V
  BY DEF Repeatable, V
<1> QED BY <1>1, <1>2 DEF AreOptions, V, F

\* The places of an option of the command are where it stands.
LEMMA PlacesAre ==
  ASSUME NEW command, NEW args \in Seq(STRING), NEW option
  PROVE  /\ option \in KnownOptions(command) =>
              PlacesOf(command, args, option) = PlacesFrom(args, option, 1)
         /\ option \notin KnownOptions(command) => PlacesOf(command, args, option) = {}
         /\ PlacesOf(command, args, option) \in SUBSET Nat
         /\ IsFiniteSet(PlacesOf(command, args, option))
<1> DEFINE n == Len(args)
<1>1. DOMAIN args = 1..n /\ n \in Nat
  OBVIOUS
<1> HIDE DEF n
<1>2. CASE option \in KnownOptions(command)
  <2>1. PlacesOf(command, args, option) = PlacesFrom(args, option, 1)
    BY <1>1, <1>2 DEF PlacesOf, PlacesFrom, OptionPlaces, n
  <2>2. 1 \in Nat
    OBVIOUS
  <2> QED BY <1>2, <2>1, <2>2, PlacesAreFinite
<1>3. CASE option \notin KnownOptions(command)
  <2>1. PlacesOf(command, args, option) = {}
    BY <1>3 DEF PlacesOf, OptionPlaces
  <2> QED BY <1>3, <2>1, FS_EmptySet
<1> QED BY <1>2, <1>3

LEMMA OnePlace ==
  ASSUME NEW P, IsFiniteSet(P), P # {}
  PROVE  Cardinality(P) = 1 <=> \A i, j \in P : i = j
<1>1. PICK x \in P : TRUE
  OBVIOUS
<1>2. Cardinality(P) \in Nat /\ Cardinality({x}) = 1
  BY FS_CardinalityType, FS_Singleton
<1>3. ASSUME \A i, j \in P : i = j PROVE Cardinality(P) = 1
  <2>1. P = {x}
    BY <1>1, <1>3
  <2> QED BY <1>2, <2>1
<1>4. ASSUME Cardinality(P) = 1 PROVE \A i, j \in P : i = j
  <2>1. {x} \in SUBSET P
    BY <1>1
  <2>2. {x} = P
    BY <1>2, <1>4, <2>1, FS_Subset
  <2> QED BY <2>2
<1> QED BY <1>3, <1>4

\* The loop accepts a command line exactly when every argument is an option or its
\* value and no option is there twice that may not be.
WellFormed(command, args) ==
  /\ \A k \in DOMAIN args : k \in OptionPlaces(command, args) \/ IsOptionValue(command, args, k)
  /\ \A k \in OptionPlaces(command, args) : args[k] \in ValuedOptions(command) =>
       k + 1 \in DOMAIN args /\ IsOptionValue(command, args, k + 1)
  /\ \A option \in GivenOptions(command, args) :
       option \in {"--spec-root", "--ignore-root", "--seed"}
       \/ Cardinality(PlacesOf(command, args, option)) = 1

LEMMA FitsIsWellFormed ==
  ASSUME NEW command \in Commands, NEW args \in Seq(STRING)
  PROVE  FitsCommand(command, args) <=> WellFormed(command, args)
<1> DEFINE V == ValuedOptions(command)
           R == Repeatable(command)
           F == FlagOptions(command)
           n == Len(args)
           options == OptionPlaces(command, args)
           repeats == {"--spec-root", "--ignore-root", "--seed"}
<1>1. n \in Nat /\ DOMAIN args = 1..n
  OBVIOUS
<1>2. AreOptions(args, V, R, F)
  BY CommandOptions
<1>3. R = V \intersect repeats /\ V \union F = KnownOptions(command)
  BY DEF Repeatable, KnownOptions
<1>4. R \subseteq V /\ V \intersect F = {} /\ V \union F \subseteq OptionNames
  BY <1>2 DEF AreOptions
<1>5. options = {k \in 1..n : args[k] \in V \union F}
  BY <1>1, <1>3 DEF OptionPlaces
<1>6. \A k \in 1..n : IsOptionValue(command, args, k) <=>
        k > 1 /\ args[k - 1] \in V /\ ~StartsWithDash(args[k])
  <2> TAKE k \in 1..n
  <2> HIDE DEF V, F, n, options
  <2>1. ASSUME k > 1, args[k - 1] \in V PROVE k - 1 \in options
    <3> DEFINE j == k - 1
    <3>1. j \in 1..n
      BY <1>1, <2>1
    <3> HIDE DEF j
    <3> QED BY <1>5, <2>1, <3>1 DEF j
  <2>2. ASSUME k - 1 \in options PROVE k > 1
    BY <1>1, <1>5, <2>2
  <2> QED BY <2>1, <2>2 DEF IsOptionValue, V, options
<1> HIDE DEF V, R, F, n, options
<1>7. ASSUME NEW k \in options, args[k] \in V
      PROVE  k + 1 \in 1..n /\ IsOptionValue(command, args, k + 1) <=>
               k < n /\ ~StartsWithDash(args[k + 1])
  <2> DEFINE l == k + 1
  <2>1. k \in 1..n /\ l > 1 /\ l - 1 = k /\ (l \in 1..n <=> k < n)
    BY <1>1, <1>5, <1>7
  <2> HIDE DEF l
  <2>2. l \in 1..n => (IsOptionValue(command, args, l) <=> ~StartsWithDash(args[l]))
    BY <1>6, <1>7, <2>1
  <2> QED BY <2>1, <2>2 DEF l
<1>8. /\ \A k \in 1..n : k \in options <=> args[k] \in V \union F
      /\ \A k \in options : k \in 1..n
  BY <1>5
<1>9. /\ \A option \in GivenOptions(command, args) : \E k \in options : option = args[k]
      /\ \A k \in options : args[k] \in GivenOptions(command, args)
  BY DEF GivenOptions, options
<1>10. \A option, k : k \in PlacesOf(command, args, option) <=> k \in options /\ args[k] = option
  BY DEF PlacesOf, options
<1>11. ASSUME NEW option \in GivenOptions(command, args)
       PROVE  Cardinality(PlacesOf(command, args, option)) = 1 <=>
                \A i, j \in options : args[i] = option /\ args[j] = option => i = j
  <2> DEFINE P == PlacesOf(command, args, option)
  <2>1. IsFiniteSet(P) /\ P # {}
    BY <1>9, <1>10, PlacesAre
  <2> HIDE DEF P
  <2>2. Cardinality(P) = 1 <=> \A i, j \in P : i = j
    BY <2>1, OnePlace
  <2> QED BY <1>10, <2>2 DEF P
<1>12. ASSUME FitsCommand(command, args) PROVE WellFormed(command, args)
  <2>0. Fits(args, V, R, F, 1)
    BY <1>12 DEF FitsCommand, V, R, F
  <2>1. \A k \in 1..n : k \in options \/ IsOptionValue(command, args, k)
    BY <1>6, <1>8, <2>0 DEF Fits, n
  <2>2. \A k \in options : args[k] \in V => k + 1 \in 1..n /\ IsOptionValue(command, args, k + 1)
    BY <1>7, <1>8, <2>0 DEF Fits, n
  <2>3. \A i, j \in options : args[i] = args[j] /\ args[i] \notin repeats => i = j
    BY <1>3, <1>8, <2>0 DEF Fits, n
  <2>4. \A option \in GivenOptions(command, args) :
          option \in repeats \/ Cardinality(PlacesOf(command, args, option)) = 1
    BY <1>11, <2>3
  <2> QED BY <1>1, <2>1, <2>2, <2>4 DEF WellFormed, options, V
<1>13. ASSUME WellFormed(command, args) PROVE FitsCommand(command, args)
  <2>1. \A k \in 1..n : k \in options \/ IsOptionValue(command, args, k)
    BY <1>1, <1>13 DEF WellFormed, options
  <2>2. \A k \in options : args[k] \in V => k + 1 \in 1..n /\ IsOptionValue(command, args, k + 1)
    BY <1>1, <1>13 DEF WellFormed, options, V
  <2>3. \A option \in GivenOptions(command, args) :
          option \in repeats \/ Cardinality(PlacesOf(command, args, option)) = 1
    BY <1>13 DEF WellFormed
  <2>4. \A k \in 1..n : args[k] \in V \union F
                        \/ (k > 1 /\ args[k - 1] \in V /\ ~StartsWithDash(args[k]))
    BY <1>6, <1>8, <2>1
  <2>5. \A k \in 1..n : args[k] \in V => k < n /\ ~StartsWithDash(args[k + 1])
    BY <1>7, <1>8, <2>2
  <2>6. ASSUME NEW i \in 1..n, NEW j \in 1..n, args[i] = args[j], args[i] \in (V \ R) \union F
        PROVE  i = j
    <3>1. i \in options /\ j \in options /\ args[i] \in GivenOptions(command, args)
      BY <1>4, <1>8, <1>9, <2>6
    <3>2. CASE args[i] \notin repeats
      BY <1>11, <2>3, <2>6, <3>1, <3>2
    <3>3. CASE args[i] \in repeats
      <4>1. args[i] \in F
        BY <1>3, <2>6, <3>3
      <4>2. \A c \in Commands : FlagOptions(c) \intersect repeats = {}
        BY DEF FlagOptions, Commands
      <4> QED BY <3>3, <4>1, <4>2 DEF F
    <3> QED BY <3>2, <3>3
  <2>7. Fits(args, V, R, F, 1)
    BY <2>4, <2>5, <2>6 DEF Fits, n
  <2> QED BY <2>7 DEF FitsCommand, V, R, F
<1> QED BY <1>12, <1>13

\* What a command line that is accepted means: the options there are, and for each that
\* takes values those behind it, in their order.
MeansWhatIsThere(command, args, parsed) ==
  /\ parsed # Refused
  /\ DOMAIN parsed = GivenOptions(command, args)
  /\ \A option \in GivenOptions(command, args) \intersect ValuedOptions(command) :
       /\ parsed[option] = ValuesAt(args, PlacesOf(command, args, option))
       /\ Range(parsed[option]) = ValuesOf(command, args, option)

\* The values of an option, by the places it stands at.
LEMMA RangeOfValues ==
  ASSUME NEW args, NEW P \in SUBSET Nat, IsFiniteSet(P)
  PROVE  /\ Range(ValuesAt(args, P)) = {args[k + 1] : k \in P}
         /\ IsInjective(ValuesAt(args, P)) <=> \A i, j \in P : i # j => args[i + 1] # args[j + 1]
<1> DEFINE m == Cardinality(P)
           list == Sorted(P)
           values == ValuesAt(args, P)
<1>1. /\ m \in Nat /\ list \in [1..m -> P]
      /\ \A i, j \in 1..m : list[i] = list[j] => i = j
      /\ \A x \in P : \E i \in 1..m : list[i] = x
  BY SortedFacts
<1>2. values = [n \in 1..m |-> args[list[n] + 1]]
  BY DEF ValuesAt
<1> HIDE DEF m, list, values
<1>3. DOMAIN values = 1..m /\ \A n \in 1..m : values[n] = args[list[n] + 1] /\ list[n] \in P
  BY <1>1, <1>2
<1>4. Range(values) = {args[k + 1] : k \in P}
  <2>1. ASSUME NEW x \in Range(values) PROVE x \in {args[k + 1] : k \in P}
    <3>1. PICK n \in 1..m : x = values[n]
      BY <1>3 DEF Range
    <3> QED BY <1>3, <3>1
  <2>2. ASSUME NEW k \in P PROVE args[k + 1] \in Range(values)
    <3>1. PICK n \in 1..m : list[n] = k
      BY <1>1
    <3>2. values[n] = args[k + 1]
      BY <1>3, <3>1
    <3> QED BY <1>3, <3>2 DEF Range
  <2> QED BY <2>1, <2>2
<1>5. ASSUME IsInjective(values), NEW i \in P, NEW j \in P, i # j
      PROVE  args[i + 1] # args[j + 1]
  <2>1. PICK a \in 1..m : list[a] = i
    BY <1>1
  <2>2. PICK b \in 1..m : list[b] = j
    BY <1>1
  <2>3. a # b /\ values[a] = args[i + 1] /\ values[b] = args[j + 1]
    BY <1>3, <1>5, <2>1, <2>2
  <2> QED BY <1>3, <1>5, <2>3 DEF IsInjective
<1>6. ASSUME \A i, j \in P : i # j => args[i + 1] # args[j + 1] PROVE IsInjective(values)
  <2> SUFFICES ASSUME NEW a \in 1..m, NEW b \in 1..m, values[a] = values[b] PROVE a = b
    BY <1>3 DEF IsInjective
  <2>1. list[a] = list[b]
    BY <1>3, <1>6
  <2> QED BY <1>1, <2>1
<1> QED BY <1>4, <1>5, <1>6 DEF values

LEMMA ReadMeans ==
  ASSUME RefusedIsNoFunction, NEW command \in Commands, NEW args \in Seq(STRING)
  PROVE  /\ WellFormed(command, args) => MeansWhatIsThere(command, args, ReadCommand(command, args))
         /\ ~WellFormed(command, args) => ReadCommand(command, args) = Refused
<1> DEFINE V == ValuedOptions(command)
           F == FlagOptions(command)
           parsed == ReadCommand(command, args)
           meant == Meant(args, V, F, 1)
           given == GivenOptions(command, args)
           n == Len(args)
<1>1. n \in Nat /\ DOMAIN args = 1..n
  OBVIOUS
<1>2. AreOptions(args, V, Repeatable(command), F)
  BY CommandOptions
<1>3. V \intersect F = {} /\ V \union F = KnownOptions(command)
  BY <1>2 DEF AreOptions, KnownOptions
<1>4. NamedFrom(args, V \union F, 1) = given
  <2> HIDE DEF n
  <2>1. OptionPlaces(command, args) = {j \in 1..n : args[j] \in V \union F}
    BY <1>1, <1>3 DEF OptionPlaces
  <2> QED BY <2>1 DEF NamedFrom, GivenOptions, n
<1>5. ASSUME ~WellFormed(command, args) PROVE parsed = Refused
  BY <1>5, FitsIsWellFormed DEF FitsCommand, ReadCommand, ReadFrom
<1>6. ASSUME WellFormed(command, args) PROVE MeansWhatIsThere(command, args, parsed)
  <2>1. parsed = meant
    BY <1>6, FitsIsWellFormed DEF FitsCommand, ReadCommand, ReadFrom
  <2>2. meant # Refused
    BY MeantIsNotRefused
  <2>3. meant = [option \in given |->
                   IF option \in F THEN <<TRUE>> ELSE ValuesAt(args, PlacesFrom(args, option, 1))]
    BY <1>4 DEF Meant
  <2> HIDE DEF V, F, parsed, meant, given, n
  <2>4. ASSUME NEW option \in given \intersect V
        PROVE  /\ meant[option] = ValuesAt(args, PlacesOf(command, args, option))
               /\ Range(meant[option]) = ValuesOf(command, args, option)
    <3> DEFINE P == PlacesOf(command, args, option)
    <3>1. option \notin F /\ option \in KnownOptions(command)
      BY <1>3
    <3>2. P = PlacesFrom(args, option, 1) /\ P \in SUBSET Nat /\ IsFiniteSet(P)
      BY <3>1, PlacesAre
    <3>3. meant[option] = ValuesAt(args, P)
      BY <2>3, <3>1, <3>2
    <3>4. \A k \in P : k \in OptionPlaces(command, args) /\ args[k] \in ValuedOptions(command)
      BY DEF PlacesOf, V
    <3>5. n \notin P
      <4> SUFFICES ASSUME n \in P PROVE FALSE
        OBVIOUS
      <4>1. n + 1 \in DOMAIN args
        BY <1>6, <3>4 DEF WellFormed
      <4> QED BY <1>1, <4>1
    <3>6. ValuesOf(command, args, option) = {args[k + 1] : k \in P}
      BY <3>5 DEF ValuesOf, n
    <3> HIDE DEF P
    <3>7. Range(ValuesAt(args, P)) = {args[k + 1] : k \in P}
      BY <3>2, RangeOfValues
    <3> QED BY <3>3, <3>6, <3>7 DEF P
  <2>5. DOMAIN meant = given
    BY <2>3
  <2> QED BY <2>1, <2>2, <2>4, <2>5 DEF MeansWhatIsThere, V, given
<1> QED BY <1>5, <1>6

\* The rest of what makes a command line acceptable.
ValuesMayFollow(command, args) ==
  \A option \in GivenOptions(command, args) \intersect ValuedOptions(command) :
    \A value \in ValuesOf(command, args, option) : MayFollow(command, option, value)
SeedsAreOnce(command, args) ==
  \A i, j \in PlacesOf(command, args, "--seed") : i # j => args[i + 1] # args[j + 1]
FormatOf(command, args) ==
  IF "--format" \in GivenOptions(command, args)
  THEN CHOOSE v \in ValuesOf(command, args, "--format") : TRUE ELSE ""
IsComplete(command, args) ==
  Complete(command, GivenOptions(command, args), FormatOf(command, args))

LEMMA AcceptedIs ==
  ASSUME NEW command, NEW args
  PROVE  Accepted(command, args) <=> /\ WellFormed(command, args)
                                     /\ ValuesMayFollow(command, args)
                                     /\ SeedsAreOnce(command, args)
                                     /\ IsComplete(command, args)
BY DEF Accepted, WellFormed, ValuesMayFollow, SeedsAreOnce, IsComplete, FormatOf

\* The parser of a command is the loop over its options.
HasOptions(command, valued, repeatable, flags) ==
  /\ valued \union repeatable = ValuedOptions(command)
  /\ repeatable = Repeatable(command) /\ flags = FlagOptions(command)

LEMMA ParserReads ==
  ASSUME RefusedIsNoFunction, NEW command \in Commands, NEW args \in Seq(STRING),
         NEW valued, NEW repeatable, NEW flags, HasOptions(command, valued, repeatable, flags)
  PROVE  Parsed(args, valued, repeatable, flags) = ReadCommand(command, args)
<1>1. AreOptions(args, valued \union repeatable, repeatable, flags)
  BY CommandOptions DEF HasOptions
<1>2. Parsed(args, valued, repeatable, flags) =
        ReadFrom(args, valued \union repeatable, repeatable, flags, 1)
  BY <1>1, ParsedIsRead
<1> QED BY <1>2 DEF ReadCommand, HasOptions

\* The options whose values are paths.
PathOptions(command) ==
  ValuedOptions(command) \ {"--root", "--spec-root", "--ignore-root", "--format", "--anchor"}

LEMMA ValidatedIs ==
  ASSUME NEW command \in Commands, NEW args, NEW parsed, MeansWhatIsThere(command, args, parsed)
  PROVE  Validated(parsed, PathOptions(command)) =
           IF ValuesMayFollow(command, args) THEN parsed ELSE Refused
<1> DEFINE given == GivenOptions(command, args)
           V == ValuedOptions(command)
           ValuesAre(options, tokens) ==
             \A option \in options \intersect given : Range(parsed[option]) \subseteq tokens
<1>1. /\ parsed # Refused /\ DOMAIN parsed = given
      /\ \A option \in given \intersect V :
           Range(parsed[option]) = ValuesOf(command, args, option)
  BY DEF MeansWhatIsThere
<1>2. Validated(parsed, PathOptions(command)) =
        IF ValuesAre(PathOptions(command), PathTokens) /\ ValuesAre({"--anchor"}, AnchorTokens)
        THEN parsed ELSE Refused
  BY <1>1 DEF Validated
<1>3. "--anchor" \in given => "--anchor" \in V
  <2>1. \A c \in Commands : "--anchor" \notin FlagOptions(c)
    BY DEF FlagOptions, Commands
  <2>2. given \subseteq V \union FlagOptions(command)
    BY DEF GivenOptions, OptionPlaces, KnownOptions
  <2> QED BY <2>1, <2>2
<1> HIDE DEF given, V
<1>4. ASSUME NEW option \in given \intersect V
      PROVE  /\ option \in PathOptions(command) =>
                  ((\A value \in ValuesOf(command, args, option) : MayFollow(command, option, value))
                     <=> Range(parsed[option]) \subseteq PathTokens)
             /\ option = "--anchor" =>
                  ((\A value \in ValuesOf(command, args, option) : MayFollow(command, option, value))
                     <=> Range(parsed[option]) \subseteq AnchorTokens)
             /\ option \notin PathOptions(command) /\ option # "--anchor" =>
                  \A value : MayFollow(command, option, value)
  <2>1. Range(parsed[option]) = ValuesOf(command, args, option)
    BY <1>1
  <2>2. ASSUME option \in PathOptions(command)
        PROVE  \A value : MayFollow(command, option, value) <=> value \in PathTokens
    BY <2>2 DEF PathOptions, MayFollow
  <2>3. ASSUME option = "--anchor"
        PROVE  \A value : MayFollow(command, option, value) <=> value \in AnchorTokens
    BY <2>3 DEF MayFollow
  <2>4. ASSUME option \notin PathOptions(command), option # "--anchor"
        PROVE  \A value : MayFollow(command, option, value)
    BY <2>4 DEF PathOptions, MayFollow, V
  <2> QED BY <2>1, <2>2, <2>3, <2>4
<1>5. PathOptions(command) \subseteq V
  BY DEF PathOptions, V
<1>6. ValuesMayFollow(command, args) <=>
        ValuesAre(PathOptions(command), PathTokens) /\ ValuesAre({"--anchor"}, AnchorTokens)
  <2>1. ASSUME ValuesMayFollow(command, args)
        PROVE  ValuesAre(PathOptions(command), PathTokens) /\ ValuesAre({"--anchor"}, AnchorTokens)
    BY <1>3, <1>4, <1>5, <2>1 DEF ValuesMayFollow, given, V
  <2>2. ASSUME ValuesAre(PathOptions(command), PathTokens), ValuesAre({"--anchor"}, AnchorTokens),
               NEW option \in given \intersect V
        PROVE  \A value \in ValuesOf(command, args, option) : MayFollow(command, option, value)
    <3>1. CASE option \in PathOptions(command)
      BY <1>4, <2>2, <3>1
    <3>2. CASE option = "--anchor"
      BY <1>4, <2>2, <3>2
    <3>3. CASE option \notin PathOptions(command) /\ option # "--anchor"
      BY <1>4, <3>3
    <3> QED BY <3>1, <3>2, <3>3
  <2> QED BY <2>1, <2>2 DEF ValuesMayFollow, given, V
<1> QED BY <1>2, <1>6

\* What is refused stays refused.
LEMMA RefusedStays ==
  ASSUME NEW options
  PROVE  Requiring(Refused, options) = Refused /\ Validated(Refused, options) = Refused
BY DEF Requiring, Validated

\* Only map takes seeds.
LEMMA NoSeeds ==
  ASSUME NEW command \in Commands \ {"map"}, NEW args \in Seq(STRING)
  PROVE  SeedsAreOnce(command, args)
<1>1. \A c \in Commands \ {"map"} : "--seed" \notin KnownOptions(c)
  BY DEF KnownOptions, ValuedOptions, FlagOptions, Commands
<1>2. PlacesOf(command, args, "--seed") = {}
  BY <1>1, PlacesAre
<1> QED BY <1>2 DEF SeedsAreOnce

-----------------------------------------------------------------------------
(* the commands *)

\* A command hands to its handler what its command line means, if it accepts it.
ReadsWhatItAccepts(command, args) ==
  CommandArgs(command, args) =
    IF Accepted(command, args) THEN ReadCommand(command, args) ELSE Refused

\* When some options are needed and paths are validated.
LEMMA RequiredOptions ==
  ASSUME RefusedIsNoFunction, NEW command \in Commands \ {"map"}, NEW args \in Seq(STRING),
         NEW needed, IsComplete(command, args) <=> needed \subseteq GivenOptions(command, args)
  PROVE  Validated(Requiring(ReadCommand(command, args), needed), PathOptions(command)) =
           IF Accepted(command, args) THEN ReadCommand(command, args) ELSE Refused
<1> DEFINE p == ReadCommand(command, args)
           given == GivenOptions(command, args)
<1>1. /\ WellFormed(command, args) => MeansWhatIsThere(command, args, p)
      /\ ~WellFormed(command, args) => p = Refused
  BY ReadMeans
<1>2. SeedsAreOnce(command, args)
  BY NoSeeds
<1> HIDE DEF p
<1>3. CASE ~WellFormed(command, args)
  <2>1. p = Refused
    BY <1>1, <1>3
  <2> QED BY <1>3, <2>1, RefusedStays, AcceptedIs DEF p
<1>4. CASE WellFormed(command, args)
  <2>1. MeansWhatIsThere(command, args, p)
    BY <1>1, <1>4
  <2>2. p # Refused /\ DOMAIN p = given
    BY <2>1 DEF MeansWhatIsThere
  <2>3. Requiring(p, needed) = IF IsComplete(command, args) THEN p ELSE Refused
    BY <2>2 DEF Requiring
  <2>4. Validated(p, PathOptions(command)) = IF ValuesMayFollow(command, args) THEN p ELSE Refused
    BY <2>1, ValidatedIs
  <2> QED BY <1>2, <1>4, <2>3, <2>4, RefusedStays, AcceptedIs DEF p
<1> QED BY <1>3, <1>4

LEMMA InitReads ==
  ASSUME RefusedIsNoFunction, NEW args \in Seq(STRING)
  PROVE  ReadsWhatItAccepts("init", args)
<1> DEFINE p == ReadCommand("init", args)
           needed == {"--root", "--spec-root"}
<1>1. HasOptions("init", {"--root"}, {"--spec-root", "--ignore-root"}, {})
  BY DEF HasOptions, ValuedOptions, Repeatable, FlagOptions
<1>2. "init" \in Commands /\ "init" \in Commands \ {"map"}
  BY DEF Commands
<1>3. CommandArgs("init", args) = Requiring(p, needed)
  BY <1>1, <1>2, ParserReads DEF CommandArgs, parseInitArgs
<1>4. IsComplete("init", args) <=> needed \subseteq GivenOptions("init", args)
  BY DEF IsComplete, Complete
<1>5. /\ WellFormed("init", args) => MeansWhatIsThere("init", args, p)
      /\ ~WellFormed("init", args) => p = Refused
  BY <1>2, ReadMeans
<1>6. SeedsAreOnce("init", args)
  BY <1>2, NoSeeds
<1>7. ValuesMayFollow("init", args)
  BY DEF ValuesMayFollow, MayFollow, ValuedOptions
<1> HIDE DEF p, needed
<1>8. CASE ~WellFormed("init", args)
  BY <1>3, <1>5, <1>8, RefusedStays, AcceptedIs DEF ReadsWhatItAccepts
<1>9. CASE WellFormed("init", args)
  <2>1. p # Refused /\ DOMAIN p = GivenOptions("init", args)
    BY <1>5, <1>9 DEF MeansWhatIsThere
  <2>2. Requiring(p, needed) = IF IsComplete("init", args) THEN p ELSE Refused
    BY <1>4, <2>1 DEF Requiring
  <2> QED BY <1>3, <1>6, <1>7, <1>9, <2>2, AcceptedIs DEF ReadsWhatItAccepts, p
<1> QED BY <1>8, <1>9

LEMMA ScaffoldReads ==
  ASSUME RefusedIsNoFunction, NEW args \in Seq(STRING)
  PROVE  ReadsWhatItAccepts("scaffold", args)
<1> DEFINE needed == {"--output"}
<1>1. HasOptions("scaffold", {"--output"}, {}, {}) /\ PathOptions("scaffold") = {"--output"}
  BY DEF HasOptions, ValuedOptions, Repeatable, FlagOptions, PathOptions
<1>2. "scaffold" \in Commands /\ "scaffold" \in Commands \ {"map"}
  BY DEF Commands
<1>3. CommandArgs("scaffold", args) =
        Validated(Requiring(ReadCommand("scaffold", args), needed), PathOptions("scaffold"))
  BY <1>1, <1>2, ParserReads DEF CommandArgs, parseScaffoldArgs
<1>4. IsComplete("scaffold", args) <=> needed \subseteq GivenOptions("scaffold", args)
  BY DEF IsComplete, Complete
<1> HIDE DEF needed
<1> QED BY <1>2, <1>3, <1>4, RequiredOptions DEF ReadsWhatItAccepts

LEMMA CheckReads ==
  ASSUME RefusedIsNoFunction, NEW args \in Seq(STRING)
  PROVE  ReadsWhatItAccepts("check", args)
<1> DEFINE needed == {"--policy"}
<1>1. /\ HasOptions("check", {"--policy", "--scan"}, {}, {"--json"})
      /\ PathOptions("check") = {"--policy", "--scan"}
  BY DEF HasOptions, ValuedOptions, Repeatable, FlagOptions, PathOptions
<1>2. "check" \in Commands /\ "check" \in Commands \ {"map"}
  BY DEF Commands
<1>3. CommandArgs("check", args) =
        Validated(Requiring(ReadCommand("check", args), needed), PathOptions("check"))
  BY <1>1, <1>2, ParserReads DEF CommandArgs, parseCheckArgs
<1>4. IsComplete("check", args) <=> needed \subseteq GivenOptions("check", args)
  BY DEF IsComplete, Complete
<1> HIDE DEF needed
<1> QED BY <1>2, <1>3, <1>4, RequiredOptions DEF ReadsWhatItAccepts

LEMMA DiffReads ==
  ASSUME RefusedIsNoFunction, NEW args \in Seq(STRING)
  PROVE  ReadsWhatItAccepts("diff", args)
<1> DEFINE needed == {"--base", "--head"}
<1>1. /\ HasOptions("diff", {"--base", "--head"}, {}, {"--json"})
      /\ PathOptions("diff") = {"--base", "--head"}
  BY DEF HasOptions, ValuedOptions, Repeatable, FlagOptions, PathOptions
<1>2. "diff" \in Commands /\ "diff" \in Commands \ {"map"}
  BY DEF Commands
<1>3. CommandArgs("diff", args) =
        Validated(Requiring(ReadCommand("diff", args), needed), PathOptions("diff"))
  BY <1>1, <1>2, ParserReads DEF CommandArgs, parseDiffArgs
<1>4. IsComplete("diff", args) <=> needed \subseteq GivenOptions("diff", args)
  BY DEF IsComplete, Complete
<1> HIDE DEF needed
<1> QED BY <1>2, <1>3, <1>4, RequiredOptions DEF ReadsWhatItAccepts

LEMMA BundleReads ==
  ASSUME RefusedIsNoFunction, NEW args \in Seq(STRING)
  PROVE  ReadsWhatItAccepts("bundle", args)
<1> DEFINE options == {"--scan", "--check", "--diff", "--metadata"}
           needed == options \union {"--json"}
<1>1. HasOptions("bundle", options, {}, {"--json"}) /\ PathOptions("bundle") = options
  BY DEF HasOptions, ValuedOptions, Repeatable, FlagOptions, PathOptions
<1>2. "bundle" \in Commands /\ "bundle" \in Commands \ {"map"}
  BY DEF Commands
<1>3. CommandArgs("bundle", args) =
        Validated(Requiring(ReadCommand("bundle", args), needed), PathOptions("bundle"))
  BY <1>1, <1>2, ParserReads DEF CommandArgs, parseBundleArgs
<1>4. IsComplete("bundle", args) <=> needed \subseteq GivenOptions("bundle", args)
  BY DEF IsComplete, Complete, ValuedOptions
<1> HIDE DEF needed
<1> QED BY <1>2, <1>3, <1>4, RequiredOptions DEF ReadsWhatItAccepts

\* explain takes one of its two subjects.
LEMMA ExplainReads ==
  ASSUME RefusedIsNoFunction, NEW args \in Seq(STRING)
  PROVE  ReadsWhatItAccepts("explain", args)
<1> DEFINE p == ReadCommand("explain", args)
           given == GivenOptions("explain", args)
           q == Requiring(p, {"--scan"})
           one == IF q # Refused /\ (Given(q, "--anchor") <=> Given(q, "--file"))
                  THEN Refused ELSE q
<1>1. /\ HasOptions("explain", {"--scan", "--anchor", "--file"}, {}, {"--json"})
      /\ PathOptions("explain") = {"--scan", "--file"}
  BY DEF HasOptions, ValuedOptions, Repeatable, FlagOptions, PathOptions
<1>2. "explain" \in Commands /\ "explain" \in Commands \ {"map"}
  BY DEF Commands
<1>3. CommandArgs("explain", args) = Validated(one, PathOptions("explain"))
  BY <1>1, <1>2, ParserReads DEF CommandArgs, parseExplainArgs
<1>4. IsComplete("explain", args) <=>
        "--scan" \in given /\ ~("--anchor" \in given <=> "--file" \in given)
  BY DEF IsComplete, Complete
<1>5. /\ WellFormed("explain", args) => MeansWhatIsThere("explain", args, p)
      /\ ~WellFormed("explain", args) => p = Refused
  BY <1>2, ReadMeans
<1>6. SeedsAreOnce("explain", args)
  BY <1>2, NoSeeds
<1> HIDE DEF p, given
<1>7. CASE ~WellFormed("explain", args)
  <2>1. one = Refused
    BY <1>5, <1>7 DEF Requiring
  <2> QED BY <1>3, <1>7, <2>1, RefusedStays, AcceptedIs DEF ReadsWhatItAccepts
<1>8. CASE WellFormed("explain", args)
  <2>1. MeansWhatIsThere("explain", args, p)
    BY <1>5, <1>8
  <2>2. p # Refused /\ DOMAIN p = given
    BY <2>1 DEF MeansWhatIsThere, given
  <2>3. one = IF IsComplete("explain", args) THEN p ELSE Refused
    BY <1>4, <2>2 DEF Requiring, Given
  <2>4. Validated(p, PathOptions("explain")) =
          IF ValuesMayFollow("explain", args) THEN p ELSE Refused
    BY <1>2, <2>1, ValidatedIs
  <2> HIDE DEF one
  <2> QED BY <1>3, <1>6, <1>8, <2>3, <2>4, RefusedStays, AcceptedIs DEF ReadsWhatItAccepts, p
<1> QED BY <1>7, <1>8

\* map takes no seed twice.
LEMMA MapReads ==
  ASSUME RefusedIsNoFunction, NEW args \in Seq(STRING)
  PROVE  ReadsWhatItAccepts("map", args)
<1> DEFINE p == ReadCommand("map", args)
           given == GivenOptions("map", args)
           needed == {"--anchor", "--seed"}
           q == Validated(Requiring(p, needed), {"--seed"})
           P == PlacesOf("map", args, "--seed")
<1>1. HasOptions("map", {"--anchor"}, {"--seed"}, {"--replace"}) /\ PathOptions("map") = {"--seed"}
  BY DEF HasOptions, ValuedOptions, Repeatable, FlagOptions, PathOptions
<1>2. "map" \in Commands /\ "--seed" \in ValuedOptions("map") /\ "--seed" \in KnownOptions("map")
  BY DEF Commands, ValuedOptions, KnownOptions
<1>3. CommandArgs("map", args) = IF q # Refused /\ ~IsInjective(q["--seed"]) THEN Refused ELSE q
  BY <1>1, <1>2, ParserReads DEF CommandArgs, validateRawMapArgs, parseMapArgs
<1>4. IsComplete("map", args) <=> needed \subseteq given
  BY DEF IsComplete, Complete
<1>5. /\ WellFormed("map", args) => MeansWhatIsThere("map", args, p)
      /\ ~WellFormed("map", args) => p = Refused
  BY <1>2, ReadMeans
<1>6. P \in SUBSET Nat /\ IsFiniteSet(P)
  BY <1>2, PlacesAre
<1>7. IsInjective(ValuesAt(args, P)) <=> SeedsAreOnce("map", args)
  <2>1. IsInjective(ValuesAt(args, P)) <=> \A i, j \in P : i # j => args[i + 1] # args[j + 1]
    <3> HIDE DEF P
    <3> QED BY <1>6, RangeOfValues
  <2> QED BY <2>1 DEF SeedsAreOnce
<1> HIDE DEF p, given, P
<1>8. CASE ~WellFormed("map", args)
  <2>1. p = Refused
    BY <1>5, <1>8
  <2>2. q = Refused
    BY <2>1, RefusedStays
  <2> HIDE DEF q
  <2> QED BY <1>3, <1>8, <2>2, AcceptedIs DEF ReadsWhatItAccepts
<1>9. CASE WellFormed("map", args)
  <2>1. MeansWhatIsThere("map", args, p)
    BY <1>5, <1>9
  <2>2. p # Refused /\ DOMAIN p = given
    BY <2>1 DEF MeansWhatIsThere, given
  <2>3. "--seed" \in given => p["--seed"] = ValuesAt(args, P)
    BY <1>2, <2>1 DEF MeansWhatIsThere, given, P
  <2>4. Requiring(p, needed) = IF IsComplete("map", args) THEN p ELSE Refused
    BY <1>4, <2>2 DEF Requiring
  <2>5. Validated(p, {"--seed"}) = IF ValuesMayFollow("map", args) THEN p ELSE Refused
    BY <1>1, <1>2, <2>1, ValidatedIs
  <2>6. q = IF IsComplete("map", args) /\ ValuesMayFollow("map", args) THEN p ELSE Refused
    BY <2>4, <2>5, RefusedStays
  <2> HIDE DEF q
  <2>7. CASE ~(IsComplete("map", args) /\ ValuesMayFollow("map", args))
    BY <1>3, <2>6, <2>7, AcceptedIs DEF ReadsWhatItAccepts
  <2>8. CASE IsComplete("map", args) /\ ValuesMayFollow("map", args)
    <3>1. q = p
      BY <2>6, <2>8
    <3>2. "--seed" \in given
      BY <1>4, <2>8
    <3>3. q # Refused /\ (IsInjective(q["--seed"]) <=> SeedsAreOnce("map", args))
      BY <1>7, <2>2, <2>3, <3>1, <3>2
    <3>4. CommandArgs("map", args) = IF SeedsAreOnce("map", args) THEN p ELSE Refused
      BY <1>3, <3>1, <3>3
    <3> QED BY <1>9, <2>8, <3>4, AcceptedIs DEF ReadsWhatItAccepts, p
  <2> QED BY <2>7, <2>8
<1> QED BY <1>8, <1>9

\* report asks for the format first, and what else it needs depends on it.
LEMMA ReportReads ==
  ASSUME RefusedIsNoFunction, NEW args \in Seq(STRING)
  PROVE  ReadsWhatItAccepts("report", args)
<1> DEFINE p == ReadCommand("report", args)
           given == GivenOptions("report", args)
           q == Requiring(p, {"--format"})
           r == parseReportArgs(args)
           format == FormatOf("report", args)
           P == PlacesOf("report", args, "--format")
<1>1. /\ HasOptions("report", {"--scan", "--check", "--diff", "--format"}, {}, {})
      /\ PathOptions("report") = {"--scan", "--check", "--diff"}
  BY DEF HasOptions, ValuedOptions, Repeatable, FlagOptions, PathOptions
<1>2. /\ "report" \in Commands /\ "report" \in Commands \ {"map"}
      /\ "--format" \in ValuedOptions("report") /\ "--format" \in KnownOptions("report")
  BY DEF Commands, ValuedOptions, KnownOptions
<1>3. CommandArgs("report", args) = Validated(r, PathOptions("report"))
  BY <1>1 DEF CommandArgs
<1>4. r = IF q = Refused THEN Refused
          ELSE CASE q["--format"] \in {<<"markdown">>, <<"sarif">>} -> Requiring(q, {"--scan"})
                 [] q["--format"] = <<"junit">> ->
                      IF DOMAIN q = {"--format", "--check"} THEN q ELSE Refused
                 [] OTHER -> Refused
  BY <1>1, <1>2, ParserReads DEF parseReportArgs
<1>5. /\ WellFormed("report", args) => MeansWhatIsThere("report", args, p)
      /\ ~WellFormed("report", args) => p = Refused
  BY <1>2, ReadMeans
<1>6. SeedsAreOnce("report", args)
  BY <1>2, NoSeeds
<1>7. IsComplete("report", args) <=>
        \/ format \in {"markdown", "sarif"} /\ "--scan" \in given
        \/ format = "junit" /\ given = {"--format", "--check"}
  BY DEF IsComplete, Complete
<1> HIDE DEF p, given, r
<1>8. CASE ~WellFormed("report", args)
  <2>1. r = Refused
    BY <1>4, <1>5, <1>8, RefusedStays
  <2> QED BY <1>3, <1>8, <2>1, RefusedStays, AcceptedIs DEF ReadsWhatItAccepts
<1>9. CASE WellFormed("report", args)
  <2>1. MeansWhatIsThere("report", args, p)
    BY <1>5, <1>9
  <2>2. p # Refused /\ DOMAIN p = given
    BY <2>1 DEF MeansWhatIsThere, given
  <2>3. Validated(p, PathOptions("report")) =
          IF ValuesMayFollow("report", args) THEN p ELSE Refused
    BY <1>2, <2>1, ValidatedIs
  <2>4. r = IF IsComplete("report", args) THEN p ELSE Refused
    <3>1. CASE "--format" \notin given
      <4>1. q = Refused
        BY <2>2, <3>1 DEF Requiring
      <4>2. format = ""
        BY <3>1 DEF FormatOf, given
      <4> HIDE DEF q, format
      <4> QED BY <1>4, <1>7, <4>1, <4>2
    <3>2. CASE "--format" \in given
      <4>1. q = p
        BY <2>2, <3>2 DEF Requiring
      <4>2. p["--format"] = ValuesAt(args, P) /\ Range(p["--format"]) = ValuesOf("report", args, "--format")
        BY <1>2, <2>1, <3>2 DEF MeansWhatIsThere, given
      <4>3. Cardinality(P) = 1
        BY <1>9, <3>2 DEF WellFormed, given
      <4>4. p["--format"] = [n \in 1..1 |-> p["--format"][n]]
        <5> HIDE DEF P
        <5> QED BY <4>2, <4>3 DEF ValuesAt
      <4> DEFINE v == p["--format"][1]
                 all == ValuesOf("report", args, "--format")
      <4>5. p["--format"] = <<v>>
        BY <4>4
      <4>6. format = v
        <5>1. Range(<<v>>) = {v}
          <6> HIDE DEF v
          <6> QED BY DEF Range
        <5>2. all = {v}
          BY <4>2, <4>5, <5>1
        <5>3. format = CHOOSE x \in all : TRUE
          BY <3>2 DEF FormatOf, given
        <5> HIDE DEF v, all, format
        <5> QED BY <5>2, <5>3
      <4> HIDE DEF v, format, q
      <4>7. /\ v \in {"markdown", "sarif"} => r = Requiring(p, {"--scan"})
            /\ v = "junit" => r = IF given = {"--format", "--check"} THEN p ELSE Refused
            /\ v \notin {"markdown", "sarif", "junit"} => r = Refused
        <5>1. q # Refused /\ q["--format"] = p["--format"] /\ DOMAIN q = given
          BY <2>2, <4>1
        <5> DEFINE w == p["--format"]
        <5>2. w = <<v>>
          BY <4>5
        <5>3. r = CASE w \in {<<"markdown">>, <<"sarif">>} -> Requiring(p, {"--scan"})
                    [] w = <<"junit">> -> IF given = {"--format", "--check"} THEN p ELSE Refused
                    [] OTHER -> Refused
          BY <1>4, <4>1, <5>1
        <5> HIDE DEF w
        <5>4. /\ w \in {<<"markdown">>, <<"sarif">>} <=> v \in {"markdown", "sarif"}
              /\ w = <<"junit">> <=> v = "junit"
          BY <5>2
        <5> QED BY <5>3, <5>4
      <4>8. Requiring(p, {"--scan"}) = IF "--scan" \in given THEN p ELSE Refused
        BY <2>2 DEF Requiring
      <4> QED BY <1>7, <4>6, <4>7, <4>8
    <3> QED BY <3>1, <3>2
  <2> HIDE DEF q
  <2> QED BY <1>3, <1>6, <1>9, <2>3, <2>4, RefusedStays, AcceptedIs DEF ReadsWhatItAccepts, p
<1> QED BY <1>8, <1>9

\* scan knows two lists of arguments, which are those it would accept as the others do.
LEMMA ScanReads ==
  ASSUME RefusedIsNoFunction, NEW args \in Seq(STRING)
  PROVE  ReadsWhatItAccepts("scan", args)
<1> DEFINE p == ReadCommand("scan", args)
           given == GivenOptions("scan", args)
           n == Len(args)
<1>1. /\ ValuedOptions("scan") = {} /\ FlagOptions("scan") = {"--json"}
      /\ KnownOptions("scan") = {"--json"}
      /\ "scan" \in Commands /\ "scan" \in Commands \ {"map"}
  BY DEF ValuedOptions, FlagOptions, KnownOptions, Commands
<1>2. n \in Nat /\ DOMAIN args = 1..n
  OBVIOUS
<1>3. /\ WellFormed("scan", args) => MeansWhatIsThere("scan", args, p)
      /\ ~WellFormed("scan", args) => p = Refused
  BY <1>1, ReadMeans
<1>4. Accepted("scan", args) <=> WellFormed("scan", args)
  <2>1. SeedsAreOnce("scan", args)
    BY <1>1, NoSeeds
  <2>2. ValuesMayFollow("scan", args)
    BY <1>1 DEF ValuesMayFollow
  <2>3. IsComplete("scan", args)
    BY DEF IsComplete, Complete
  <2> QED BY <2>1, <2>2, <2>3, AcceptedIs
<1>5. /\ OptionPlaces("scan", args) = {k \in 1..n : args[k] = "--json"}
      /\ PlacesOf("scan", args, "--json") = {k \in 1..n : args[k] = "--json"}
  BY <1>1, <1>2 DEF OptionPlaces, PlacesOf
<1>6. IsFiniteSet(PlacesOf("scan", args, "--json"))
  BY PlacesAre
<1> HIDE DEF n
<1>7. WellFormed("scan", args) <=> args \in {<<>>, <<"--json">>}
  <2>1. WellFormed("scan", args) <=>
          /\ \A k \in 1..n : args[k] = "--json"
          /\ n # 0 => Cardinality(PlacesOf("scan", args, "--json")) = 1
    <3>1. \A k : ~IsOptionValue("scan", args, k)
      BY <1>1 DEF IsOptionValue
    <3>2. given = {"--json"} \/ given = {}
      BY <1>5 DEF GivenOptions
    <3>3. (\A k \in 1..n : args[k] = "--json") => (n # 0 <=> "--json" \in given)
      BY <1>2, <1>5 DEF GivenOptions
    <3> HIDE DEF given
    <3> QED BY <1>1, <1>2, <1>5, <3>1, <3>2, <3>3 DEF WellFormed, given
  <2>2. ASSUME \A k \in 1..n : args[k] = "--json", n # 0
        PROVE  Cardinality(PlacesOf("scan", args, "--json")) = 1 <=> n = 1
    <3> DEFINE P == PlacesOf("scan", args, "--json")
    <3>1. P = 1..n
      BY <1>5, <2>2
    <3>2. 1 \in P /\ n \in P
      BY <1>2, <2>2, <3>1
    <3>3. Cardinality(P) = 1 <=> \A i, j \in P : i = j
      <4> HIDE DEF P
      <4> QED BY <1>6, <3>2, OnePlace DEF P
    <3> HIDE DEF P
    <3>4. (\A i, j \in P : i = j) <=> n = 1
      BY <1>2, <3>1, <3>2
    <3> QED BY <3>3, <3>4 DEF P
  <2>3. ASSUME args \in {<<>>, <<"--json">>}
        PROVE  (\A k \in 1..n : args[k] = "--json") /\ (n = 0 \/ n = 1)
    BY <2>3 DEF n
  <2>4. ASSUME \A k \in 1..n : args[k] = "--json", n = 0 \/ n = 1
        PROVE  args \in {<<>>, <<"--json">>}
    <3>1. CASE n = 0
      BY <3>1 DEF n
    <3>2. CASE n = 1
      <4>1. args = <<args[1]>>
        BY <3>2 DEF n
      <4>2. args[1] = "--json"
        BY <2>4, <3>2
      <4> QED BY <4>1, <4>2
    <3> QED BY <2>4, <3>1, <3>2
  <2> QED BY <2>1, <2>2, <2>3, <2>4
<1>8. WellFormed("scan", args) => p = [option \in given |-> <<TRUE>>]
  <2>1. p = IF FitsCommand("scan", args) THEN Meant(args, {}, {"--json"}, 1) ELSE Refused
    BY <1>1 DEF ReadCommand, ReadFrom, FitsCommand
  <2>2. WellFormed("scan", args) => FitsCommand("scan", args)
    BY <1>1, FitsIsWellFormed
  <2>3. NamedFrom(args, {} \union {"--json"}, 1) = given
    BY <1>5 DEF NamedFrom, GivenOptions, n
  <2>4. \A option \in given : option = "--json"
    BY <1>5 DEF GivenOptions
  <2>5. Meant(args, {}, {"--json"}, 1) = [option \in given |-> <<TRUE>>]
    <3> HIDE DEF given
    <3> QED BY <2>3, <2>4 DEF Meant
  <2> QED BY <2>1, <2>2, <2>5
<1> HIDE DEF p
<1>9. CASE args = <<>>
  <2>1. n = 0
    BY <1>9 DEF n
  <2>2. given = {}
    BY <1>5, <2>1 DEF GivenOptions
  <2>3. p = [option \in {} |-> p[option]]
    BY <1>7, <1>8, <1>9, <2>2
  <2>4. p = <<>>
    BY <2>3
  <2>5. CommandArgs("scan", args) = <<>>
    BY <1>9 DEF CommandArgs, parseScanArgs
  <2> QED BY <1>4, <1>7, <1>9, <2>4, <2>5 DEF ReadsWhatItAccepts, p
<1>10. CASE args = <<"--json">>
  <2>1. n = 1 /\ args[1] = "--json" /\ args # <<>>
    BY <1>10 DEF n
  <2>2. given = {"--json"}
    BY <1>5, <2>1 DEF GivenOptions
  <2>3. CommandArgs("scan", args) = [option \in {"--json"} |-> <<TRUE>>]
    BY <1>10, <2>1 DEF CommandArgs, parseScanArgs
  <2>4. p = [option \in {"--json"} |-> <<TRUE>>]
    BY <1>7, <1>8, <1>10, <2>2
  <2> QED BY <1>4, <1>7, <1>10, <2>3, <2>4 DEF ReadsWhatItAccepts, p
<1>11. CASE args \notin {<<>>, <<"--json">>}
  <2>1. CommandArgs("scan", args) = Refused
    BY <1>11 DEF CommandArgs, parseScanArgs
  <2> QED BY <1>4, <1>7, <1>11, <2>1 DEF ReadsWhatItAccepts
<1> QED BY <1>9, <1>10, <1>11

LEMMA CommandsRead ==
  ASSUME RefusedIsNoFunction, NEW command \in Commands, NEW args \in Seq(STRING)
  PROVE  ReadsWhatItAccepts(command, args)
<1>1. ReadsWhatItAccepts("init", args) /\ ReadsWhatItAccepts("map", args)
  BY InitReads, MapReads
<1>2. ReadsWhatItAccepts("scaffold", args) /\ ReadsWhatItAccepts("scan", args)
  BY ScaffoldReads, ScanReads
<1>3. ReadsWhatItAccepts("check", args) /\ ReadsWhatItAccepts("diff", args)
  BY CheckReads, DiffReads
<1>4. ReadsWhatItAccepts("explain", args) /\ ReadsWhatItAccepts("report", args)
  BY ExplainReads, ReportReads
<1>5. ReadsWhatItAccepts("bundle", args)
  BY BundleReads
<1> QED BY <1>1, <1>2, <1>3, <1>4, <1>5 DEF Commands

\* What the property says of one command line.
TakenAsGiven(command, args, options) ==
  /\ options # Refused <=> Accepted(command, args)
  /\ options # Refused => MeansWhatIsThere(command, args, options)

LEMMA TakesAsGiven ==
  ASSUME RefusedIsNoFunction, NEW command \in Commands, NEW args \in Seq(STRING)
  PROVE  TakenAsGiven(command, args, CommandArgs(command, args))
<1> DEFINE p == ReadCommand(command, args)
<1>1. CommandArgs(command, args) = IF Accepted(command, args) THEN p ELSE Refused
  BY CommandsRead DEF ReadsWhatItAccepts
<1>2. Accepted(command, args) => MeansWhatIsThere(command, args, p)
  BY AcceptedIs, ReadMeans
<1> HIDE DEF p
<1> QED BY <1>1, <1>2 DEF TakenAsGiven, MeansWhatIsThere

\* The outcome of a command has the options of its command line.
OptionsRight ==
  outcome # Null => TakenAsGiven(outcome.command, outcome.args, outcome.options)

LEMMA OptionsRightIs == OptionsRight => OptionsInAnyOrder
<1> SUFFICES ASSUME OptionsRight, outcome # Null
    PROVE LET command == outcome.command
              args    == outcome.args
              given   == GivenOptions(command, args)
              Places(option) == PlacesOf(command, args, option)
          IN  /\ outcome.options # Refused <=> Accepted(command, args)
              /\ outcome.options # Refused =>
                   /\ DOMAIN outcome.options = given
                   /\ \A option \in given \intersect ValuedOptions(command) :
                        outcome.options[option] =
                          [n \in 1..Cardinality(Places(option)) |->
                             args[Sorted(Places(option))[n] + 1]]
  BY DEF OptionsInAnyOrder
<1> QED BY DEF OptionsRight, TakenAsGiven, MeansWhatIsThere, ValuesAt

LEMMA NextOptions ==
  ASSUME RefusedIsNoFunction, OptionsRight, [Next]_vars
  PROVE  OptionsRight'
<1>1. CASE outcome' = Null
  BY <1>1 DEF OptionsRight
<1>2. CASE UNCHANGED vars
  <2>1. outcome' = outcome
    BY <1>2 DEF vars
  <2> QED BY <2>1 DEF OptionsRight
<1>3. ASSUME NEW command \in Commands, NEW call \in Calls(command),
             outcome'.command = command, outcome'.args = call[1],
             outcome'.options = CommandArgs(command, call[1])
      PROVE  OptionsRight'
  <2> DEFINE args == call[1]
  <2>1. args \in ArgLists(command)
    BY DEF Calls
  <2>2. args \in Seq(STRING)
    BY <2>1, CommandsAssumption
  <2> HIDE DEF args
  <2>3. TakenAsGiven(command, args, CommandArgs(command, args))
    BY <2>2, TakesAsGiven
  <2> QED BY <1>3, <2>3 DEF OptionsRight, args
<1> QED BY <1>1, <1>2, <1>3, OutcomeOf

\* The order of the options has no effect, for every command line of tokens, however
\* long: a command accepts exactly the arguments that are its options, each with its
\* value right behind it, none there twice that may not be and none missing, wherever
\* they stand, and its handler gets each option with the values behind it, in their
\* order.  Refused must be what it stands for, no value of an option (command-args.ts,
\* artifact-commands.ts).
THEOREM OptionsOrderIsFree == RefusedIsNoFunction => (Spec => []OptionsInAnyOrder)
<1> SUFFICES ASSUME RefusedIsNoFunction PROVE Spec => []OptionsInAnyOrder
  OBVIOUS
<1>1. Init => OptionsRight
  BY DEF Init, OptionsRight
<1>2. OptionsRight /\ [Next]_vars => OptionsRight'
  BY NextOptions
<1> QED BY <1>1, <1>2, OptionsRightIs, PTL DEF Spec
=============================================================================
