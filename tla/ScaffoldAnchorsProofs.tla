----------------------- MODULE ScaffoldAnchorsProofs -----------------------
(***************************************************************************)
(* Proofs about ScaffoldAnchors, for any exports and any specs.            *)
(***************************************************************************)
EXTENDS ScaffoldAnchors, FiniteSetTheorems, SequenceTheorems, TLAPS

LEMMA ExportsType ==
  ASSUME TypeOK
  PROVE  /\ IsFiniteSet(exports)
         /\ \A c \in exports : c \in CandidateType /\ c.base \in Seq(STRING \X Nat)
         /\ \A c, d \in exports : c.place = d.place => c = d
BY CodesAssumption, IdsAssumption DEF TypeOK, CandidateType

\* The ordinal of a candidate counts from 1.
LEMMA OrdinalType ==
  ASSUME TypeOK, NEW c \in Unobserved
  PROVE  Ordinal(c) \in 1 .. Cardinality(exports)
<1> DEFINE Upto == {d \in Group(c) : d.kind = c.kind /\ d.place <= c.place}
<1>1. c \in exports /\ c.place \in Nat /\ IsFiniteSet(exports)
  BY ExportsType DEF Unobserved, CandidateType
<1>2. c \in Upto /\ Upto \subseteq exports
  BY <1>1 DEF Group, Unobserved
<1>3. IsFiniteSet(Upto) /\ Cardinality(Upto) <= Cardinality(exports)
  BY <1>1, <1>2, FS_Subset
<1>4. Cardinality(Upto) \in Nat /\ Cardinality(exports) \in Nat /\ Cardinality(Upto) # 0
  BY <1>1, <1>2, <1>3, FS_CardinalityType, FS_EmptySet
<1> QED BY <1>3, <1>4 DEF Ordinal

\* The ordinals of one kind in one group are distinct.
LEMMA OrdinalDistinct ==
  ASSUME TypeOK, NEW c \in Unobserved, NEW d \in Unobserved,
         c.base = d.base, c.kind = d.kind, c.place < d.place
  PROVE  Ordinal(c) < Ordinal(d)
<1> DEFINE Upto(x) == {e \in Group(x) : e.kind = x.kind /\ e.place <= x.place}
<1>1. /\ IsFiniteSet(exports) /\ c.place \in Nat /\ d.place \in Nat
      /\ \A e \in Unobserved : e.place \in Nat /\ e \in exports
  BY ExportsType DEF Unobserved, CandidateType
<1>2. Upto(c) \subseteq Upto(d) /\ d \in Upto(d) /\ d \notin Upto(c) /\ Upto(d) \subseteq exports
  BY <1>1 DEF Group
<1>3. IsFiniteSet(Upto(d))
  BY <1>1, <1>2, FS_Subset
<1>4. IsFiniteSet(Upto(c))
  BY <1>2, <1>3, FS_Subset
<1>5. Upto(c) # Upto(d)
  BY <1>2
<1>6. Cardinality(Upto(c)) <= Cardinality(Upto(d)) /\ Cardinality(Upto(c)) # Cardinality(Upto(d))
  BY <1>2, <1>3, <1>5, FS_Subset
<1>7. Cardinality(Upto(c)) \in Nat /\ Cardinality(Upto(d)) \in Nat
  BY <1>3, <1>4, FS_CardinalityType
<1> QED BY <1>6, <1>7 DEF Ordinal

\* Two exports of one base get different ids.
LEMMA GroupApart ==
  ASSUME TypeOK, NEW c \in Unobserved, NEW d \in Unobserved, c # d, c.base = d.base
  PROVE  FinalId(c) # FinalId(d)
<1>1. Group(c) = Group(d) /\ Group(c) # {c} /\ Group(d) # {d}
  BY DEF Group
<1>2. /\ FinalId(c) = Append(c.base, <<c.kind, Ordinal(c)>>)
      /\ FinalId(d) = Append(c.base, <<d.kind, Ordinal(d)>>)
  BY <1>1 DEF FinalId
<1>3. /\ c.base \in Seq(STRING \X Nat) /\ c.kind \in STRING /\ d.kind \in STRING
      /\ c.place \in Nat /\ d.place \in Nat /\ c.place # d.place
  BY ExportsType, IdsAssumption DEF Unobserved, CandidateType
<1>4. Ordinal(c) \in Nat /\ Ordinal(d) \in Nat
  BY OrdinalType, ExportsType, FS_CardinalityType
<1>5. c.kind = d.kind => Ordinal(c) # Ordinal(d)
  BY <1>3, <1>4, OrdinalDistinct
<1> DEFINE x == <<c.kind, Ordinal(c)>>
           y == <<d.kind, Ordinal(d)>>
<1>6. x # y
  BY <1>5
<1>7. x \in STRING \X Nat /\ y \in STRING \X Nat
  BY <1>3, <1>4
<1>8. Append(c.base, x)[Len(c.base) + 1] = x /\ Append(c.base, y)[Len(c.base) + 1] = y
  <2> HIDE DEF x, y
  <2> QED BY <1>3, <1>7
<1> QED BY <1>2, <1>6, <1>8

LEMMA AppendApart ==
  ASSUME NEW Segments, NEW s \in Seq(Segments), NEW t \in Seq(Segments),
         NEW y \in Segments, NEW z \in Segments, Append(s, y) = Append(t, z)
  PROVE  s = t
BY AppendInjective

\* Two exports of different bases get the same id only when one of the bases looks
\* like the other told apart.
LEMMA BasesApart ==
  ASSUME TypeOK, NEW c \in Unobserved, NEW d \in Unobserved,
         c.base # d.base, FinalId(c) = FinalId(d)
  PROVE  \E e, f \in exports : \E n \in 1 .. Cardinality(exports) :
           e.base = Append(f.base, <<f.kind, n>>)
<1> DEFINE x(e) == <<e.kind, Ordinal(e)>>
<1>1. ASSUME NEW e \in Unobserved
      PROVE  /\ e \in exports /\ e.base \in Seq(STRING \X Nat)
             /\ x(e) \in STRING \X Nat /\ Ordinal(e) \in 1 .. Cardinality(exports)
             /\ FinalId(e) = e.base \/ FinalId(e) = Append(e.base, x(e))
  <2>1. e \in exports /\ e.base \in Seq(STRING \X Nat) /\ e.kind \in STRING
    BY <1>1, ExportsType, IdsAssumption DEF Unobserved, CandidateType
  <2>2. Ordinal(e) \in 1 .. Cardinality(exports) /\ Cardinality(exports) \in Nat
    BY <1>1, OrdinalType, ExportsType, FS_CardinalityType
  <2> QED BY <2>1, <2>2 DEF FinalId
<1>2. CASE FinalId(c) = c.base
  <2>1. FinalId(d) = Append(d.base, x(d))
    BY <1>1, <1>2
  <2> QED BY <1>1, <1>2, <2>1
<1>3. CASE FinalId(d) = d.base
  <2>1. FinalId(c) = Append(c.base, x(c))
    BY <1>1, <1>3
  <2> QED BY <1>1, <1>3, <2>1
<1>4. CASE FinalId(c) = Append(c.base, x(c)) /\ FinalId(d) = Append(d.base, x(d))
  <2> HIDE DEF x
  <2>1. /\ c.base \in Seq(STRING \X Nat) /\ x(c) \in STRING \X Nat
        /\ d.base \in Seq(STRING \X Nat) /\ x(d) \in STRING \X Nat
    BY <1>1
  <2>2. Append(c.base, x(c)) = Append(d.base, x(d))
    BY <1>4
  <2>3. c.base = d.base
    <3> DEFINE Segments == STRING \X Nat
    <3>1. /\ c.base \in Seq(Segments) /\ x(c) \in Segments
          /\ d.base \in Seq(Segments) /\ x(d) \in Segments
      BY <2>1
    <3> HIDE DEF Segments
    <3> QED BY <3>1, <2>2, AppendApart
  <2> QED BY <2>3
<1> QED BY <1>1, <1>2, <1>3, <1>4

-----------------------------------------------------------------------------

AInv == TypeOK /\ CollisionsAcrossBases /\ Represented /\ RerunAddsNothing

\* Ids of exports, told apart or not, are ids.
LEMMA FinalIdType ==
  ASSUME TypeOK, NEW c \in Unobserved
  PROVE  FinalId(c) \in Seq(STRING \X Nat)
<1>1. c.base \in Seq(STRING \X Nat) /\ c.kind \in STRING
  BY ExportsType, IdsAssumption DEF Unobserved, CandidateType
<1>2. Ordinal(c) \in Nat
  BY OrdinalType, ExportsType, FS_CardinalityType
<1>3. <<c.kind, Ordinal(c)>> \in STRING \X Nat
  BY <1>1, <1>2
<1> QED BY <1>1, <1>3 DEF FinalId

\* After a run that went well, a group is unobserved as a whole or not at all, so
\* that the ids a second run computes are those of the first.
LEMMA SecondRun ==
  ASSUME TypeOK, Scaffold, Outcome = "ok", NEW c \in exports, c.base \notin observed'
  PROVE  /\ c \in Unobserved /\ FinalId(c)' = FinalId(c)
         /\ FinalId(c) \in observed'
<1>1. exports' = exports /\ observed \subseteq observed'
  BY DEF Scaffold
<1>2. c \in Unobserved
  BY <1>1 DEF Unobserved
<1>3. Group(c)' = Group(c)
  BY <1>1 DEF Group, Unobserved
<1>4. FinalId(c)' = FinalId(c)
  BY <1>3 DEF FinalId, Ordinal
<1>5. FinalId(c) \in observed'
  BY <1>1, <1>2 DEF Scaffold, Kept
<1> QED BY <1>2, <1>4, <1>5

LEMMA InitAInv == Init => AInv
<1> SUFFICES ASSUME Init PROVE AInv
  OBVIOUS
<1> QED BY SpecsAssumption, MaxEditsAssumption
        DEF Init, AInv, TypeOK, CollisionsAcrossBases, Represented, RerunAddsNothing

LEMMA ScaffoldAInv ==
  ASSUME AInv, Scaffold
  PROVE  AInv'
<1> USE DEF AInv
<1>1. exports' = exports /\ edits' = edits /\ outcome' = Outcome
  BY DEF Scaffold
<1>2. Kept \subseteq Unobserved /\ Unobserved \subseteq exports
  BY DEF Kept, Unobserved
<1>3. Outcome \in {"noExports", "nothingNew", "collision", "ok"}
  BY DEF Outcome
<1>4. Outcome # "noExports" => exports # {}
  BY <1>2 DEF Outcome
<1>5. TypeOK'
  <2>1. observed' \subseteq Seq(STRING \X Nat)
    BY <1>2, FinalIdType DEF Scaffold, TypeOK
  <2> QED BY <1>1, <1>3, <1>4, <2>1 DEF TypeOK
<1>6. CollisionsAcrossBases'
  <2>1. ASSUME Outcome = "collision"
        PROVE  \E e, f \in exports : \E n \in 1 .. Cardinality(exports) :
                 e.base = Append(f.base, <<f.kind, n>>)
    <3>1. Collision
      BY <2>1 DEF Outcome
    <3>2. PICK c \in Kept, d \in Kept : c # d /\ FinalId(c) = FinalId(d)
      BY <3>1 DEF Collision
    <3>3. c.base # d.base
      BY <3>2, <1>2, GroupApart
    <3> QED BY <3>2, <3>3, <1>2, BasesApart
  <2> QED BY <1>1, <2>1 DEF CollisionsAcrossBases
<1>7. Represented'
  <2>1. ASSUME Outcome = "ok", NEW c \in exports
        PROVE  c.base \in observed' \/ FinalId(c)' \in observed'
    BY <2>1, SecondRun
  <2> QED BY <1>1, <2>1 DEF Represented
<1>8. RerunAddsNothing'
  <2>1. ASSUME Outcome = "ok" PROVE Outcome' = "nothingNew"
    <3>1. exports # {}
      BY <1>4, <2>1
    <3>2. Kept' = {}
      <4>1. ASSUME NEW c \in Kept' PROVE FALSE
        <5>1. c \in exports /\ c.base \notin observed' /\ FinalId(c)' \notin observed'
          BY <4>1, <1>1 DEF Kept, Unobserved
        <5> QED BY <5>1, <2>1, SecondRun
      <4> QED BY <4>1
    <3> QED BY <1>1, <3>1, <3>2 DEF Outcome
  <2> QED BY <1>1, <2>1 DEF RerunAddsNothing
<1> QED BY <1>5, <1>6, <1>7, <1>8

LEMMA NextAInv == AInv /\ [Next]_vars => AInv'
<1> SUFFICES ASSUME AInv, [Next]_vars PROVE AInv'
  OBVIOUS
<1>1. CASE Scaffold
  BY <1>1, ScaffoldAInv
<1>2. CASE EditCode
  BY <1>2, MaxEditsAssumption
     DEF EditCode, AInv, TypeOK, CollisionsAcrossBases, Represented, RerunAddsNothing
<1>3. CASE UNCHANGED vars
  <2>1. exports' = exports /\ observed' = observed /\ outcome' = outcome /\ edits' = edits
    BY <1>3 DEF vars
  <2>2. Unobserved' = Unobserved
    BY <2>1 DEF Unobserved
  <2>3. ASSUME NEW c PROVE FinalId(c)' = FinalId(c)
    BY <2>2 DEF FinalId, Group, Ordinal
  <2>4. Kept' = Kept
    BY <2>1, <2>2, <2>3 DEF Kept
  <2>5. Outcome' = Outcome
    BY <2>1, <2>3, <2>4 DEF Outcome, Collision
  <2> QED BY <2>1, <2>3, <2>5
          DEF AInv, TypeOK, CollisionsAcrossBases, Represented, RerunAddsNothing
<1> QED BY <1>1, <1>2, <1>3 DEF Next

LEMMA AlwaysAInv == Spec => []AInv
BY InitAInv, NextAInv, PTL DEF Spec

\* Ids collide only between different bases, one of which looks like the other
\* told apart; the suffixes keep a group apart however large it is.
THEOREM CollidesAcrossBasesOnly == Spec => []CollisionsAcrossBases
BY AlwaysAInv, PTL DEF AInv

\* After a run that went well every export is in the specs.
THEOREM EveryExportRepresented == Spec => []Represented
BY AlwaysAInv, PTL DEF AInv

\* A second run has nothing to add.
THEOREM RerunIdempotent == Spec => []RerunAddsNothing
BY AlwaysAInv, PTL DEF AInv
=============================================================================
