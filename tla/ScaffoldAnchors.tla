-------------------------- MODULE ScaffoldAnchors --------------------------
(***************************************************************************)
(* The anchor ids scaffold generates (buildScaffoldMarkdown of             *)
(* src/infra/scaffold.ts), over a code base and specs that evolve.         *)
(*                                                                         *)
(* An export gets the id of its module and name, its base.  Several may    *)
(* get the same one: src/a.ts exporting the type Foo and the function foo. *)
(* The exports of such a group are told apart by a last segment, their     *)
(* kind, with an ordinal from the second of a kind on.  Bases that are in  *)
(* the specs are skipped before, final ids after that.                     *)
(*                                                                         *)
(* An id is the sequence of its segments.  A segment is a name and a       *)
(* number, 0 for none; <<kind, n>> is the last one that the n-th export of *)
(* a kind gets, and a base may look just like that.                        *)
(***************************************************************************)
EXTENDS Naturals, FiniteSets, Sequences

CONSTANTS
  Ids,        \* anchor ids
  Kinds,      \* the kinds of exports
  Codes,      \* the sets of exports considered, see CodeType
  Specs,      \* the sets of observed anchors considered
  MaxEdits    \* bound on the edits of the code

\* place: where the export is in the order by path, name, kind and declaration.
CandidateType == [base : Ids, kind : Kinds, place : Nat]

ASSUME CodesAssumption ==
  \A code \in Codes :
    /\ code \subseteq CandidateType /\ IsFiniteSet(code)
    /\ \A c, d \in code : c.place = d.place => c = d
ASSUME IdsAssumption == Kinds \subseteq STRING /\ Ids \subseteq Seq(STRING \X Nat)
ASSUME SpecsAssumption == \A s \in Specs : s \subseteq Seq(STRING \X Nat)
ASSUME MaxEditsAssumption == MaxEdits \in Nat

VARIABLES
  exports,    \* the exports of the product files
  observed,   \* the anchors in the specs
  outcome,    \* how the last run ended, "none" after an edit
  edits       \* how many edits there were

vars == <<exports, observed, outcome, edits>>

-----------------------------------------------------------------------------
(* buildScaffoldMarkdown *)

\* skipObservedBaseAnchorCandidates: the exports whose base is not observed.
Unobserved == {c \in exports : c.base \notin observed}

\* The exports that share the base of c.
Group(c) == {d \in Unobserved : d.base = c.base}

\* Mutation: the ordinal is left out.
OrdinalOne(c) == 1

\* Which of the exports of its kind in its group c is.
Ordinal(c) == Cardinality({d \in Group(c) : d.kind = c.kind /\ d.place <= c.place})

\* disambiguateScaffoldAnchorCollisions
FinalId(c) == IF Group(c) = {c} THEN c.base ELSE Append(c.base, <<c.kind, Ordinal(c)>>)

\* Mutation: final ids are not looked up in the specs.
KeptAll == Unobserved

\* skipObservedFinalAnchorCandidates
Kept == {c \in Unobserved : FinalId(c) \notin observed}

\* firstDuplicateFinalAnchor
Collision == \E c, d \in Kept : c # d /\ FinalId(c) = FinalId(d)

\* validateScaffoldCandidates
Outcome ==
  CASE exports = {} -> "noExports"
    [] exports # {} /\ Kept = {} -> "nothingNew"
    [] Kept # {} /\ Collision -> "collision"
    [] Kept # {} /\ ~Collision -> "ok"

-----------------------------------------------------------------------------

TypeOK ==
  /\ exports \in Codes
  /\ observed \subseteq Seq(STRING \X Nat)
  /\ outcome \in {"none", "noExports", "nothingNew", "collision", "ok"}
  /\ outcome \in {"nothingNew", "collision", "ok"} => exports # {}
  /\ edits \in 0 .. MaxEdits

Init ==
  /\ exports \in Codes
  /\ observed \in Specs
  /\ outcome = "none"
  /\ edits = 0

\* A run, and the output it leaves in the specs when all goes well.
Scaffold ==
  /\ outcome' = Outcome
  /\ observed' = IF Outcome = "ok" THEN observed \union {FinalId(c) : c \in Kept}
                 ELSE observed
  /\ UNCHANGED <<exports, edits>>

EditCode ==
  /\ edits < MaxEdits
  /\ exports' \in Codes \ {exports}
  /\ outcome' = "none"
  /\ edits' = edits + 1
  /\ UNCHANGED observed

Next == Scaffold \/ EditCode

Spec == Init /\ [][Next]_vars

-----------------------------------------------------------------------------
(* correctness *)

\* Final ids collide only when the base of one export looks like the id of
\* another one told apart: the suffixes alone keep a group apart.
CollisionsAcrossBases ==
  outcome = "collision" =>
    \E c, d \in exports : \E n \in 1 .. Cardinality(exports) :
      c.base = Append(d.base, <<d.kind, n>>)

\* After a run every export is in the specs, by its base or by its own id.
Represented ==
  outcome = "ok" => \A c \in exports : c.base \in observed \/ FinalId(c) \in observed

\* A second run has nothing to add, though it computes every id afresh from specs
\* that now hold those of the first.
RerunAddsNothing == outcome = "ok" => Outcome = "nothingNew"
=============================================================================
