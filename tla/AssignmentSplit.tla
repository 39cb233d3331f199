--------------------------- MODULE AssignmentSplit ---------------------------
(***************************************************************************)
(* How a document is divided among translators                             *)
(* (app/services/assignment_split.py).                                     *)
(*                                                                         *)
(* A document is a sequence of segments, each with the block it belongs to *)
(* (paragraph or table cell) and its count of words.  A part starts and    *)
(* ends with a block.  Positions count from one.                           *)
(***************************************************************************)
EXTENDS Integers, SequencesExt

\* How many words the first segments have together.
Cumulative(doc) ==
  LET sum[i \in 0..Len(doc)] == IF i = 0 THEN 0 ELSE sum[i - 1] + doc[i].words
  IN sum

Words(doc, a, b) == Cumulative(doc)[b] - Cumulative(doc)[a - 1]

\* The weight of segments a to b, where c to d are divided: words, or segments
\* where there is not a word.
Weight(doc, a, b, c, d) == IF Words(doc, c, d) = 0 THEN b - a + 1 ELSE Words(doc, a, b)

\* Mutant: every segment may be the last of a part.
EndsAnywhere(doc) == DOMAIN doc

\* _build_split_units: the positions at which a run of one block starts or ends.
Starts(doc) == {i \in DOMAIN doc : i = 1 \/ doc[i - 1].block # doc[i].block}
Ends(doc)   == {i \in DOMAIN doc : i = Len(doc) \/ doc[i + 1].block # doc[i].block}

\* _slice_units: a range that cuts no unit.
CanDivide(doc, a, b) == a \in Starts(doc) /\ b \in Ends(doc) /\ a <= b

\* A unit ends where a run of one block ends.
UnitEnds(doc, a, b) == Ends(doc) \cap a..b
Units(doc, a, b) ==
  {u \in [from: Starts(doc) \cap a..b, to: UnitEnds(doc, a, b)] :
     u.from <= u.to /\ UnitEnds(doc, a, b) \cap u.from..u.to - 1 = {}}

\* The units that may end a part: after the previous cut, with one unit at least
\* for each part of the rest.
Candidates(ends, previous, rest) ==
  {i \in ends : i > previous /\ Cardinality({j \in ends : j > i}) >= rest}

Distance(x, y) == IF x < y THEN y - x ELSE x - y

\* How far a cut after segment i is from the ideal end of part k of n, n times over.
Off(doc, a, b, n, k, i) ==
  Distance(n * Weight(doc, a, i, a, b), k * Weight(doc, a, b, a, b))

\* The first one among those that come nearest to the ideal end.
Nearest(doc, a, b, n, k, C) ==
  CHOOSE i \in C : \A j \in C : LET x == Off(doc, a, b, n, k, i)
                                  y == Off(doc, a, b, n, k, j)
                              IN x < y \/ (x = y /\ i <= j)

\* split_units_by_weight: the segment after which each of n parts ends.
Cuts(doc, a, b, n) ==
  LET cut[k \in 0..n] ==
        IF k = 0 THEN a - 1
        ELSE IF k = n THEN b
        ELSE Nearest(doc, a, b, n, k, Candidates(UnitEnds(doc, a, b), cut[k - 1], n - k))
  IN cut

\* build_assignment_split_preview: as many parts as were asked for, or as there
\* are units.
Parts(doc, a, b, requested) ==
  LET units == Cardinality(UnitEnds(doc, a, b))
      n     == IF requested < units THEN requested ELSE units
      cut   == Cuts(doc, a, b, n)
  IN [k \in 1..n |-> [from |-> cut[k - 1] + 1, to |-> cut[k]]]
=============================================================================
