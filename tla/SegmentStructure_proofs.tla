------------------------ MODULE SegmentStructure_proofs ------------------------
(***************************************************************************)
(* What holds of the segments of a document for any document, any users    *)
(* and any overlap of their splits and merges: the types, that a sentence  *)
(* id names one segment, that display indexes number them in order, and    *)
(* that a split or a merge which nothing disturbs keeps what the document  *)
(* reads as and numbers its segments again.                                *)
(***************************************************************************)
EXTENDS SegmentStructure, FiniteSetTheorems, SequenceTheorems, WellFoundedInduction, TLAPS

\* The rows of a file, typed.
Table == [Ids -> Row \cup {None}]

-----------------------------------------------------------------------------
\* The bounds are numbers.
LEMMA Bounds == MaxRows \in Nat /\ MaxWrites \in Nat /\ Len(Document) \in Nat /\ Len(Document) <= MaxRows
  BY SegmentStructureAssumption, LenProperties

\* No row, no request and no id is None.
LEMMA Distinct ==
  /\ \A r \in Row : r # None
  /\ \A i \in Ids : i # None
  /\ \A k \in Key : k # None
  /\ \A q \in Request : q # None
  BY SegmentStructureAssumption

\* The key of a row is a sequence of integers.
LEMMA KeyType == ASSUME NEW r \in Row PROVE KeyOf(r) \in Key
<1>1. <<IF r.index >= 0 THEN 0 ELSE 1, r.index>> \in Seq(Int)
  BY Bounds DEF Row
<1>2. r.sid \in Seq(Int)
  BY DEF Row
<1> QED
  BY <1>1, <1>2, ConcatProperties DEF KeyOf, Key

\* Each row has one, and where there is no row there is none.
LEMMA KeysType == ASSUME NEW t \in Table PROVE Keys(t) \in [Ids -> Key \cup {None}]
  BY KeyType DEF Table, Keys

\* A sequence is not less than itself.
LEMMA LessIrreflexive == ASSUME NEW a \in Key PROVE ~Less(a, a)
<1>1. \A n \in DOMAIN a : a[n] \in Int
  BY ElementOfSeq, LenProperties DEF Key
<1> QED
  BY <1>1 DEF Less

\* Positions count from zero and stay below the number of rows they are among.
LEMMA PositionBound ==
  ASSUME NEW keys, NEW n \in Nat, NEW S \in SUBSET (1..n), NEW i
  PROVE  /\ Position(keys, S, i) \in 0..n
         /\ i \in S /\ keys[i] \in Key => Position(keys, S, i) \in 0..n - 1
<1> DEFINE B == {j \in S : Less(keys[j], keys[i])}
<1>1. IsFiniteSet(1..n) /\ Cardinality(1..n) = n
  BY FS_Interval
<1>2. Cardinality(B) \in Nat /\ Cardinality(B) <= n
  BY <1>1, FS_Subset, FS_CardinalityType
<1>3. ASSUME i \in S, keys[i] \in Key PROVE Cardinality(B) <= n - 1
  <2>1. i \notin B
    BY <1>3, LessIrreflexive
  <2>2. IsFiniteSet((1..n) \ {i}) /\ Cardinality((1..n) \ {i}) = n - 1
    BY <1>1, <1>3, FS_RemoveElement
  <2>3. B \in SUBSET ((1..n) \ {i})
    BY <2>1
  <2> QED
    BY <2>2, <2>3, FS_Subset
<1> QED
  BY <1>2, <1>3 DEF Position

-----------------------------------------------------------------------------
\* The display indexes are all that changes when they are refreshed, and they
\* are the positions.
LEMMA DisplayedSame ==
  ASSUME NEW t \in Table
  PROVE  /\ Displayed(t) \in Table
         /\ Rows(Displayed(t)) = Rows(t)
         /\ Keys(Displayed(t)) = Keys(t)
         /\ \A i \in Rows(t) : /\ Displayed(t)[i].sid = t[i].sid
                               /\ Displayed(t)[i].display = Position(Keys(t), Rows(t), i)
<1>1. ASSUME NEW i \in Ids, t[i] # None
      PROVE  /\ t[i] \in Row
             /\ Position(Keys(t), Rows(t), i) \in 0..MaxRows - 1
  <2>1. t[i] \in Row
    BY <1>1 DEF Table
  <2>2. Keys(t)[i] \in Key
    BY <1>1, <2>1, KeyType DEF Keys
  <2>3. Rows(t) \in SUBSET (1..MaxRows) /\ i \in Rows(t)
    BY <1>1 DEF Rows, Ids
  <2> QED
    BY <2>1, <2>2, <2>3, PositionBound, Bounds
<1>2. ASSUME NEW i \in Ids, t[i] # None
      PROVE  /\ Displayed(t)[i] = [t[i] EXCEPT !.display = Position(Keys(t), Rows(t), i)]
             /\ Displayed(t)[i] \in Row
  <2> DEFINE p == Position(Keys(t), Rows(t), i)
  <2>1. Displayed(t)[i] = [t[i] EXCEPT !.display = p]
    BY <1>2 DEF Displayed
  <2>2. t[i] \in Row /\ p \in -1..MaxRows - 1
    BY <1>1, <1>2, Bounds
  <2> HIDE DEF p
  <2>3. [t[i] EXCEPT !.display = p] \in Row
    BY <2>2 DEF Row
  <2> QED
    BY <2>1, <2>3 DEF p
<1>3. \A i \in Ids : t[i] = None => Displayed(t)[i] = None
  BY DEF Displayed
<1>4. Displayed(t) \in Table
  BY <1>2, <1>3 DEF Displayed, Table
<1>5. Rows(Displayed(t)) = Rows(t)
  BY <1>2, <1>3, Distinct DEF Rows
<1>6. \A i \in Ids : t[i] # None => KeyOf(Displayed(t)[i]) = KeyOf(t[i])
  BY <1>1, <1>2 DEF KeyOf, Row
<1>7. Keys(Displayed(t)) = Keys(t)
  BY <1>2, <1>3, <1>6, Distinct DEF Keys
<1>8. \A i \in Rows(t) : /\ Displayed(t)[i].sid = t[i].sid
                         /\ Displayed(t)[i].display = Position(Keys(t), Rows(t), i)
  BY <1>1, <1>2 DEF Rows, Row
<1> QED
  BY <1>4, <1>5, <1>7, <1>8

\* A column is flushed with a value it had or is given.
LEMMA FlushType == ASSUME NEW S, NEW now \in S, NEW old, NEW new \in S PROVE Flush(now, old, new) \in S
  BY DEF Flush

-----------------------------------------------------------------------------
\* The rows a request has locked are rows of the file, with the keys they had.
LEMMA LockedRows ==
  ASSUME TypeOK, NEW q \in Request
  PROVE  /\ Locked(q) \subseteq Rows(seg)
         /\ Rows(seg) \subseteq 1..used
         /\ \A i \in Locked(q) : i \in Ids /\ q.order[i] \in Key
<1>1. q.order \in [Ids -> Key \cup {None}]
  BY DEF Request
<1>2. Rows(seg) \subseteq 1..used
  BY Bounds DEF TypeOK, Rows, Ids
<1> QED
  BY <1>1, <1>2 DEF Locked, Rows

\* Rows that are numbered again stay rows, with their sentence ids.
LEMMA RenumberedSame ==
  ASSUME TypeOK, NEW q \in Request, NEW S \in SUBSET Locked(q),
         NEW gap \in {0, 1}, NEW n \in Nat, S \subseteq 1..n, n + gap <= MaxRows
  PROVE  /\ Renumbered(q, S, gap) \in Table
         /\ \A i \in Ids : seg[i] = None <=> Renumbered(q, S, gap)[i] = None
         /\ \A i \in Rows(seg) : Renumbered(q, S, gap)[i].sid = seg[i].sid
<1> DEFINE moved == Renumbered(q, S, gap)
<1>1. seg \in Table
  BY DEF TypeOK, Table
<1>2. ASSUME NEW i \in S
      PROVE  /\ moved[i] \in Row /\ moved[i].sid = seg[i].sid
             /\ seg[i] \in Row
  <2>1. i \in Ids /\ seg[i] \in Row /\ q.order[i] \in Key
    BY <1>1, LockedRows DEF Rows, Table
  <2> DEFINE p == Position(q.order, S, i)
             m == IF p > Position(q.order, S, q.first) THEN p + gap ELSE p
             new == Flush(seg[i].index, KnownIndex(q, i), m)
  <2>2. p \in 0..n - 1
    BY <2>1, PositionBound
  <2>3. m \in -1..MaxRows - 1
    BY <2>2, Bounds
  <2>4. moved[i] = [seg[i] EXCEPT !.index = new]
    BY <2>1 DEF Renumbered
  <2>5. seg[i].index \in -1..MaxRows - 1
    BY <2>1 DEF Row
  <2> HIDE DEF m
  <2>6. new \in -1..MaxRows - 1
    BY <2>3, <2>5, FlushType
  <2> HIDE DEF new, moved
  <2> QED
    BY <2>1, <2>4, <2>6 DEF Row
<1>3. \A i \in Ids \ S : moved[i] = seg[i]
  BY DEF Renumbered
<1>4. S \subseteq Ids
  BY LockedRows
<1>5. \A i \in Ids : moved[i] \in Row \cup {None}
  BY <1>1, <1>2, <1>3 DEF Table
<1>6. moved \in Table
  BY <1>5 DEF Renumbered, Table
<1>7. \A i \in Ids : seg[i] = None <=> moved[i] = None
  BY <1>2, <1>3, Distinct
<1>8. \A i \in Rows(seg) : moved[i].sid = seg[i].sid
  BY <1>2, <1>3 DEF Rows
<1> QED
  BY <1>6, <1>7, <1>8

\* Both parts of a text are texts.
LEMMA PartsType ==
  ASSUME NEW s \in Seq(Nat), NEW n \in 0..Len(s)
  PROVE  SubSeq(s, 1, n) \in Seq(Nat) /\ SubSeq(s, n + 1, Len(s)) \in Seq(Nat)
<1>1. Len(s) \in Nat /\ \A i \in 1..Len(s) : s[i] \in Nat
  BY ElementOfSeq, LenProperties
<1> QED
  BY <1>1, SubSeqProperties

\* What a request carries.
LEMMA RequestParts ==
  ASSUME TypeOK, NEW u \in Users, req[u] # None
  PROVE  /\ req[u] \in Request
         /\ req[u].first \in Ids /\ req[u].old \in Row
         /\ req[u].op = "split" => req[u].cut \in 0..Len(req[u].old.source)
         /\ req[u].op # "split" => req[u].second \in Ids /\ req[u].other \in Row
<1>1. req[u] \in Request
  BY DEF TypeOK
<1>2. /\ req[u].op = "split" => req[u].cut \in 1..Len(req[u].old.source) - 1
      /\ req[u].op # "split" => req[u].second # None /\ req[u].other # None
  BY DEF TypeOK
<1>3. req[u].old \in Row
  BY <1>1 DEF Request
<1>4. Len(req[u].old.source) \in Nat
  BY <1>3, LenProperties DEF Row
<1> QED
  BY <1>1, <1>2, <1>3, <1>4 DEF Request

\* The table a split writes: the rows there were, numbered again, the first with
\* the first halves of its texts, and one more with the second halves.
LEMMA HalvedTable ==
  ASSUME TypeOK, NEW u \in Users, req[u] # None, req[u].op = "split", used < MaxRows,
         req[u].first \in Locked(req[u]), NEW n \in 1..MaxRows, NEW cut \in 0..Len(req[u].old.target)
  PROVE  LET q     == req[u]
             moved == Renumbered(q, Locked(q), 1)
             t     == Halved(q, n, cut)
         IN /\ t \in Table
            /\ Rows(t) = Rows(seg) \cup {used + 1} /\ used + 1 \notin Rows(seg)
            /\ \A i \in Rows(seg) : /\ i # q.first => t[i] = moved[i]
                                    /\ t[i].index = moved[i].index
                                    /\ t[i].sid = seg[i].sid
            /\ t[q.first].source = Flush(moved[q.first].source, q.old.source, SubSeq(q.old.source, 1, q.cut))
            /\ t[q.first].target = Flush(moved[q.first].target, q.old.target, SubSeq(q.old.target, 1, cut))
            /\ t[used + 1].sid = Sid(q, n)
            /\ t[used + 1].index = Position(q.order, Locked(q), q.first) + 1
            /\ t[used + 1].source = SubSeq(q.old.source, q.cut + 1, Len(q.old.source))
            /\ t[used + 1].target = SubSeq(q.old.target, cut + 1, Len(q.old.target))
<1> DEFINE q      == req[u]
           f      == q.first
           S      == Locked(q)
           moved  == Renumbered(q, S, 1)
           t      == Halved(q, n, cut)
           source == Flush(moved[f].source, q.old.source, SubSeq(q.old.source, 1, q.cut))
           target == Flush(moved[f].target, q.old.target, SubSeq(q.old.target, 1, cut))
           first  == [moved[f] EXCEPT !.source = source, !.target = target]
           new    == [sid |-> Sid(q, n), index |-> Position(q.order, S, f) + 1, display |-> -1,
                      source |-> SubSeq(q.old.source, q.cut + 1, Len(q.old.source)),
                      target |-> SubSeq(q.old.target, cut + 1, Len(q.old.target))]
<1>1. q \in Request /\ f \in S /\ q.old \in Row /\ q.cut \in 0..Len(q.old.source)
  BY RequestParts
<1>2. used \in Nat /\ used + 1 \in Ids /\ used + 1 <= MaxRows
  BY Bounds DEF TypeOK, Ids
<1>3. S \subseteq Rows(seg) /\ Rows(seg) \subseteq 1..used /\ S \subseteq Ids
  BY <1>1, LockedRows
<1>4. /\ moved \in Table
      /\ \A i \in Ids : seg[i] = None <=> moved[i] = None
      /\ \A i \in Rows(seg) : moved[i].sid = seg[i].sid
  BY <1>1, <1>2, <1>3, RenumberedSame
<1>5. f \in Ids /\ f # used + 1 /\ f \in Rows(seg)
  BY <1>1, <1>2, <1>3
<1>6. moved[f] \in Row
  BY <1>4, <1>5 DEF Table, Rows
<1>7. t = [i \in Ids |-> IF i = used + 1 THEN new ELSE IF i = f THEN first ELSE moved[i]]
  <2> HIDE DEF S
  <2>1. t = [moved EXCEPT ![f].source = source, ![f].target = target, ![used + 1] = new]
    BY DEF Halved, S
  <2> HIDE DEF moved, source, target, new, t, f
  <2> QED
    BY <1>2, <1>4, <1>5, <1>6, <2>1 DEF Table, Row
<1>8. source \in Seq(Nat) /\ target \in Seq(Nat) /\ new.source \in Seq(Nat) /\ new.target \in Seq(Nat)
  <2>1. /\ q.old.source \in Seq(Nat) /\ q.old.target \in Seq(Nat)
        /\ moved[f].source \in Seq(Nat) /\ moved[f].target \in Seq(Nat)
    BY <1>1, <1>6 DEF Row
  <2>2. /\ SubSeq(q.old.source, 1, q.cut) \in Seq(Nat)
        /\ SubSeq(q.old.source, q.cut + 1, Len(q.old.source)) \in Seq(Nat)
    BY <1>1, <2>1, PartsType
  <2>3. /\ SubSeq(q.old.target, 1, cut) \in Seq(Nat)
        /\ SubSeq(q.old.target, cut + 1, Len(q.old.target)) \in Seq(Nat)
    BY <2>1, PartsType
  <2> QED
    BY <2>1, <2>2, <2>3, FlushType
<1>9. new \in Row
  <2>1. q.old.sid \in Seq(Nat) /\ n \in Nat
    BY <1>1, Bounds DEF Row
  <2>2. Sid(q, n) \in Seq(Nat)
    BY <2>1, ConcatProperties DEF Sid
  <2>3. Position(q.order, S, f) \in 0..used - 1
    BY <1>1, <1>2, <1>3, LockedRows, PositionBound
  <2>4. Position(q.order, S, f) + 1 \in -1..MaxRows - 1
    BY <1>2, <2>3, Bounds
  <2>5. -1 \in -1..MaxRows - 1
    BY Bounds
  <2> QED
    BY <1>8, <2>2, <2>4, <2>5 DEF Row
<1>10. /\ first \in Row /\ first.sid = moved[f].sid /\ first.index = moved[f].index
       /\ first.source = source /\ first.target = target
  <2> HIDE DEF source, target, moved, f
  <2> QED
    BY <1>6, <1>8 DEF Row
<1>11. /\ new.sid = Sid(q, n) /\ new.index = Position(q.order, S, f) + 1
       /\ new.source = SubSeq(q.old.source, q.cut + 1, Len(q.old.source))
       /\ new.target = SubSeq(q.old.target, cut + 1, Len(q.old.target))
  OBVIOUS
<1> HIDE DEF new, first, source, target, moved, t, S, f
<1>12. t \in Table
  BY <1>4, <1>7, <1>9, <1>10 DEF Table
<1>13. Rows(t) = Rows(seg) \cup {used + 1}
  BY <1>2, <1>4, <1>5, <1>7, <1>9, <1>10, Distinct DEF Rows
<1>14. \A i \in Rows(seg) : /\ i # f => t[i] = moved[i]
                            /\ t[i].index = moved[i].index
                            /\ t[i].sid = seg[i].sid
  <2>1. ASSUME NEW i \in Rows(seg) PROVE i \in Ids /\ i # used + 1
    BY <1>2, <1>3 DEF Rows
  <2> QED
    BY <1>4, <1>7, <1>10, <2>1
<1>15. t[used + 1] = new /\ t[f].source = source /\ t[f].target = target
  BY <1>2, <1>5, <1>7, <1>10
<1>16. used + 1 \notin Rows(seg)
  BY <1>2, <1>3
<1> QED
  BY <1>11, <1>12, <1>13, <1>14, <1>15, <1>16 DEF source, target, moved, t, S, f

\* What the rows are after a split: those there were, with their sentence ids,
\* and one more with an id that none of them has.
LEMMA SplitRows ==
  ASSUME TypeOK, NEW u \in Users, Split(u)
  PROVE  /\ seg' \in Table
         /\ Rows(seg') = Rows(seg) \cup {used + 1}
         /\ used + 1 \notin Rows(seg)
         /\ \A i \in Rows(seg) : /\ seg'[i].sid = seg[i].sid
                                 /\ seg'[used + 1].sid # seg[i].sid
         /\ DisplayIsTheOrder'
<1> DEFINE q == req[u]
<1>1. q # None /\ q.op = "split" /\ used < MaxRows /\ q.first \in Locked(q)
  BY DEF Split
<1>2. PICK n \in 1..MaxRows, cut \in 0..Len(q.old.target) :
        FreeNumber(q, n) /\ seg' = Displayed(Halved(q, n, cut))
  BY DEF Split
<1> DEFINE t == Halved(q, n, cut)
<1>3. /\ t \in Table
      /\ Rows(t) = Rows(seg) \cup {used + 1} /\ used + 1 \notin Rows(seg)
      /\ \A i \in Rows(seg) : t[i].sid = seg[i].sid
      /\ t[used + 1].sid = Sid(q, n)
  BY <1>1, HalvedTable
<1>4. seg' = Displayed(t)
  BY <1>2
<1> HIDE DEF t
<1>5. \A i \in Rows(seg) : seg[i].sid # Sid(q, n)
  BY <1>2, Bounds DEF FreeNumber
<1>6. DisplayIsTheOrder'
  BY <1>3, <1>4, DisplayedSame DEF DisplayIsTheOrder
<1> QED
  BY <1>3, <1>4, <1>5, <1>6, DisplayedSame

\* The table a merge writes: the rows there were but the second, numbered again,
\* the first with the texts of both.
LEMMA JoinedTable ==
  ASSUME TypeOK, NEW u \in Users, req[u] # None, req[u].op = "merge",
         Follows(req[u], Locked(req[u]))
  PROVE  LET q     == req[u]
             moved == Renumbered(q, Locked(q) \ {q.second}, 0)
             t     == Joined(q)
         IN /\ t \in Table
            /\ Rows(t) = Rows(seg) \ {q.second} /\ q.second \in Rows(seg)
            /\ q.first \in Rows(seg) /\ q.first # q.second
            /\ \A i \in Rows(t) : /\ i # q.first => t[i] = moved[i]
                                  /\ t[i].index = moved[i].index
                                  /\ t[i].sid = seg[i].sid
            /\ t[q.first].source = Flush(moved[q.first].source, q.old.source, q.old.source \o q.other.source)
            /\ t[q.first].target = Flush(moved[q.first].target, q.old.target, q.old.target \o q.other.target)
<1> DEFINE q     == req[u]
           f     == q.first
           S     == Locked(q) \ {q.second}
           moved == Renumbered(q, S, 0)
           t     == Joined(q)
<1>1. /\ q \in Request /\ f \in Locked(q) /\ q.second \in Locked(q) /\ f \in Ids
      /\ q.old \in Row /\ q.other \in Row /\ q.second \in Ids
  BY RequestParts DEF Follows
<1>2. Rows(seg) \subseteq 1..used /\ Locked(q) \subseteq Rows(seg)
  BY <1>1, LockedRows
<1>3. 1..used \subseteq 1..MaxRows /\ used \in Nat
  BY Bounds DEF TypeOK
<1>4. f # q.second
  <2>1. Position(q.order, Locked(q), f) \in 0..used
    BY <1>2, <1>3, PositionBound
  <2> QED
    BY <2>1 DEF Follows
<1>5. /\ moved \in Table
      /\ \A i \in Ids : seg[i] = None <=> moved[i] = None
      /\ \A i \in Rows(seg) : moved[i].sid = seg[i].sid
  BY <1>1, <1>2, <1>3, RenumberedSame, Bounds
<1>6. moved[f] \in Row
  BY <1>1, <1>2, <1>5 DEF Table, Rows
<1> DEFINE source == Flush(moved[f].source, q.old.source, q.old.source \o q.other.source)
           target == Flush(moved[f].target, q.old.target, q.old.target \o q.other.target)
           first  == [moved[f] EXCEPT !.source = source, !.target = target]
<1>7. t = [i \in Ids |-> IF i = q.second THEN None ELSE IF i = f THEN first ELSE moved[i]]
  <2>1. t = [moved EXCEPT ![f].source = source, ![f].target = target, ![q.second] = None]
    BY DEF Joined
  <2> HIDE DEF moved, source, target, t, f
  <2> QED
    BY <1>1, <1>5, <1>6, <2>1 DEF Table, Row
<1>8. source \in Seq(Nat) /\ target \in Seq(Nat)
  <2>1. /\ q.old.source \in Seq(Nat) /\ q.old.target \in Seq(Nat)
        /\ q.other.source \in Seq(Nat) /\ q.other.target \in Seq(Nat)
        /\ moved[f].source \in Seq(Nat) /\ moved[f].target \in Seq(Nat)
    BY <1>1, <1>6 DEF Row
  <2>2. /\ q.old.source \o q.other.source \in Seq(Nat)
        /\ q.old.target \o q.other.target \in Seq(Nat)
    BY <2>1, ConcatProperties
  <2> QED
    BY <2>1, <2>2, FlushType
<1>9. /\ first \in Row /\ first.sid = moved[f].sid /\ first.index = moved[f].index
      /\ first.source = source /\ first.target = target
  <2> HIDE DEF source, target, moved, f
  <2> QED
    BY <1>6, <1>8 DEF Row
<1> HIDE DEF first, source, target, moved, t, S, f
<1>10. t \in Table
  BY <1>5, <1>7, <1>9 DEF Table
<1>11. Rows(t) = Rows(seg) \ {q.second}
  BY <1>1, <1>2, <1>5, <1>7, <1>9, Distinct DEF Rows
<1>12. \A i \in Rows(t) : /\ i # f => t[i] = moved[i]
                          /\ t[i].index = moved[i].index
                          /\ t[i].sid = seg[i].sid
  <2>1. ASSUME NEW i \in Rows(t) PROVE i \in Ids /\ i # q.second /\ i \in Rows(seg)
    BY <1>11 DEF Rows
  <2> QED
    BY <1>5, <1>7, <1>9, <2>1
<1>13. t[f].source = source /\ t[f].target = target
  BY <1>1, <1>4, <1>7, <1>9 DEF f
<1>14. q.second \in Rows(seg) /\ f \in Rows(seg)
  BY <1>1, <1>2
<1> QED
  BY <1>4, <1>10, <1>11, <1>12, <1>13, <1>14 DEF source, target, moved, t, S, f

\* What the rows are after a merge: those there were but the second, with their
\* sentence ids.
LEMMA MergeRows ==
  ASSUME TypeOK, NEW u \in Users, Merge(u)
  PROVE  /\ seg' \in Table
         /\ Rows(seg') = Rows(seg) \ {req[u].second}
         /\ \A i \in Rows(seg') : seg'[i].sid = seg[i].sid
         /\ DisplayIsTheOrder'
<1> DEFINE t == Joined(req[u])
<1>1. req[u] # None /\ req[u].op = "merge" /\ Follows(req[u], Locked(req[u])) /\ seg' = Displayed(t)
  BY DEF Merge
<1>2. /\ t \in Table /\ Rows(t) = Rows(seg) \ {req[u].second}
      /\ \A i \in Rows(t) : t[i].sid = seg[i].sid
  BY <1>1, JoinedTable
<1> HIDE DEF t
<1>3. DisplayIsTheOrder'
  BY <1>1, <1>2, DisplayedSame DEF DisplayIsTheOrder
<1> QED
  BY <1>1, <1>2, <1>3, DisplayedSame

\* What the rows are after a text was written: the same, in the same order.
LEMMA WriteRows ==
  ASSUME TypeOK, NEW i \in Ids, WriteTarget(i) \/ WriteSource(i)
  PROVE  /\ seg' \in Table
         /\ Rows(seg') = Rows(seg)
         /\ \A j \in Rows(seg) : seg'[j].sid = seg[j].sid /\ seg'[j].display = seg[j].display
         /\ Keys(seg') = Keys(seg)
<1>1. PICK text \in Writings : \/ Write(i, [seg[i] EXCEPT !.target = text])
                               \/ Write(i, [seg[i] EXCEPT !.source = text])
  BY DEF WriteTarget, WriteSource
<1>2. seg \in Table /\ text \in Seq(Nat)
  BY SegmentStructureAssumption DEF TypeOK, Table
<1>3. PICK row \in {[seg[i] EXCEPT !.target = text], [seg[i] EXCEPT !.source = text]} :
        seg[i] # None /\ seg' = [seg EXCEPT ![i] = row]
  BY <1>1 DEF Write
<1>4. seg[i] \in Row
  BY <1>2, <1>3 DEF Table
<1>5. row \in Row /\ row.sid = seg[i].sid /\ row.display = seg[i].display /\ row.index = seg[i].index
  BY <1>2, <1>3, <1>4 DEF Row
<1>6. seg' \in Table
  BY <1>2, <1>3, <1>5 DEF Table
<1>7. Rows(seg') = Rows(seg)
  BY <1>2, <1>3, <1>5, Distinct DEF Rows, Table
<1>8. \A j \in Rows(seg) : seg'[j].sid = seg[j].sid /\ seg'[j].display = seg[j].display
  BY <1>2, <1>3, <1>5 DEF Rows, Table
<1>9. KeyOf(row) = KeyOf(seg[i])
  BY <1>5 DEF KeyOf
<1>10. Keys(seg') = Keys(seg)
  BY <1>2, <1>3, <1>5, <1>9, Distinct DEF Keys, Table
<1> QED
  BY <1>6, <1>7, <1>8, <1>10

-----------------------------------------------------------------------------
\* The conjuncts of the type invariant that speak of requests.
RequestsOK ==
  /\ req \in [Users -> Request \cup {None}]
  /\ \A u \in Users : req[u] # None =>
       IF req[u].op = "split" THEN req[u].cut \in 1..Len(req[u].old.source) - 1
       ELSE req[u].second # None /\ req[u].other # None

\* A request that ends leaves the others as they are.
LEMMA RequestEnds ==
  ASSUME TypeOK, NEW u \in Users, req' = [req EXCEPT ![u] = None]
  PROVE  RequestsOK'
<1>1. \A v \in Users : req'[v] = req[v] \/ req'[v] = None
  BY DEF TypeOK
<1> QED
  BY <1>1 DEF TypeOK, RequestsOK

\* A request that begins has read the rows it names.
LEMMA RequestBegins ==
  ASSUME TypeOK, NEW u \in Users, NEW op \in {"split", "merge"}, NEW i \in Ids,
         NEW j \in Ids \cup {None}, NEW cut \in Nat, Begin(u, op, i, j, cut),
         seg[i] # None, j # None => seg[j] # None,
         IF op = "split" THEN cut \in 1..Len(seg[i].source) - 1 ELSE j # None
  PROVE  RequestsOK'
<1> DEFINE q == [op |-> op, at |-> "read", first |-> i, second |-> j, old |-> seg[i],
                 other |-> IF j = None THEN None ELSE seg[j], cut |-> cut,
                 order |-> [k \in Ids |-> None]]
<1>1. seg[i] \in Row /\ (IF j = None THEN None ELSE seg[j]) \in Row \cup {None}
  BY DEF TypeOK
<1>2. q \in Request
  BY <1>1 DEF Request
<1>3. /\ q.op = op /\ q.second = j /\ q.cut = cut /\ q.old = seg[i]
      /\ op # "split" => q.other # None
  BY DEF q
<1>4. req' = [req EXCEPT ![u] = q]
  BY DEF Begin
<1> HIDE DEF q
<1>5. req' \in [Users -> Request \cup {None}]
  BY <1>2, <1>4 DEF TypeOK
<1>6. \A v \in Users : req'[v] = IF v = u THEN q ELSE req[v]
  BY <1>4 DEF TypeOK
<1>7. IF q.op = "split" THEN q.cut \in 1..Len(q.old.source) - 1
      ELSE q.second # None /\ q.other # None
  BY <1>3
<1> QED
  BY <1>5, <1>6, <1>7 DEF TypeOK, RequestsOK

\* A statement that starts is of the same request.
LEMMA RequestSelects ==
  ASSUME TypeOK, NEW u \in Users, Select(u)
  PROVE  RequestsOK'
<1> DEFINE q == [req[u] EXCEPT !.at = "select", !.order = Keys(seg)]
<1>1. req[u] \in Request /\ req[u] # None
  BY RequestParts DEF Select
<1>2. Keys(seg) \in [Ids -> Key \cup {None}]
  BY KeysType DEF TypeOK, Table
<1>3. q \in Request /\ q.op = req[u].op /\ q.cut = req[u].cut /\ q.old = req[u].old
      /\ q.second = req[u].second /\ q.other = req[u].other
  BY <1>1, <1>2 DEF Request
<1>4. req' = [req EXCEPT ![u] = q]
  BY <1>1 DEF Select, TypeOK, Request
<1> HIDE DEF q
<1>5. req' \in [Users -> Request \cup {None}]
  BY <1>3, <1>4 DEF TypeOK
<1>6. \A v \in Users : req'[v] = IF v = u THEN q ELSE req[v]
  BY <1>4 DEF TypeOK
<1> QED
  BY <1>1, <1>3, <1>5, <1>6 DEF TypeOK, RequestsOK

-----------------------------------------------------------------------------
StructureInv == TypeOK /\ SentenceIdsUnique /\ DisplayIsTheOrder

\* Each initial document satisfies the invariant.
LEMMA InitInv == Init => StructureInv
<1> SUFFICES ASSUME Init PROVE StructureInv
  OBVIOUS
<1>1. PICK numbered \in BOOLEAN :
        seg = Displayed([i \in Ids |->
          IF i > Len(Document) THEN None
          ELSE [sid |-> <<i>>, index |-> IF numbered THEN i - 1 ELSE -1, display |-> -1,
                source |-> Document[i], target |-> <<i>>]])
  BY DEF Init
<1> DEFINE first(i) == [sid |-> <<i>>, index |-> IF numbered THEN i - 1 ELSE -1, display |-> -1,
                        source |-> Document[i], target |-> <<i>>]
           t == [i \in Ids |-> IF i > Len(Document) THEN None ELSE first(i)]
<1>2. ASSUME NEW i \in Ids, ~(i > Len(Document)) PROVE first(i) \in Row /\ t[i] = first(i)
  <2>1. i \in 1..Len(Document) /\ i \in Nat
    BY <1>2, Bounds DEF Ids
  <2>2. Document[i] \in Seq(Nat)
    BY <2>1, SegmentStructureAssumption, ElementOfSeq
  <2>3. <<i>> \in Seq(Nat)
    BY <2>1
  <2>4. (IF numbered THEN i - 1 ELSE -1) \in -1..MaxRows - 1 /\ -1 \in -1..MaxRows - 1
    BY <2>1, Bounds
  <2> QED
    BY <1>2, <2>2, <2>3, <2>4 DEF Row
<1>3. t \in Table
  BY <1>2 DEF Table
<1>4. \A i \in Rows(t) : i \in Ids /\ ~(i > Len(Document)) /\ t[i].sid = <<i>>
  BY <1>2, Distinct DEF Rows
<1>5. seg = Displayed(t)
  BY <1>1
<1> HIDE DEF t
<1>6. /\ seg \in Table /\ Rows(seg) = Rows(t) /\ Keys(seg) = Keys(t)
      /\ \A i \in Rows(t) : seg[i].sid = t[i].sid /\ seg[i].display = Position(Keys(t), Rows(t), i)
  BY <1>3, <1>5, DisplayedSame
<1>7. TypeOK
  <2>1. \A i \in Ids : seg[i] # None => i <= used
    BY <1>4, <1>6, Bounds DEF Rows, Ids, Init
  <2>2. req = [u \in Users |-> None] /\ used = Len(Document) /\ writes = 0
    BY DEF Init
  <2> QED
    BY <1>6, <2>1, <2>2, Bounds DEF TypeOK, Table
<1>8. SentenceIdsUnique
  BY <1>4, <1>6 DEF SentenceIdsUnique
<1>9. DisplayIsTheOrder
  BY <1>6 DEF DisplayIsTheOrder
<1> QED
  BY <1>7, <1>8, <1>9 DEF StructureInv

\* Each step keeps it.
LEMMA NextInv == StructureInv /\ [Next]_vars => StructureInv'
<1> SUFFICES ASSUME StructureInv, [Next]_vars PROVE StructureInv'
  OBVIOUS
<1>0. TypeOK /\ SentenceIdsUnique /\ DisplayIsTheOrder
  BY DEF StructureInv
<1>1. ASSUME NEW i \in Ids, WriteTarget(i) \/ WriteSource(i) PROVE StructureInv'
  <2>1. /\ seg' \in Table /\ Rows(seg') = Rows(seg) /\ Keys(seg') = Keys(seg)
        /\ \A j \in Rows(seg) : seg'[j].sid = seg[j].sid /\ seg'[j].display = seg[j].display
    BY <1>0, <1>1, WriteRows
  <2>2. UNCHANGED <<used, req>> /\ writes' \in 0..MaxWrites
    BY <1>0, <1>1, Bounds DEF WriteTarget, WriteSource, Write, TypeOK
  <2>3. TypeOK'
    BY <1>0, <2>1, <2>2 DEF TypeOK, Table, Rows
  <2>4. SentenceIdsUnique' /\ DisplayIsTheOrder'
    BY <1>0, <2>1 DEF SentenceIdsUnique, DisplayIsTheOrder
  <2> QED
    BY <2>3, <2>4 DEF StructureInv
<1>2. ASSUME UNCHANGED <<seg, used, writes>>, RequestsOK' PROVE StructureInv'
  <2>1. TypeOK'
    BY <1>0, <1>2 DEF TypeOK, RequestsOK
  <2>2. SentenceIdsUnique' /\ DisplayIsTheOrder'
    BY <1>0, <1>2 DEF SentenceIdsUnique, DisplayIsTheOrder
  <2> QED
    BY <2>1, <2>2 DEF StructureInv
<1>3. ASSUME NEW u \in Users, NEW i \in Ids, BeginSplit(u, i) PROVE StructureInv'
  <2>1. PICK cut \in 1..Len(seg[i].source) - 1 : Begin(u, "split", i, None, cut)
    BY <1>3 DEF BeginSplit
  <2>2. seg[i] # None /\ seg[i] \in Row
    BY <1>0, <1>3 DEF BeginSplit, TypeOK
  <2>3. cut \in Nat
    BY <2>2, LenProperties DEF Row
  <2>4. RequestsOK'
    BY <1>0, <2>1, <2>2, <2>3, RequestBegins
  <2> QED
    BY <1>2, <2>1, <2>4 DEF Begin
<1>4. ASSUME NEW u \in Users, NEW i \in Ids, NEW j \in Ids, BeginMerge(u, i, j) PROVE StructureInv'
  <2>1. RequestsOK'
    BY <1>0, <1>4, RequestBegins, Distinct DEF BeginMerge
  <2> QED
    BY <1>2, <1>4, <2>1 DEF BeginMerge, Begin
<1>5. ASSUME NEW u \in Users, Select(u) PROVE StructureInv'
  BY <1>0, <1>2, <1>5, RequestSelects DEF Select
<1>6. ASSUME NEW u \in Users, Refused(u) PROVE StructureInv'
  BY <1>0, <1>2, <1>6, RequestEnds DEF Refused
<1>7. ASSUME NEW u \in Users, Split(u) PROVE StructureInv'
  <2>1. /\ seg' \in Table /\ Rows(seg') = Rows(seg) \cup {used + 1} /\ used + 1 \notin Rows(seg)
        /\ \A i \in Rows(seg) : seg'[i].sid = seg[i].sid /\ seg'[used + 1].sid # seg[i].sid
        /\ DisplayIsTheOrder'
    BY <1>0, <1>7, SplitRows
  <2>2. RequestsOK' /\ used' = used + 1 /\ used < MaxRows /\ UNCHANGED writes
    BY <1>0, <1>7, RequestEnds DEF Split
  <2>3. TypeOK'
    BY <1>0, <2>1, <2>2, Bounds DEF TypeOK, RequestsOK, Table, Rows, Ids
  <2>4. SentenceIdsUnique'
    BY <1>0, <2>1 DEF SentenceIdsUnique
  <2> QED
    BY <2>1, <2>3, <2>4 DEF StructureInv
<1>8. ASSUME NEW u \in Users, Merge(u) PROVE StructureInv'
  <2>1. /\ seg' \in Table /\ Rows(seg') = Rows(seg) \ {req[u].second}
        /\ \A i \in Rows(seg') : seg'[i].sid = seg[i].sid
        /\ DisplayIsTheOrder'
    BY <1>0, <1>8, MergeRows
  <2>2. RequestsOK' /\ UNCHANGED <<used, writes>>
    BY <1>0, <1>8, RequestEnds DEF Merge
  <2>3. TypeOK'
    BY <1>0, <2>1, <2>2 DEF TypeOK, RequestsOK, Table, Rows
  <2>4. SentenceIdsUnique'
    BY <1>0, <2>1 DEF SentenceIdsUnique
  <2> QED
    BY <2>1, <2>3, <2>4 DEF StructureInv
<1>9. CASE UNCHANGED vars
  BY <1>0, <1>9 DEF StructureInv, TypeOK, SentenceIdsUnique, DisplayIsTheOrder, vars
<1> QED
  BY <1>1, <1>3, <1>4, <1>5, <1>6, <1>7, <1>8, <1>9 DEF Next

\* The invariant holds throughout.
LEMMA Invariant == Spec => []StructureInv
BY InitInv, NextInv, PTL DEF Spec

-----------------------------------------------------------------------------
\* Rows and requests are well typed in every reachable state, and no index
\* exceeds the number of rows.
THEOREM StructureTypeCorrect == Spec => []TypeOK
<1>1. StructureInv => TypeOK
  BY DEF StructureInv
<1> QED
  BY Invariant, <1>1, PTL

\* A sentence id never names two segments, however splits and merges overlap.
THEOREM SentenceIdsStayUnique == Spec => []SentenceIdsUnique
<1>1. StructureInv => SentenceIdsUnique
  BY DEF StructureInv
<1> QED
  BY Invariant, <1>1, PTL

\* Display indexes number the segments in document order in every reachable
\* state, indexes that occur twice notwithstanding.
THEOREM DisplayFollowsTheOrder == Spec => []DisplayIsTheOrder
<1>1. StructureInv => DisplayIsTheOrder
  BY DEF StructureInv
<1> QED
  BY Invariant, <1>1, PTL

-----------------------------------------------------------------------------
(* Keys are totally ordered, and positions number the rows of a set by them. *)

\* A set of naturals that is not empty has a least one.
LEMMA LeastNatural ==
  ASSUME NEW T \in SUBSET Nat, T # {}
  PROVE  \E m \in T : \A k \in T : m <= k
<1>1. PICK m \in T : \A k \in T : <<k, m>> \notin OpToRel(<, Nat)
  BY WFMin, NatLessThanWellFounded
<1>2. \A k \in T : ~(k < m)
  BY <1>1 DEF OpToRel
<1> QED
  BY <1>2

\* A key is a sequence of integers.
LEMMA KeyParts ==
  ASSUME NEW a \in Key
  PROVE  /\ Len(a) \in Nat /\ DOMAIN a = 1..Len(a)
         /\ \A n \in 1..Len(a) : a[n] \in Int
  BY ElementOfSeq, LenProperties DEF Key

\* Less is transitive.
LEMMA LessTransitive ==
  ASSUME NEW a \in Key, NEW b \in Key, NEW c \in Key, Less(a, b), Less(b, c)
  PROVE  Less(a, c)
<1>1. PICK n \in DOMAIN b : /\ \A m \in 1..n - 1 : m \in DOMAIN a /\ a[m] = b[m]
                            /\ n \in DOMAIN a => a[n] < b[n]
  BY DEF Less
<1>2. PICK k \in DOMAIN c : /\ \A m \in 1..k - 1 : m \in DOMAIN b /\ b[m] = c[m]
                            /\ k \in DOMAIN b => b[k] < c[k]
  BY DEF Less
<1>3. n \in 1..Len(b) /\ k \in 1..Len(c) /\ Len(a) \in Nat /\ Len(b) \in Nat /\ Len(c) \in Nat
  BY KeyParts
<1>4. CASE n <= k
  <2>1. n \in DOMAIN c /\ \A m \in 1..n - 1 : m \in DOMAIN a /\ a[m] = c[m]
    BY <1>1, <1>2, <1>3, <1>4, KeyParts
  <2>2. ASSUME n \in DOMAIN a PROVE a[n] < c[n]
    <3>1. a[n] \in Int /\ b[n] \in Int /\ c[n] \in Int
      BY <1>3, <2>1, <2>2, KeyParts
    <3>2. CASE n < k
      <4>1. b[n] = c[n]
        BY <1>2, <1>3, <3>2
      <4> QED
        BY <1>1, <2>2, <3>1, <4>1
    <3>3. CASE n = k
      BY <1>1, <1>2, <2>2, <3>1, <3>3
    <3> QED
      BY <1>3, <1>4, <3>2, <3>3
  <2> QED
    BY <2>1, <2>2 DEF Less
<1>5. CASE k < n
  <2>1. \A m \in 1..k - 1 : m \in DOMAIN a /\ a[m] = c[m]
    BY <1>1, <1>2, <1>3, <1>5
  <2>2. k \in DOMAIN a /\ a[k] = b[k] /\ k \in DOMAIN b
    BY <1>1, <1>3, <1>5, KeyParts
  <2> QED
    BY <1>2, <2>1, <2>2 DEF Less
<1> QED
  BY <1>3, <1>4, <1>5

\* Of two keys one is less: at the first place where they differ, or where one ends.
LEMMA LessTotal ==
  ASSUME NEW a \in Key, NEW b \in Key, a # b
  PROVE  Less(a, b) \/ Less(b, a)
<1> DEFINE Differ == {n \in Nat : n \in DOMAIN a \cup DOMAIN b
                                   /\ ~(n \in DOMAIN a /\ n \in DOMAIN b /\ a[n] = b[n])}
<1>1. Len(a) \in Nat /\ Len(b) \in Nat /\ DOMAIN a = 1..Len(a) /\ DOMAIN b = 1..Len(b)
  BY KeyParts
<1>2. Differ # {}
  <2> SUFFICES ASSUME Differ = {} PROVE FALSE
    OBVIOUS
  <2>1. \A n \in 1..Len(a) : n \in 1..Len(b) /\ a[n] = b[n]
    BY <1>1
  <2>2. \A n \in 1..Len(b) : n \in 1..Len(a)
    BY <1>1
  <2>3. Len(a) = Len(b)
    <3>1. Len(a) > 0 => Len(a) <= Len(b)
      BY <1>1, <2>1
    <3>2. Len(b) > 0 => Len(b) <= Len(a)
      BY <1>1, <2>2
    <3>3. Len(a) \in Nat /\ Len(b) \in Nat
      BY <1>1
    <3> HIDE DEF Differ
    <3> QED
      BY <3>1, <3>2, <3>3
  <2> QED
    <3>1. a \in Seq(Int) /\ b \in Seq(Int)
      BY DEF Key
    <3> QED
      BY <1>1, <2>1, <2>3, <3>1, SeqEqual
<1> HIDE DEF Differ
<1>3. PICK n \in Differ : \A k \in Differ : n <= k
  BY <1>2, LeastNatural DEF Differ
<1>4. /\ n \in Nat /\ n \in DOMAIN a \cup DOMAIN b
      /\ ~(n \in DOMAIN a /\ n \in DOMAIN b /\ a[n] = b[n])
  BY DEF Differ
<1>5. ASSUME NEW m \in 1..n - 1 PROVE m \in DOMAIN a /\ m \in DOMAIN b /\ a[m] = b[m]
  <2>1. m \notin Differ /\ m \in Nat /\ m \in DOMAIN a \cup DOMAIN b
    BY <1>1, <1>3, <1>4, <1>5
  <2> QED
    BY <2>1 DEF Differ
<1>6. CASE n \in DOMAIN a /\ n \in DOMAIN b
  <2>1. a[n] \in Int /\ b[n] \in Int /\ a[n] # b[n]
    BY <1>4, <1>6, KeyParts
  <2> QED
    BY <1>5, <1>6, <2>1 DEF Less
<1>7. CASE n \in DOMAIN a /\ n \notin DOMAIN b
  BY <1>5, <1>7 DEF Less
<1>8. CASE n \notin DOMAIN a /\ n \in DOMAIN b
  BY <1>5, <1>8 DEF Less
<1> QED
  BY <1>4, <1>6, <1>7, <1>8

\* The rows of S have keys, and no two the same.
KeysApart(keys, S) ==
  /\ \A i \in S : keys[i] \in Key
  /\ \A i, j \in S : keys[i] = keys[j] => i = j

\* A position is a number, and that of a row is below their number.
LEMMA PositionType ==
  ASSUME NEW keys, NEW S, IsFiniteSet(S), NEW i
  PROVE  /\ Position(keys, S, i) \in Nat
         /\ i \in S /\ keys[i] \in Key => Position(keys, S, i) \in 0..Cardinality(S) - 1
<1> DEFINE B == {j \in S : Less(keys[j], keys[i])}
<1>1. Cardinality(B) \in Nat /\ IsFiniteSet(B)
  BY FS_Subset, FS_CardinalityType
<1>2. ASSUME i \in S, keys[i] \in Key PROVE Cardinality(B) <= Cardinality(S) - 1
  <2>1. B \in SUBSET (S \ {i})
    BY <1>2, LessIrreflexive
  <2>2. IsFiniteSet(S \ {i}) /\ Cardinality(S \ {i}) = Cardinality(S) - 1
    BY <1>2, FS_RemoveElement
  <2> QED
    BY <2>1, <2>2, FS_Subset
<1>3. Cardinality(S) \in Nat
  BY FS_CardinalityType
<1> QED
  BY <1>1, <1>2, <1>3 DEF Position

\* Positions go by the keys.
LEMMA PositionsGrow ==
  ASSUME NEW keys, NEW S, IsFiniteSet(S), KeysApart(keys, S), NEW i \in S, NEW j \in S
  PROVE  Position(keys, S, i) < Position(keys, S, j) <=> Less(keys[i], keys[j])
<1>1. ASSUME NEW k \in S, NEW l \in S, Less(keys[k], keys[l])
      PROVE  Position(keys, S, k) < Position(keys, S, l)
  <2> DEFINE B == {m \in S : Less(keys[m], keys[k])}
             C == {m \in S : Less(keys[m], keys[l])}
  <2>1. B \subseteq C /\ k \in C /\ k \notin B
    BY <1>1, LessTransitive, LessIrreflexive DEF KeysApart
  <2>2. IsFiniteSet(B) /\ IsFiniteSet(C)
    BY FS_Subset
  <2>3. IsFiniteSet(B \cup {k}) /\ Cardinality(B \cup {k}) = Cardinality(B) + 1
    BY <2>1, <2>2, FS_AddElement
  <2>4. Cardinality(B \cup {k}) <= Cardinality(C)
    BY <2>1, <2>2, FS_Subset
  <2>5. Cardinality(B) \in Nat /\ Cardinality(C) \in Nat
    BY <2>2, FS_CardinalityType
  <2> QED
    BY <2>3, <2>4, <2>5 DEF Position
<1>2. Position(keys, S, i) \in Nat /\ Position(keys, S, j) \in Nat
  BY PositionType
<1>3. CASE Less(keys[i], keys[j])
  BY <1>1, <1>3
<1>4. CASE ~Less(keys[i], keys[j])
  <2>1. CASE i = j
    BY <1>2, <1>4, <2>1
  <2>2. CASE Less(keys[j], keys[i])
    BY <1>1, <1>2, <1>4, <2>2
  <2> QED
    BY <1>4, <2>1, <2>2, LessTotal DEF KeysApart
<1> QED
  BY <1>3, <1>4

\* Each row has a position of its own, and each position a row.
LEMMA PositionsNumber ==
  ASSUME NEW keys, NEW S, IsFiniteSet(S), KeysApart(keys, S)
  PROVE  /\ \A i, j \in S : Position(keys, S, i) = Position(keys, S, j) => i = j
         /\ \A n \in 0..Cardinality(S) - 1 : \E i \in S : Position(keys, S, i) = n
<1> DEFINE f == [i \in S |-> Position(keys, S, i)]
           T == 0..Cardinality(S) - 1
<1>1. ASSUME NEW i \in S, NEW j \in S, Position(keys, S, i) = Position(keys, S, j)
      PROVE  i = j
  <2>1. Position(keys, S, i) \in Nat
    BY PositionType
  <2>2. ~Less(keys[i], keys[j]) /\ ~Less(keys[j], keys[i])
    BY <1>1, <2>1, PositionsGrow
  <2> QED
    BY <2>2, LessTotal DEF KeysApart
<1>2. \A i \in S : f[i] \in T
  BY PositionType DEF KeysApart
<1>3. f \in Injection(S, T)
  BY <1>1, <1>2 DEF Injection, IsInjective
<1>4. Cardinality(S) \in Nat
  BY FS_CardinalityType
<1>5. IsFiniteSet(T) /\ Cardinality(T) = Cardinality(S)
  BY <1>4, FS_Interval
<1>6. f \in Surjection(S, T)
  BY <1>3, <1>5, FS_Injection
<1> QED
  BY <1>1, <1>6 DEF Surjection

-----------------------------------------------------------------------------
(* Texts one after the other. *)

\* It does not matter in which order three texts are joined.
LEMMA JoinAssociative ==
  ASSUME NEW x \in Seq(Nat), NEW y \in Seq(Nat), NEW z \in Seq(Nat)
  PROVE  (x \o y) \o z = x \o (y \o z)
<1>1. /\ x \o y \in Seq(Nat) /\ y \o z \in Seq(Nat)
      /\ (x \o y) \o z \in Seq(Nat) /\ x \o (y \o z) \in Seq(Nat)
  BY ConcatProperties
<1>2. /\ Len(x) \in Nat /\ Len(y) \in Nat /\ Len(z) \in Nat
      /\ Len(x \o y) = Len(x) + Len(y) /\ Len(y \o z) = Len(y) + Len(z)
      /\ Len((x \o y) \o z) = Len(x) + Len(y) + Len(z)
      /\ Len(x \o (y \o z)) = Len(x) + Len(y) + Len(z)
  BY <1>1, ConcatProperties, LenProperties
<1>3. \A i \in 1..Len(x) + Len(y) + Len(z) : ((x \o y) \o z)[i] = (x \o (y \o z))[i]
  BY <1>1, <1>2, ConcatProperties
<1> QED
  BY <1>1, <1>2, <1>3, SeqEqual
\* The texts of a document up to each segment, one after the other.
Reads(s, n, f) == f = [i \in 1..n |-> IF i = 1 THEN s[i] ELSE f[i - 1] \o s[i]]

\* There is such a function for every number of segments.
LEMMA ReadsExists ==
  ASSUME NEW s, NEW n \in Nat
  PROVE  \E f : Reads(s, n, f)
<1> DEFINE Bad == {m \in Nat : ~ \E f : Reads(s, m, f)}
<1> SUFFICES ASSUME Bad # {} PROVE FALSE
  OBVIOUS
<1> HIDE DEF Bad
<1>1. PICK m \in Bad : \A k \in Bad : m <= k
  BY LeastNatural DEF Bad
<1>2. m \in Nat /\ ~ \E f : Reads(s, m, f)
  BY DEF Bad
<1>3. m # 0
  <2>1. Reads(s, 0, [i \in 1..0 |-> s[i]])
    BY DEF Reads
  <2> QED
    BY <1>2, <2>1
<1>4. m - 1 \in Nat /\ m - 1 \notin Bad
  BY <1>1, <1>2, <1>3
<1>5. PICK f : Reads(s, m - 1, f)
  BY <1>4 DEF Bad
<1> DEFINE g == [i \in 1..m |-> IF i < m THEN f[i] ELSE IF i = 1 THEN s[i] ELSE f[i - 1] \o s[i]]
<1>6. \A i \in 1..m : g[i] = IF i = 1 THEN s[i] ELSE g[i - 1] \o s[i]
  <2> SUFFICES ASSUME NEW i \in 1..m
               PROVE  g[i] = IF i = 1 THEN s[i] ELSE g[i - 1] \o s[i]
    OBVIOUS
  <2>1. m \in Nat /\ i \in Nat
    BY <1>2
  <2>2. \A j \in 1..m - 1 : f[j] = IF j = 1 THEN s[j] ELSE f[j - 1] \o s[j]
    <3> HIDE DEF g
    <3> QED
      BY <1>5 DEF Reads
  <2>3. \A j \in 1..m : g[j] = IF j < m THEN f[j] ELSE IF j = 1 THEN s[j] ELSE f[j - 1] \o s[j]
    OBVIOUS
  <2> HIDE DEF g
  <2>4. CASE i = 1
    BY <2>1, <2>2, <2>3, <2>4
  <2>5. CASE i # 1
    <3>1. i - 1 \in 1..m /\ i - 1 < m
      BY <2>1, <2>5
    <3>2. g[i - 1] = f[i - 1]
      BY <2>3, <3>1
    <3>3. i < m => i \in 1..m - 1
      BY <2>1
    <3>4. g[i] = f[i - 1] \o s[i]
      BY <2>2, <2>3, <2>5, <3>3
    <3> QED
      BY <2>5, <3>2, <3>4
  <2> QED
    BY <2>4, <2>5
<1>7. Reads(s, m, g)
  BY <1>6 DEF Reads
<1> QED
  BY <1>2, <1>7

\* Its last value is what the operator of the library gives.
LEMMA FlattenReads ==
  ASSUME NEW s, Len(s) \in Nat \ {0}
  PROVE  \E f : Reads(s, Len(s), f) /\ FlattenSeq(s) = f[Len(s)]
<1> DEFINE f == CHOOSE g : g = [i \in 1..Len(s) |-> IF i = 1 THEN s[i] ELSE g[i - 1] \o s[i]]
<1>1. f = [i \in 1..Len(s) |-> IF i = 1 THEN s[i] ELSE f[i - 1] \o s[i]]
  BY ReadsExists DEF Reads
<1>2. FlattenSeq(s) = f[Len(s)]
  BY DEF FlattenSeq
<1> QED
  BY <1>1, <1>2 DEF Reads

\* The texts of r are those of s with the one in place k divided in two.
Divides(s, r, N, k) ==
  /\ Len(s) = N /\ Len(r) = N + 1
  /\ \A n \in 1..N : s[n] \in Seq(Nat)
  /\ \A n \in 1..N + 1 : r[n] \in Seq(Nat)
  /\ \A n \in 1..N : n < k => r[n] = s[n]
  /\ s[k] = r[k] \o r[k + 1]
  /\ \A n \in 1..N : n > k => r[n + 1] = s[n]

\* Where one text is replaced by two that make it up, the whole reads the same.
LEMMA FlattenDivided ==
  ASSUME NEW s, NEW r, NEW N \in Nat \ {0}, NEW k \in 1..N, Divides(s, r, N, k)
  PROVE  FlattenSeq(r) = FlattenSeq(s)
<1>1. /\ Len(s) \in Nat \ {0} /\ Len(r) \in Nat \ {0} /\ Len(s) = N /\ Len(r) = N + 1
      /\ k \in Nat \ {0} /\ k <= N
  BY DEF Divides
<1>2. PICK f : Reads(s, N, f) /\ FlattenSeq(s) = f[N]
  BY <1>1, FlattenReads
<1>3. PICK g : Reads(r, N + 1, g) /\ FlattenSeq(r) = g[N + 1]
  BY <1>1, FlattenReads
<1>4. \A n \in 1..N : f[n] = IF n = 1 THEN s[n] ELSE f[n - 1] \o s[n]
  BY <1>2 DEF Reads
<1>5. \A n \in 1..N + 1 : g[n] = IF n = 1 THEN r[n] ELSE g[n - 1] \o r[n]
  BY <1>3 DEF Reads
<1> DEFINE Same(n) == f[n] \in Seq(Nat) /\ (n < k => g[n] = f[n]) /\ (n >= k => g[n + 1] = f[n])
<1>6. ASSUME NEW n \in 1..N, n # 1 => Same(n - 1) PROVE Same(n)
  <2>1. n \in Nat /\ n >= 1 /\ n <= N
    OBVIOUS
  <2>2. /\ s[n] \in Seq(Nat) /\ r[n] \in Seq(Nat) /\ r[n + 1] \in Seq(Nat)
        /\ n < k => r[n] = s[n]
        /\ n = k => s[n] = r[n] \o r[n + 1]
        /\ n > k => r[n + 1] = s[n]
    <3> HIDE DEF Same
    <3>1. n \in 1..N + 1 /\ n + 1 \in 1..N + 1
      BY <2>1
    <3>2. s[n] \in Seq(Nat) /\ r[n] \in Seq(Nat) /\ r[n + 1] \in Seq(Nat)
      BY <3>1 DEF Divides
    <3>3. (n < k => r[n] = s[n]) /\ (n > k => r[n + 1] = s[n])
      BY DEF Divides
    <3>4. n = k => s[n] = r[n] \o r[n + 1]
      BY DEF Divides
    <3> QED
      BY <3>2, <3>3, <3>4
  <2>3. n # 1 => /\ f[n - 1] \in Seq(Nat)
                 /\ n <= k => g[n - 1] = f[n - 1]
                 /\ n > k => g[n] = f[n - 1]
    BY <1>1, <1>6, <2>1
  <2>4. /\ f[n] = IF n = 1 THEN s[n] ELSE f[n - 1] \o s[n]
        /\ g[n] = IF n = 1 THEN r[n] ELSE g[n - 1] \o r[n]
    BY <1>4, <1>5, <2>1
  <2>5. g[n + 1] = g[n] \o r[n + 1]
    <3>1. n + 1 \in 1..N + 1 /\ n + 1 # 1 /\ (n + 1) - 1 = n
      BY <2>1
    <3> QED
      BY <1>5, <3>1
  <2> HIDE DEF Same
  <2>6. f[n] \in Seq(Nat)
    BY <2>2, <2>3, <2>4, ConcatProperties
  <2>7. n < k => g[n] = f[n]
    BY <1>1, <2>1, <2>2, <2>3, <2>4
  <2>8. ASSUME n > k PROVE g[n + 1] = f[n]
    <3>1. n # 1
      BY <1>1, <2>1, <2>8
    <3>2. g[n] = f[n - 1] /\ f[n] = f[n - 1] \o s[n] /\ r[n + 1] = s[n]
      BY <2>2, <2>3, <2>4, <2>8, <3>1
    <3> QED
      BY <2>5, <3>2
  <2>9. ASSUME n = k PROVE g[n + 1] = f[n]
    <3>1. CASE n = 1
      BY <2>2, <2>4, <2>5, <2>9, <3>1
    <3>2. CASE n # 1
      <4>1. (f[n - 1] \o r[n]) \o r[n + 1] = f[n - 1] \o (r[n] \o r[n + 1])
        <5>1. f[n - 1] \in Seq(Nat) /\ r[n] \in Seq(Nat) /\ r[n + 1] \in Seq(Nat)
          BY <2>2, <2>3, <3>2
        <5> QED
          BY <5>1, JoinAssociative
      <4>2. g[n - 1] = f[n - 1]
        BY <2>1, <2>3, <2>9, <3>2
      <4> QED
        BY <2>2, <2>4, <2>5, <2>9, <3>2, <4>1, <4>2
    <3> QED
      BY <3>1, <3>2
  <2> QED
    BY <1>1, <2>1, <2>6, <2>7, <2>8, <2>9 DEF Same
<1> HIDE DEF Same
<1> DEFINE Bad == {n \in Nat : n \in 1..N /\ ~Same(n)}
<1>7. Bad = {}
  <2> SUFFICES ASSUME Bad # {} PROVE FALSE
    OBVIOUS
  <2>1. Bad \in SUBSET Nat
    OBVIOUS
  <2>2. \A m \in Bad : m \in Nat /\ m \in 1..N /\ ~Same(m)
    OBVIOUS
  <2>3. \A m \in Nat : m \in 1..N /\ m \notin Bad => Same(m)
    OBVIOUS
  <2> HIDE DEF Bad
  <2>4. PICK m \in Bad : \A n \in Bad : m <= n
    BY <2>1, LeastNatural
  <2>5. ASSUME m # 1 PROVE Same(m - 1)
    <3>1. m - 1 \in Nat /\ m - 1 \in 1..N /\ ~(m <= m - 1)
      BY <2>2, <2>5
    <3> QED
      BY <2>3, <2>4, <3>1
  <2> QED
    BY <1>6, <2>2, <2>4, <2>5
<1>8. N \in Nat /\ N \in 1..N
  OBVIOUS
<1>9. Same(N)
  BY <1>7, <1>8
<1> QED
  BY <1>1, <1>2, <1>3, <1>9 DEF Same

-----------------------------------------------------------------------------
(* Numbers, keys and places. *)

\* Where the second of two sequences is found in both.
LEMMA TailOf ==
  ASSUME NEW h \in Seq(Int), NEW x \in Seq(Int)
  PROVE  /\ Len(h) \in Nat /\ Len(x) \in Nat /\ Len(h \o x) = Len(h) + Len(x)
         /\ \A n \in 1..Len(x) : (h \o x)[Len(h) + n] = x[n]
<1>1. Len(h) \in Nat /\ Len(x) \in Nat
  BY LenProperties
<1>2. Len(h \o x) = Len(h) + Len(x)
  BY ConcatProperties
<1>3. ASSUME NEW n \in 1..Len(x) PROVE (h \o x)[Len(h) + n] = x[n]
  <2>1. /\ Len(h) + n \in 1..Len(h) + Len(x)
        /\ ~(Len(h) + n <= Len(h)) /\ (Len(h) + n) - Len(h) = n
    BY <1>1
  <2>2. (h \o x)[Len(h) + n] = x[(Len(h) + n) - Len(h)]
    BY <2>1, ConcatProperties
  <2> QED
    BY <2>1, <2>2
<1> QED
  BY <1>1, <1>2, <1>3

\* Sequences that agree agree after as many parts of each.
LEMMA TailsAgree ==
  ASSUME NEW h \in Seq(Int), NEW k \in Seq(Int), NEW x \in Seq(Int), NEW y \in Seq(Int),
         Len(h) = Len(k), h \o x = k \o y
  PROVE  x = y
<1>1. Len(h) \in Nat /\ Len(x) \in Nat /\ Len(y) \in Nat
  BY TailOf
<1>2. Len(h \o x) = Len(h) + Len(x) /\ Len(k \o y) = Len(k) + Len(y)
  BY TailOf
<1>3. Len(x) = Len(y)
  BY <1>1, <1>2
<1>4. ASSUME NEW n \in 1..Len(x) PROVE x[n] = y[n]
  <2>1. (h \o x)[Len(h) + n] = x[n]
    BY TailOf
  <2>2. (k \o y)[Len(k) + n] = y[n]
    BY <1>3, TailOf
  <2> QED
    BY <2>1, <2>2
<1> QED
  BY <1>3, <1>4, SeqEqual

\* The rest of a key after its first two parts is the sentence id.
LEMMA KeysTell ==
  ASSUME NEW x \in Row, NEW y \in Row, KeyOf(x) = KeyOf(y)
  PROVE  x.sid = y.sid
<1> DEFINE h == <<IF x.index >= 0 THEN 0 ELSE 1, x.index>>
           k == <<IF y.index >= 0 THEN 0 ELSE 1, y.index>>
<1>1. h \in Seq(Int) /\ Len(h) = 2 /\ k \in Seq(Int) /\ Len(k) = 2
  BY Bounds DEF Row
<1>2. x.sid \in Seq(Int) /\ y.sid \in Seq(Int)
  BY DEF Row
<1>3. h \o x.sid = k \o y.sid
  BY DEF KeyOf
<1> HIDE DEF h, k
<1> QED
  BY <1>1, <1>2, <1>3, TailsAgree

\* Where sentence ids are unique, the keys of a document are apart.
LEMMA RowsApart ==
  ASSUME NEW t \in Table, \A i, j \in Rows(t) : t[i].sid = t[j].sid => i = j
  PROVE  KeysApart(Keys(t), Rows(t)) /\ IsFiniteSet(Rows(t))
<1>1. \A i \in Rows(t) : t[i] \in Row /\ Keys(t)[i] = KeyOf(t[i])
  BY DEF Table, Rows, Keys
<1>2. \A i \in Rows(t) : Keys(t)[i] \in Key
  BY <1>1, KeyType
<1>3. \A i, j \in Rows(t) : Keys(t)[i] = Keys(t)[j] => i = j
  BY <1>1, KeysTell
<1>4. IsFiniteSet(1..MaxRows) /\ Rows(t) \in SUBSET (1..MaxRows)
  BY Bounds, FS_Interval DEF Rows, Ids
<1>5. IsFiniteSet(Rows(t))
  BY <1>4, FS_Subset
<1> QED
  BY <1>2, <1>3, <1>5 DEF KeysApart

\* A request that nothing has disturbed locks all rows of the document, with the
\* keys they have, and knows their indexes.
LEMMA Known ==
  ASSUME TypeOK, NEW u \in Users, req[u] # None, Undisturbed(u)
  PROVE  /\ req[u].order = Keys(seg) /\ Locked(req[u]) = Rows(seg)
         /\ seg[req[u].first] = req[u].old
         /\ req[u].op # "split" => seg[req[u].second] = req[u].other
         /\ \A i \in Ids : KnownIndex(req[u], i) = seg[i].index
<1>1. req[u].order = Keys(seg) /\ seg[req[u].first] = req[u].old
  BY DEF Undisturbed
<1>2. req[u].second # None => seg[req[u].second] = req[u].other
  BY DEF Undisturbed
<1>3. seg \in Table
  BY DEF TypeOK, Table
<1>4. \A i \in Rows(seg) : Keys(seg)[i] # None
  <2>1. \A i \in Rows(seg) : seg[i] \in Row /\ Keys(seg)[i] = KeyOf(seg[i])
    BY <1>3 DEF Table, Rows, Keys
  <2> QED
    BY <2>1, KeyType, Distinct
<1>5. Locked(req[u]) = Rows(seg)
  BY <1>1, <1>4 DEF Locked
<1>6. \A i \in Ids : KnownIndex(req[u], i) = seg[i].index
  BY <1>1, <1>2, Distinct DEF KnownIndex
<1>7. req[u].op # "split" => req[u].second # None
  BY RequestParts, Distinct
<1> QED
  BY <1>1, <1>2, <1>5, <1>6, <1>7

\* The number a row gets.
Number(S, first, gap, i) ==
  IF Position(Keys(seg), S, i) > Position(Keys(seg), S, first)
  THEN Position(Keys(seg), S, i) + gap ELSE Position(Keys(seg), S, i)

\* Then each row gets the number of its place, and keeps its texts.
LEMMA NumberedAgain ==
  ASSUME TypeOK, NEW u \in Users, req[u] # None, Undisturbed(u),
         NEW S \in SUBSET Rows(seg), NEW gap \in {0, 1}, NEW i \in S
  PROVE  /\ Renumbered(req[u], S, gap)[i].index = Number(S, req[u].first, gap, i)
         /\ Renumbered(req[u], S, gap)[i].source = seg[i].source
         /\ Renumbered(req[u], S, gap)[i].target = seg[i].target
<1> DEFINE n == Number(S, req[u].first, gap, i)
<1>1. i \in Ids /\ seg[i] \in Row
  BY DEF Rows, TypeOK
<1>2. req[u].order = Keys(seg) /\ KnownIndex(req[u], i) = seg[i].index
  BY <1>1, Known
<1>3. Flush(seg[i].index, KnownIndex(req[u], i), n) = n
  BY <1>2 DEF Flush
<1>4. Renumbered(req[u], S, gap)[i] = [seg[i] EXCEPT !.index = n]
  BY <1>1, <1>2, <1>3 DEF Renumbered, Number
<1> HIDE DEF n
<1>5. /\ [seg[i] EXCEPT !.index = n].index = n
      /\ [seg[i] EXCEPT !.index = n].source = seg[i].source
      /\ [seg[i] EXCEPT !.index = n].target = seg[i].target
  BY <1>1 DEF Row
<1> QED
  BY <1>4, <1>5 DEF n

\* The place of a row in its table.
Place(t, i) == Position(Keys(t), Rows(t), i)

\* The rows of a table are numbered from zero, each with a number of its own.
Numbered(t) ==
  /\ \A i \in Rows(t) : t[i].index \in 0..Cardinality(Rows(t)) - 1
  /\ \A i, j \in Rows(t) : t[i].index = t[j].index => i = j

\* The rows of a table are finitely many.
LEMMA RowsFinite == ASSUME NEW t PROVE IsFiniteSet(Rows(t)) /\ Cardinality(Rows(t)) \in Nat
<1>1. IsFiniteSet(1..MaxRows) /\ Rows(t) \in SUBSET (1..MaxRows)
  BY Bounds, FS_Interval DEF Rows, Ids
<1> QED
  BY <1>1, FS_Subset, FS_CardinalityType

\* Then every number below the number of rows is the number of one.
LEMMA NumbersUsed ==
  ASSUME NEW t, Numbered(t)
  PROVE  {t[i].index : i \in Rows(t)} = 0..Cardinality(Rows(t)) - 1
<1> DEFINE S == Rows(t)
           T == 0..Cardinality(S) - 1
           f == [i \in S |-> t[i].index]
<1>1. IsFiniteSet(S) /\ Cardinality(S) \in Nat
  BY RowsFinite
<1>2. IsFiniteSet(T) /\ Cardinality(T) = Cardinality(S)
  BY <1>1, FS_Interval
<1>3. f \in Injection(S, T)
  BY DEF Injection, IsInjective, Numbered
<1>4. f \in Surjection(S, T)
  BY <1>1, <1>2, <1>3, FS_Injection
<1>5. \A n \in T : \E i \in S : t[i].index = n
  BY <1>4 DEF Surjection
<1>6. \A i \in S : t[i].index \in T
  BY DEF Numbered
<1> QED
  BY <1>5, <1>6

\* Where the first of two sequences is found in both, if it has two parts.
LEMMA HeadOf ==
  ASSUME NEW h \in Seq(Int), NEW x \in Seq(Int), Len(h) = 2
  PROVE  2 <= Len(h \o x) /\ (h \o x)[1] = h[1] /\ (h \o x)[2] = h[2]
<1>1. Len(x) \in Nat /\ Len(h \o x) = Len(h) + Len(x)
  BY TailOf
<1>2. 1 \in 1..Len(h) + Len(x) /\ 2 \in 1..Len(h) + Len(x)
  BY <1>1
<1>3. \A n \in 1..Len(h) + Len(x) : (h \o x)[n] = IF n <= Len(h) THEN h[n] ELSE x[n - Len(h)]
  BY ConcatProperties
<1> QED
  BY <1>1, <1>2, <1>3

\* Keys that begin alike and differ next go by what is next.
LEMMA HeadsOrder ==
  ASSUME NEW a \in Key, NEW b \in Key, 2 <= Len(a), 2 <= Len(b), a[1] = b[1], a[2] # b[2]
  PROVE  Less(a, b) <=> a[2] < b[2]
<1>1. /\ DOMAIN a = 1..Len(a) /\ DOMAIN b = 1..Len(b) /\ Len(a) \in Nat /\ Len(b) \in Nat
      /\ a[1] \in Int /\ a[2] \in Int /\ b[2] \in Int
  BY KeyParts
<1>2. ASSUME a[2] < b[2] PROVE Less(a, b)
  <2>1. 2 \in DOMAIN b /\ \A m \in 1..2 - 1 : m \in DOMAIN a /\ a[m] = b[m]
    BY <1>1
  <2> QED
    BY <1>2, <2>1 DEF Less
<1>3. ASSUME Less(a, b) PROVE a[2] < b[2]
  <2>1. PICK n \in DOMAIN b : /\ \A m \in 1..n - 1 : m \in DOMAIN a /\ a[m] = b[m]
                              /\ n \in DOMAIN a => a[n] < b[n]
    BY <1>3 DEF Less
  <2>2. n \in Nat /\ n >= 1 /\ 1 \in DOMAIN a /\ 2 \in DOMAIN a
    BY <1>1, <2>1
  <2>3. n # 1
    BY <1>1, <2>1, <2>2
  <2>4. ~(n > 2)
    <3> SUFFICES ASSUME n > 2 PROVE FALSE
      OBVIOUS
    <3>1. 2 \in 1..n - 1
      BY <2>2
    <3> QED
      BY <2>1, <3>1
  <2>5. n = 2
    BY <2>2, <2>3, <2>4
  <2> QED
    BY <2>1, <2>2, <2>5
<1> QED
  BY <1>2, <1>3

\* Of two rows with indexes from zero, the one with the lower index is less.
LEMMA IndexesOrder ==
  ASSUME NEW x \in Row, NEW y \in Row, x.index >= 0, y.index >= 0, x.index # y.index
  PROVE  Less(KeyOf(x), KeyOf(y)) <=> x.index < y.index
<1> DEFINE hx == <<IF x.index >= 0 THEN 0 ELSE 1, x.index>>
           hy == <<IF y.index >= 0 THEN 0 ELSE 1, y.index>>
<1>1. /\ hx \in Seq(Int) /\ Len(hx) = 2 /\ hx[1] = 0 /\ hx[2] = x.index
      /\ hy \in Seq(Int) /\ Len(hy) = 2 /\ hy[1] = 0 /\ hy[2] = y.index
      /\ x.index \in Int /\ y.index \in Int
  BY Bounds DEF Row
<1>2. x.sid \in Seq(Int) /\ y.sid \in Seq(Int) /\ KeyOf(x) = hx \o x.sid /\ KeyOf(y) = hy \o y.sid
  BY DEF Row, KeyOf
<1> HIDE DEF hx, hy
<1>3. /\ 2 <= Len(KeyOf(x)) /\ KeyOf(x)[1] = 0 /\ KeyOf(x)[2] = x.index
  BY <1>1, <1>2, HeadOf
<1>4. /\ 2 <= Len(KeyOf(y)) /\ KeyOf(y)[1] = 0 /\ KeyOf(y)[2] = y.index
  BY <1>1, <1>2, HeadOf
<1> QED
  BY <1>1, <1>3, <1>4, HeadsOrder, KeyType

\* In a numbered table the number of a row is its place.
LEMMA NumbersArePlaces ==
  ASSUME NEW t \in Table, Numbered(t), NEW i \in Rows(t)
  PROVE  Place(t, i) = t[i].index
<1> DEFINE N == Cardinality(Rows(t))
           B == {j \in Rows(t) : t[j].index < t[i].index}
           f == [j \in B |-> t[j].index]
           T == 0..t[i].index - 1
<1>1. N \in Nat /\ t[i].index \in 0..N - 1 /\ IsFiniteSet(Rows(t))
  BY RowsFinite DEF Numbered
<1>2. \A j \in Rows(t) : t[j] \in Row /\ t[j].index \in 0..N - 1
  BY DEF Table, Rows, Numbered
<1>3. \A j \in Rows(t) : Keys(t)[j] = KeyOf(t[j])
  BY DEF Rows, Keys
<1>4. ASSUME NEW j \in Rows(t) PROVE Less(Keys(t)[j], Keys(t)[i]) <=> t[j].index < t[i].index
  <2>1. t[j].index \in Int /\ t[i].index \in Int /\ t[j].index >= 0 /\ t[i].index >= 0
    BY <1>1, <1>2
  <2>2. CASE t[j].index = t[i].index
    <3>1. i = j
      BY <2>2 DEF Numbered
    <3>2. Keys(t)[i] \in Key
      BY <1>2, <1>3, KeyType
    <3> QED
      BY <2>1, <3>1, <3>2, LessIrreflexive
  <2>3. CASE t[j].index # t[i].index
    BY <1>2, <1>3, <2>1, <2>3, IndexesOrder
  <2> QED
    BY <2>2, <2>3
<1>5. Place(t, i) = Cardinality(B)
  BY <1>4 DEF Place, Position
<1>6. IsFiniteSet(B)
  BY <1>1, FS_Subset
<1>7. \A j \in B : f[j] \in T
  BY <1>1, <1>2
<1>8. \A n \in T : \E j \in B : f[j] = n
  <2> SUFFICES ASSUME NEW n \in T PROVE \E j \in B : f[j] = n
    OBVIOUS
  <2>1. n \in 0..N - 1 /\ n < t[i].index
    BY <1>1
  <2>2. PICK j \in Rows(t) : t[j].index = n
    BY <2>1, NumbersUsed
  <2> QED
    BY <2>1, <2>2
<1>9. \A j, k \in B : f[j] = f[k] => j = k
  BY DEF Numbered
<1>10. f \in Injection(B, T) /\ f \in Surjection(B, T)
  BY <1>7, <1>8, <1>9 DEF Injection, Surjection, IsInjective
<1>11. Cardinality(T) = t[i].index /\ IsFiniteSet(T)
  <2>1. t[i].index \in Nat /\ 0 \in Int /\ t[i].index - 1 \in Int
    BY <1>1
  <2>2. IsFiniteSet(T) /\ Cardinality(T) = IF 0 > t[i].index - 1 THEN 0 ELSE (t[i].index - 1) - 0 + 1
    BY <2>1, FS_Interval
  <2> HIDE DEF T
  <2> QED
    BY <2>1, <2>2
<1> HIDE DEF f, B, T
<1>12. Cardinality(B) = Cardinality(T)
  BY <1>10, <1>11, FS_Injection
<1> QED
  BY <1>5, <1>11, <1>12

\* Without a row those behind it move up by one.
LEMMA PositionsWithout ==
  ASSUME NEW keys, NEW S, IsFiniteSet(S), KeysApart(keys, S), NEW g \in S, NEW i \in S \ {g}
  PROVE  /\ Position(keys, S \ {g}, i) \in Nat /\ Position(keys, S, i) \in Nat /\ Position(keys, S, g) \in Nat
         /\ Position(keys, S, i) = IF Position(keys, S, i) > Position(keys, S, g)
                                   THEN Position(keys, S \ {g}, i) + 1 ELSE Position(keys, S \ {g}, i)
<1> DEFINE B == {j \in S \ {g} : Less(keys[j], keys[i])}
           C == {j \in S : Less(keys[j], keys[i])}
<1>1. IsFiniteSet(S \ {g})
  BY FS_RemoveElement
<1>2. Position(keys, S \ {g}, i) \in Nat /\ Position(keys, S, i) \in Nat /\ Position(keys, S, g) \in Nat
  BY <1>1, PositionType
<1>3. Position(keys, S, g) < Position(keys, S, i) <=> Less(keys[g], keys[i])
  BY PositionsGrow
<1>4. Position(keys, S \ {g}, i) = Cardinality(B) /\ Position(keys, S, i) = Cardinality(C)
  BY DEF Position
<1>5. IsFiniteSet(B)
  BY <1>1, FS_Subset
<1>6. CASE Less(keys[g], keys[i])
  <2>1. C = B \cup {g} /\ g \notin B
    BY <1>6
  <2>2. Cardinality(B \cup {g}) = Cardinality(B) + 1
    BY <1>5, <2>1, FS_AddElement
  <2> QED
    BY <1>2, <1>3, <1>4, <1>6, <2>1, <2>2
<1>7. CASE ~Less(keys[g], keys[i])
  <2>1. C = B
    BY <1>7
  <2> QED
    BY <1>2, <1>3, <1>4, <1>7, <2>1
<1> QED
  BY <1>6, <1>7

\* The rows in their order, one for each place.
LEMMA OrderedRows ==
  ASSUME NEW t, KeysApart(Keys(t), Rows(t)), NEW n \in 1..Cardinality(Rows(t))
  PROVE  /\ InOrder(t)[n] \in Rows(t) /\ Place(t, InOrder(t)[n]) = n - 1
         /\ \A i \in Rows(t) : Place(t, i) = n - 1 => InOrder(t)[n] = i
<1>1. IsFiniteSet(Rows(t)) /\ Cardinality(Rows(t)) \in Nat
  BY RowsFinite
<1>2. n - 1 \in 0..Cardinality(Rows(t)) - 1
  BY <1>1
<1>3. \E i \in Rows(t) : Position(Keys(t), Rows(t), i) = n - 1
  BY <1>1, <1>2, PositionsNumber
<1>4. InOrder(t)[n] = CHOOSE i \in Rows(t) : Position(Keys(t), Rows(t), i) = n - 1
  BY DEF InOrder
<1>5. InOrder(t)[n] \in Rows(t) /\ Position(Keys(t), Rows(t), InOrder(t)[n]) = n - 1
  BY <1>3, <1>4
<1>6. \A i, j \in Rows(t) : Position(Keys(t), Rows(t), i) = Position(Keys(t), Rows(t), j) => i = j
  BY <1>1, PositionsNumber
<1> QED
  BY <1>5, <1>6 DEF Place

-----------------------------------------------------------------------------
(* A segment divided in two, in one direction or the other. *)

\* Table r is table t with the segment of row f divided in two, f and g.
Divided(t, r, f, g) ==
  /\ f \in Rows(t) /\ g \notin Rows(t) /\ Rows(r) = Rows(t) \cup {g}
  /\ \A i \in Rows(t) : Place(r, i) = IF Place(t, i) > Place(t, f) THEN Place(t, i) + 1 ELSE Place(t, i)
  /\ Place(r, g) = Place(t, f) + 1
  /\ \A i \in Rows(t) : i # f => r[i].source = t[i].source /\ r[i].target = t[i].target
  /\ t[f].source = r[f].source \o r[g].source
  /\ t[f].target = r[f].target \o r[g].target

\* Its rows in order are those of t, with g after f.
LEMMA DividedOrder ==
  ASSUME NEW t, NEW r, NEW f, NEW g, Divided(t, r, f, g),
         KeysApart(Keys(t), Rows(t)), KeysApart(Keys(r), Rows(r))
  PROVE  /\ Cardinality(Rows(t)) \in Nat \ {0} /\ Cardinality(Rows(r)) = Cardinality(Rows(t)) + 1
         /\ Place(t, f) \in 0..Cardinality(Rows(t)) - 1
         /\ InOrder(t)[Place(t, f) + 1] = f
         /\ InOrder(r)[Place(t, f) + 1] = f
         /\ InOrder(r)[Place(t, f) + 2] = g
         /\ \A n \in 1..Cardinality(Rows(t)) : /\ n < Place(t, f) + 1 => InOrder(r)[n] = InOrder(t)[n]
                                               /\ n > Place(t, f) + 1 => InOrder(r)[n + 1] = InOrder(t)[n]
                                               /\ InOrder(t)[n] \in Rows(t)
                                               /\ n # Place(t, f) + 1 => InOrder(t)[n] # f
<1> DEFINE N == Cardinality(Rows(t))
<1>1. N \in Nat /\ IsFiniteSet(Rows(t))
  BY RowsFinite
<1>2. Rows(r) = Rows(t) \cup {g} /\ g \notin Rows(t) /\ f \in Rows(t)
  BY DEF Divided
<1>3. Cardinality(Rows(r)) = N + 1
  BY <1>1, <1>2, FS_AddElement
<1>4. Place(t, f) \in 0..N - 1
  BY <1>1, <1>2, PositionType DEF Place, KeysApart
<1>5. \A n \in 1..N : /\ InOrder(t)[n] \in Rows(t) /\ Place(t, InOrder(t)[n]) = n - 1
                      /\ \A i \in Rows(t) : Place(t, i) = n - 1 => InOrder(t)[n] = i
  BY OrderedRows
<1>6. \A n \in 1..N + 1 : \A i \in Rows(r) : Place(r, i) = n - 1 => InOrder(r)[n] = i
  BY <1>3, OrderedRows
<1>7. \A i \in Rows(t) : Place(r, i) = IF Place(t, i) > Place(t, f) THEN Place(t, i) + 1 ELSE Place(t, i)
  BY DEF Divided
<1>8. Place(r, g) = Place(t, f) + 1
  BY DEF Divided
<1> DEFINE k == Place(t, f) + 1
<1>9. k \in 1..N /\ k \in 1..N + 1 /\ k + 1 \in 1..N + 1 /\ Place(t, f) = k - 1
  BY <1>1, <1>4
<1>10. InOrder(t)[k] = f
  BY <1>2, <1>5, <1>9
<1>11. InOrder(r)[k] = f
  <2>1. Place(r, f) = k - 1 /\ f \in Rows(r)
    BY <1>2, <1>4, <1>7
  <2> QED
    BY <1>6, <1>9, <2>1
<1>12. InOrder(r)[k + 1] = g
  <2>1. Place(r, g) = (k + 1) - 1 /\ g \in Rows(r)
    BY <1>2, <1>4, <1>8
  <2> QED
    BY <1>6, <1>9, <2>1
<1>13. ASSUME NEW n \in 1..N
       PROVE  /\ n < k => InOrder(r)[n] = InOrder(t)[n]
              /\ n > k => InOrder(r)[n + 1] = InOrder(t)[n]
              /\ InOrder(t)[n] \in Rows(t)
              /\ n # k => InOrder(t)[n] # f
  <2> DEFINE i == InOrder(t)[n]
  <2>1. i \in Rows(t) /\ Place(t, i) = n - 1 /\ i \in Rows(r)
    BY <1>2, <1>5
  <2>2. Place(r, i) = IF n - 1 > k - 1 THEN (n - 1) + 1 ELSE n - 1
    BY <1>7, <1>9, <2>1
  <2>3. n \in 1..N + 1 /\ n + 1 \in 1..N + 1 /\ n \in Nat /\ k \in Nat
    BY <1>1, <1>9
  <2> HIDE DEF i, k
  <2>4. n < k => Place(r, i) = n - 1
    BY <2>2, <2>3
  <2>5. n > k => Place(r, i) = (n + 1) - 1
    BY <2>2, <2>3
  <2>6. n < k => InOrder(r)[n] = i
    BY <1>6, <2>1, <2>3, <2>4
  <2>7. n > k => InOrder(r)[n + 1] = i
    BY <1>6, <2>1, <2>3, <2>5
  <2>8. n # k => i # f
    BY <1>9, <2>1, <2>3
  <2> QED
    BY <2>1, <2>6, <2>7, <2>8 DEF i
<1>14. k + 1 = Place(t, f) + 2 /\ N \in Nat \ {0}
  BY <1>1, <1>4
<1> QED
  BY <1>3, <1>4, <1>10, <1>11, <1>12, <1>13, <1>14

\* The texts of the two tables, one of the columns.
LEMMA DividedTexts ==
  ASSUME NEW t \in Table, NEW r \in Table, NEW f, NEW g, Divided(t, r, f, g),
         KeysApart(Keys(t), Rows(t)), KeysApart(Keys(r), Rows(r))
  PROVE  Reading(r, Source) = Reading(t, Source) /\ Reading(r, Target) = Reading(t, Target)
<1> DEFINE N == Cardinality(Rows(t))
           k == Place(t, f) + 1
           o == InOrder(t)
           p == InOrder(r)
<1>1. /\ N \in Nat \ {0} /\ Cardinality(Rows(r)) = N + 1 /\ k \in 1..N
      /\ o[k] = f /\ p[k] = f /\ p[k + 1] = g
  <2>1. Place(t, f) + 2 = k + 1 /\ k \in 1..N
    BY DividedOrder
  <2> QED
    BY <2>1, DividedOrder
<1>2. \A n \in 1..N : /\ n < k => p[n] = o[n]
                      /\ n > k => p[n + 1] = o[n]
                      /\ o[n] \in Rows(t)
                      /\ n # k => o[n] # f
  BY DividedOrder
<1>3. \A n \in 1..N + 1 : p[n] \in Rows(r)
  BY <1>1, OrderedRows
<1>4. \A i \in Rows(t) : t[i].source \in Seq(Nat) /\ t[i].target \in Seq(Nat)
  BY DEF Table, Rows, Row
<1>5. \A i \in Rows(r) : r[i].source \in Seq(Nat) /\ r[i].target \in Seq(Nat)
  BY DEF Table, Rows, Row
<1>6. /\ \A i \in Rows(t) : i # f => r[i].source = t[i].source /\ r[i].target = t[i].target
      /\ t[f].source = r[f].source \o r[g].source
      /\ t[f].target = r[f].target \o r[g].target
  BY DEF Divided
<1> HIDE DEF N, k, o, p
<1> DEFINE s1 == [n \in 1..N |-> t[o[n]].source]
           r1 == [n \in 1..N + 1 |-> r[p[n]].source]
           s2 == [n \in 1..N |-> t[o[n]].target]
           r2 == [n \in 1..N + 1 |-> r[p[n]].target]
<1>7. Len(s1) = N /\ Len(r1) = N + 1 /\ Len(s2) = N /\ Len(r2) = N + 1
  BY <1>1
<1>8. k \in 1..N + 1 /\ k + 1 \in 1..N + 1 /\ \A n \in 1..N : n \in 1..N + 1 /\ n + 1 \in 1..N + 1
  BY <1>1
<1>9. Divides(s1, r1, N, k)
  <2>1. \A n \in 1..N : s1[n] \in Seq(Nat)
    BY <1>2, <1>4
  <2>2. \A n \in 1..N + 1 : r1[n] \in Seq(Nat)
    BY <1>3, <1>5
  <2>3. ASSUME NEW n \in 1..N, n # k PROVE r[o[n]].source = t[o[n]].source
    BY <1>2, <1>6, <2>3
  <2>4. ASSUME NEW n \in 1..N, n < k PROVE r1[n] = s1[n]
    <3>1. n # k /\ p[n] = o[n]
      BY <1>1, <1>2, <2>4
    <3> QED
      BY <1>8, <2>3, <3>1
  <2>5. ASSUME NEW n \in 1..N, n > k PROVE r1[n + 1] = s1[n]
    <3>1. n # k /\ p[n + 1] = o[n]
      BY <1>1, <1>2, <2>5
    <3> QED
      BY <1>8, <2>3, <3>1
  <2>6. s1[k] = r1[k] \o r1[k + 1]
    BY <1>1, <1>6, <1>8
  <2> HIDE DEF s1, r1
  <2> QED
    BY <1>7, <2>1, <2>2, <2>4, <2>5, <2>6 DEF Divides
<1>10. Divides(s2, r2, N, k)
  <2>1. \A n \in 1..N : s2[n] \in Seq(Nat)
    BY <1>2, <1>4
  <2>2. \A n \in 1..N + 1 : r2[n] \in Seq(Nat)
    BY <1>3, <1>5
  <2>3. ASSUME NEW n \in 1..N, n # k PROVE r[o[n]].target = t[o[n]].target
    BY <1>2, <1>6, <2>3
  <2>4. ASSUME NEW n \in 1..N, n < k PROVE r2[n] = s2[n]
    <3>1. n # k /\ p[n] = o[n]
      BY <1>1, <1>2, <2>4
    <3> QED
      BY <1>8, <2>3, <3>1
  <2>5. ASSUME NEW n \in 1..N, n > k PROVE r2[n + 1] = s2[n]
    <3>1. n # k /\ p[n + 1] = o[n]
      BY <1>1, <1>2, <2>5
    <3> QED
      BY <1>8, <2>3, <3>1
  <2>6. s2[k] = r2[k] \o r2[k + 1]
    BY <1>1, <1>6, <1>8
  <2> HIDE DEF s2, r2
  <2> QED
    BY <1>7, <2>1, <2>2, <2>4, <2>5, <2>6 DEF Divides
<1>11. /\ Reading(t, Source) = FlattenSeq(s1) /\ Reading(r, Source) = FlattenSeq(r1)
       /\ Reading(t, Target) = FlattenSeq(s2) /\ Reading(r, Target) = FlattenSeq(r2)
  BY <1>1 DEF Reading, Source, Target, N, o, p
<1> HIDE DEF s1, r1, s2, r2
<1> QED
  BY <1>1, <1>9, <1>10, <1>11, FlattenDivided

\* A refresh of the display indexes leaves rows, places, indexes and texts.
LEMMA DisplayedReads ==
  ASSUME NEW t \in Table
  PROVE  /\ \A i \in Rows(t) : /\ Displayed(t)[i].index = t[i].index
                               /\ Displayed(t)[i].source = t[i].source
                               /\ Displayed(t)[i].target = t[i].target
         /\ KeysApart(Keys(t), Rows(t)) =>
              /\ Reading(Displayed(t), Source) = Reading(t, Source)
              /\ Reading(Displayed(t), Target) = Reading(t, Target)
<1>1. Rows(Displayed(t)) = Rows(t) /\ Keys(Displayed(t)) = Keys(t)
  BY DisplayedSame
<1>2. ASSUME NEW i \in Rows(t)
      PROVE  /\ Displayed(t)[i].index = t[i].index
             /\ Displayed(t)[i].source = t[i].source
             /\ Displayed(t)[i].target = t[i].target
  <2>1. t[i] \in Row /\ i \in Ids /\ t[i] # None
    BY DEF Table, Rows
  <2>2. Displayed(t)[i] = [t[i] EXCEPT !.display = Position(Keys(t), Rows(t), i)]
    BY <2>1 DEF Displayed
  <2> QED
    BY <2>1, <2>2 DEF Row
<1>3. InOrder(Displayed(t)) = InOrder(t)
  BY <1>1 DEF InOrder
<1>4. ASSUME KeysApart(Keys(t), Rows(t))
      PROVE  /\ Reading(Displayed(t), Source) = Reading(t, Source)
             /\ Reading(Displayed(t), Target) = Reading(t, Target)
  <2>1. \A n \in 1..Cardinality(Rows(t)) : InOrder(t)[n] \in Rows(t)
    BY <1>4, OrderedRows
  <2>2. [n \in 1..Cardinality(Rows(t)) |-> Displayed(t)[InOrder(t)[n]].source]
          = [n \in 1..Cardinality(Rows(t)) |-> t[InOrder(t)[n]].source]
    BY <1>2, <2>1
  <2>3. [n \in 1..Cardinality(Rows(t)) |-> Displayed(t)[InOrder(t)[n]].target]
          = [n \in 1..Cardinality(Rows(t)) |-> t[InOrder(t)[n]].target]
    BY <1>2, <2>1
  <2> QED
    BY <1>1, <1>3, <2>2, <2>3 DEF Reading, Source, Target
<1> QED
  BY <1>2, <1>4

\* The two parts of a text make it up.
LEMMA PartsMakeIt ==
  ASSUME NEW s \in Seq(Nat), NEW n \in 0..Len(s)
  PROVE  SubSeq(s, 1, n) \o SubSeq(s, n + 1, Len(s)) = s
<1>1. Len(s) \in Nat
  BY LenProperties
<1>2. 1 \in 1..Len(s) + 1 /\ n \in 1 - 1..Len(s) /\ Len(s) \in n..Len(s)
  BY <1>1
<1>3. SubSeq(s, 1, n) \o SubSeq(s, n + 1, Len(s)) = SubSeq(s, 1, Len(s))
  BY <1>2, ConcatAdjacentSubSeq
<1> QED
  BY <1>3, SubSeqFull

\* What an undisturbed split writes: a table with the segment divided in two,
\* and numbered.
LEMMA SplitWrites ==
  ASSUME StructureInv, NEW u \in Users, Split(u), Undisturbed(u)
  PROVE  \E t \in Table : /\ seg' = Displayed(t) /\ Numbered(t)
                          /\ Divided(seg, t, req[u].first, used + 1)
<1> DEFINE q     == req[u]
           f     == q.first
           moved == Renumbered(q, Locked(q), 1)
           p(i)  == Place(seg, i)
           N     == Cardinality(Rows(seg))
<1>1. TypeOK /\ seg \in Table /\ KeysApart(Keys(seg), Rows(seg)) /\ IsFiniteSet(Rows(seg))
  BY RowsApart DEF StructureInv, TypeOK, SentenceIdsUnique, Table
<1>2. q # None /\ q.op = "split" /\ used < MaxRows /\ f \in Locked(q)
  BY DEF Split
<1>3. q.old \in Row /\ q.cut \in 0..Len(q.old.source)
  BY <1>1, <1>2, RequestParts
<1>4. Locked(q) = Rows(seg) /\ q.order = Keys(seg) /\ seg[f] = q.old /\ f \in Rows(seg)
  BY <1>1, <1>2, Known
<1>5. PICK n \in 1..MaxRows, cut \in 0..Len(q.old.target) : seg' = Displayed(Halved(q, n, cut))
  BY DEF Split
<1> DEFINE t == Halved(q, n, cut)
<1>6. /\ t \in Table
      /\ Rows(t) = Rows(seg) \cup {used + 1} /\ used + 1 \notin Rows(seg)
      /\ \A i \in Rows(seg) : (i # f => t[i] = moved[i]) /\ t[i].index = moved[i].index
      /\ t[f].source = Flush(moved[f].source, q.old.source, SubSeq(q.old.source, 1, q.cut))
      /\ t[f].target = Flush(moved[f].target, q.old.target, SubSeq(q.old.target, 1, cut))
      /\ t[used + 1].index = Position(q.order, Locked(q), f) + 1
      /\ t[used + 1].source = SubSeq(q.old.source, q.cut + 1, Len(q.old.source))
      /\ t[used + 1].target = SubSeq(q.old.target, cut + 1, Len(q.old.target))
  BY <1>1, <1>2, HalvedTable
<1>7. moved = Renumbered(q, Rows(seg), 1)
  BY <1>4
<1>8. seg' = Displayed(t)
  BY <1>5
<1> HIDE DEF t, moved
<1>9. ASSUME NEW i \in Rows(seg)
      PROVE  /\ moved[i].index = IF p(i) > p(f) THEN p(i) + 1 ELSE p(i)
             /\ moved[i].source = seg[i].source
             /\ moved[i].target = seg[i].target
  <2>1. TypeOK /\ req[u] # None /\ Rows(seg) \subseteq Rows(seg)
    BY <1>1, <1>2
  <2>2. /\ Renumbered(req[u], Rows(seg), 1)[i].index = Number(Rows(seg), req[u].first, 1, i)
        /\ Renumbered(req[u], Rows(seg), 1)[i].source = seg[i].source
        /\ Renumbered(req[u], Rows(seg), 1)[i].target = seg[i].target
    BY <2>1, NumberedAgain
  <2>3. Number(Rows(seg), f, 1, i) = IF p(i) > p(f) THEN p(i) + 1 ELSE p(i)
    BY DEF Number, Place
  <2> HIDE DEF p
  <2> QED
    BY <1>7, <2>2, <2>3
<1>10. t[used + 1].index = p(f) + 1
  BY <1>4, <1>6 DEF Place
<1>11. N \in Nat /\ \A i \in Rows(seg) : p(i) \in 0..N - 1
  BY <1>1, RowsFinite, PositionType DEF Place, KeysApart
<1>12. \A i, j \in Rows(seg) : p(i) = p(j) => i = j
  BY <1>1, PositionsNumber DEF Place
<1>13. Cardinality(Rows(t)) = N + 1
  BY <1>1, <1>6, FS_AddElement
<1> HIDE DEF p, N
<1>14. Numbered(t)
  <2>1. \A i \in Rows(seg) : t[i].index = IF p(i) > p(f) THEN p(i) + 1 ELSE p(i)
    BY <1>6, <1>9
  <2>2. \A i \in Rows(seg) : t[i].index \in 0..N /\ t[i].index # p(f) + 1
    BY <1>4, <1>11, <2>1
  <2>3. \A i, j \in Rows(seg) : t[i].index = t[j].index => i = j
    <3> SUFFICES ASSUME NEW i \in Rows(seg), NEW j \in Rows(seg), t[i].index = t[j].index
                 PROVE  i = j
      OBVIOUS
    <3>1. p(i) \in Nat /\ p(j) \in Nat /\ p(f) \in Nat
      BY <1>4, <1>11
    <3>2. p(i) = p(j)
      BY <2>1, <3>1
    <3> QED
      BY <1>12, <3>2
  <2>4. t[used + 1].index \in 0..N
    BY <1>4, <1>10, <1>11
  <2>5. \A i \in Rows(t) : i \in Rows(seg) \/ i = used + 1
    BY <1>6
  <2>6. \A i \in Rows(t) : t[i].index \in 0..Cardinality(Rows(t)) - 1
    BY <1>11, <1>13, <2>2, <2>4, <2>5
  <2>7. \A i, j \in Rows(t) : t[i].index = t[j].index => i = j
    BY <1>10, <2>2, <2>3, <2>5
  <2> QED
    BY <2>6, <2>7 DEF Numbered
<1>15. \A i \in Rows(t) : Place(t, i) = t[i].index
  BY <1>6, <1>14, NumbersArePlaces
<1>16. /\ t[f].source = SubSeq(q.old.source, 1, q.cut)
       /\ t[f].target = SubSeq(q.old.target, 1, cut)
  <2>1. moved[f].source = q.old.source /\ moved[f].target = q.old.target
    BY <1>4, <1>9
  <2> QED
    BY <1>6, <2>1 DEF Flush
<1>17. /\ seg[f].source = t[f].source \o t[used + 1].source
       /\ seg[f].target = t[f].target \o t[used + 1].target
  <2>1. q.old.source \in Seq(Nat) /\ q.old.target \in Seq(Nat)
    BY <1>3 DEF Row
  <2>2. SubSeq(q.old.source, 1, q.cut) \o SubSeq(q.old.source, q.cut + 1, Len(q.old.source)) = q.old.source
    BY <1>3, <2>1, PartsMakeIt
  <2>3. SubSeq(q.old.target, 1, cut) \o SubSeq(q.old.target, cut + 1, Len(q.old.target)) = q.old.target
    BY <2>1, PartsMakeIt
  <2> QED
    BY <1>4, <1>6, <1>16, <2>2, <2>3
<1>18. Divided(seg, t, f, used + 1)
  <2>1. \A i \in Rows(seg) : Place(t, i) = IF p(i) > p(f) THEN p(i) + 1 ELSE p(i)
    BY <1>6, <1>9, <1>15
  <2>2. Place(t, used + 1) = p(f) + 1
    BY <1>6, <1>10, <1>15
  <2>3. \A i \in Rows(seg) : i # f => t[i].source = seg[i].source /\ t[i].target = seg[i].target
    BY <1>6, <1>9
  <2> QED
    BY <1>4, <1>6, <1>17, <2>1, <2>2, <2>3 DEF Divided, p
<1> QED
  BY <1>6, <1>8, <1>14, <1>18

\* What an undisturbed merge writes: a numbered table of which the document
\* before is the one with the segment divided in two.
LEMMA MergeWrites ==
  ASSUME StructureInv, NEW u \in Users, Merge(u), Undisturbed(u)
  PROVE  \E t \in Table : /\ seg' = Displayed(t) /\ Numbered(t)
                          /\ Divided(t, seg, req[u].first, req[u].second)
<1> DEFINE q     == req[u]
           f     == q.first
           g     == q.second
           S     == Rows(seg) \ {g}
           moved == Renumbered(q, S, 0)
           p(i)  == Place(seg, i)
           r(i)  == Position(Keys(seg), S, i)
           t     == Joined(q)
<1>1. TypeOK /\ seg \in Table /\ KeysApart(Keys(seg), Rows(seg)) /\ IsFiniteSet(Rows(seg))
  BY RowsApart DEF StructureInv, TypeOK, SentenceIdsUnique, Table
<1>2. q # None /\ q.op = "merge" /\ Follows(q, Locked(q)) /\ seg' = Displayed(t)
  BY DEF Merge
<1>3. Locked(q) = Rows(seg) /\ q.order = Keys(seg) /\ seg[f] = q.old /\ seg[g] = q.other
  BY <1>1, <1>2, Known
<1>4. p(g) = p(f) + 1
  BY <1>2, <1>3 DEF Follows, Place
<1>5. /\ t \in Table
      /\ Rows(t) = Rows(seg) \ {g} /\ g \in Rows(seg)
      /\ f \in Rows(seg) /\ f # g
      /\ \A i \in Rows(t) : (i # f => t[i] = Renumbered(q, Locked(q) \ {g}, 0)[i])
                            /\ t[i].index = Renumbered(q, Locked(q) \ {g}, 0)[i].index
      /\ t[f].source = Flush(Renumbered(q, Locked(q) \ {g}, 0)[f].source, q.old.source, q.old.source \o q.other.source)
      /\ t[f].target = Flush(Renumbered(q, Locked(q) \ {g}, 0)[f].target, q.old.target, q.old.target \o q.other.target)
  BY <1>1, <1>2, JoinedTable
<1> HIDE DEF t
<1>6. /\ Rows(t) = S /\ f \in S
      /\ \A i \in S : (i # f => t[i] = moved[i]) /\ t[i].index = moved[i].index
      /\ t[f].source = Flush(moved[f].source, q.old.source, q.old.source \o q.other.source)
      /\ t[f].target = Flush(moved[f].target, q.old.target, q.old.target \o q.other.target)
  BY <1>3, <1>5
<1>7. ASSUME NEW i \in S
      PROVE  /\ moved[i].index = Number(S, f, 0, i)
             /\ moved[i].source = seg[i].source
             /\ moved[i].target = seg[i].target
  <2>1. TypeOK /\ req[u] # None /\ S \in SUBSET Rows(seg)
    BY <1>1, <1>2
  <2> HIDE DEF S
  <2> QED
    BY <2>1, NumberedAgain
<1>8. KeysApart(Keys(seg), S) /\ IsFiniteSet(S)
  <2>1. IsFiniteSet(S)
    BY <1>1, FS_RemoveElement
  <2> QED
    BY <1>1, <2>1 DEF KeysApart
<1>9. \A i \in S : /\ r(i) \in Nat /\ p(i) \in Nat /\ p(g) \in Nat
                   /\ p(i) = IF p(i) > p(g) THEN r(i) + 1 ELSE r(i)
  <2> SUFFICES ASSUME NEW i \in Rows(seg) \ {g}
               PROVE  /\ r(i) \in Nat /\ p(i) \in Nat /\ p(g) \in Nat
                      /\ p(i) = IF p(i) > p(g) THEN r(i) + 1 ELSE r(i)
    OBVIOUS
  <2> QED
    BY <1>1, <1>5, PositionsWithout DEF Place
<1>10. /\ \A i \in S : r(i) \in 0..Cardinality(S) - 1
       /\ \A i, j \in S : r(i) = r(j) => i = j
  <2>1. \A i \in S : r(i) \in 0..Cardinality(S) - 1
    <3> HIDE DEF S
    <3> QED
      BY <1>8, PositionType DEF KeysApart
  <2>2. \A i, j \in S : r(i) = r(j) => i = j
    <3> HIDE DEF S
    <3> QED
      BY <1>8, PositionsNumber
  <2> QED
    BY <2>1, <2>2
<1>11. \A i \in S : p(i) # p(g)
  BY <1>1, <1>5, PositionsNumber DEF Place
<1> HIDE DEF S, moved, p
<1>12. \A i \in S : Number(S, f, 0, i) = r(i)
  BY <1>9 DEF Number
<1> HIDE DEF r
<1>13. \A i \in S : t[i].index = r(i)
  BY <1>6, <1>7, <1>12
<1>14. Numbered(t)
  BY <1>6, <1>10, <1>13 DEF Numbered
<1>15. \A i \in S : Place(t, i) = r(i)
  BY <1>5, <1>6, <1>13, <1>14, NumbersArePlaces
<1>16. r(f) = p(f)
  BY <1>4, <1>6, <1>9
<1>17. \A i \in S : p(i) = IF r(i) > r(f) THEN r(i) + 1 ELSE r(i)
  BY <1>4, <1>6, <1>9, <1>11, <1>16
<1>18. /\ \A i \in S : i # f => seg[i].source = t[i].source /\ seg[i].target = t[i].target
       /\ t[f].source = seg[f].source \o seg[g].source
       /\ t[f].target = seg[f].target \o seg[g].target
  <2>1. \A i \in S : i # f => seg[i].source = t[i].source /\ seg[i].target = t[i].target
    BY <1>6, <1>7
  <2>2. moved[f].source = q.old.source /\ moved[f].target = q.old.target
    BY <1>3, <1>6, <1>7
  <2>3. /\ t[f].source = q.old.source \o q.other.source
        /\ t[f].target = q.old.target \o q.other.target
    BY <1>6, <2>2 DEF Flush
  <2> QED
    BY <1>3, <2>1, <2>3
<1>19. Divided(t, seg, f, g)
  <2>1. g \notin Rows(t) /\ Rows(seg) = Rows(t) \cup {g}
    BY <1>5
  <2>2. /\ \A i \in Rows(t) : Place(seg, i) = IF Place(t, i) > Place(t, f) THEN Place(t, i) + 1 ELSE Place(t, i)
        /\ Place(seg, g) = Place(t, f) + 1
    BY <1>4, <1>6, <1>15, <1>16, <1>17 DEF p
  <2> QED
    BY <1>6, <1>18, <2>1, <2>2 DEF Divided
<1> QED
  BY <1>2, <1>5, <1>14, <1>19

\* The rows of a table that a request writes are apart.
LEMMA RebuiltRows ==
  ASSUME StructureInv, StructureInv', NEW t \in Table, seg' = Displayed(t)
  PROVE  /\ KeysApart(Keys(t), Rows(t)) /\ KeysApart(Keys(seg), Rows(seg))
         /\ Rows(seg') = Rows(t)
<1>1. seg \in Table /\ \A i, j \in Rows(seg) : seg[i].sid = seg[j].sid => i = j
  BY DEF StructureInv, TypeOK, SentenceIdsUnique, Table
<1>2. Rows(seg') = Rows(t) /\ \A i \in Rows(t) : seg'[i].sid = t[i].sid
  BY DisplayedSame
<1>3. \A i, j \in Rows(seg') : seg'[i].sid = seg'[j].sid => i = j
  BY DEF StructureInv, SentenceIdsUnique
<1>4. \A i, j \in Rows(t) : t[i].sid = t[j].sid => i = j
  BY <1>2, <1>3
<1> QED
  BY <1>1, <1>2, <1>4, RowsApart

\* What the two properties say of one step.
Rebuilt == {seg'[i].index : i \in Rows(seg')} = 0..Cardinality(Rows(seg')) - 1

Kept ==
  /\ Reading(seg', Source) = Reading(seg, Source)
  /\ Reading(seg', Target) = Reading(seg, Target)

\* A step that changes the structure for a request nothing has disturbed.
LEMMA UndisturbedStep ==
  ASSUME StructureInv, StructureInv', [Next]_vars, NEW u \in Users,
         Restructured(u), Undisturbed(u)
  PROVE  Rebuilt /\ Kept
<1>1. req[u] # None /\ req'[u] = None /\ Rows(seg') # Rows(seg)
  BY DEF Restructured
<1>2. seg' # seg /\ req' # req
  BY <1>1
<1>3. Split(u) \/ Merge(u)
  <2>1. ASSUME NEW v \in Users, Split(v) \/ Merge(v) PROVE v = u
    <3>1. req' = [req EXCEPT ![v] = None] /\ req \in [Users -> Request \cup {None}]
      BY <2>1 DEF Split, Merge, StructureInv, TypeOK
    <3> QED
      BY <1>1, <3>1
  <2>2. \E v \in Users : Split(v) \/ Merge(v)
    BY <1>2 DEF Next, vars, WriteTarget, WriteSource, Write, BeginSplit, BeginMerge, Begin, Select, Refused
  <2> QED
    BY <2>1, <2>2
<1>4. PICK t \in Table : /\ seg' = Displayed(t) /\ Numbered(t)
                         /\ \/ \E f, g : Divided(seg, t, f, g)
                            \/ \E f, g : Divided(t, seg, f, g)
  BY <1>3, SplitWrites, MergeWrites
<1>5. /\ KeysApart(Keys(t), Rows(t)) /\ KeysApart(Keys(seg), Rows(seg))
      /\ Rows(seg') = Rows(t) /\ seg \in Table
  BY <1>4, RebuiltRows DEF StructureInv, TypeOK, Table
<1>6. \A i \in Rows(t) : seg'[i].index = t[i].index
  BY <1>4, DisplayedReads
<1>7. Rebuilt
  BY <1>4, <1>5, <1>6, NumbersUsed DEF Rebuilt
<1>8. Reading(t, Source) = Reading(seg, Source) /\ Reading(t, Target) = Reading(seg, Target)
  <2>1. ASSUME NEW f, NEW g, Divided(seg, t, f, g)
        PROVE  Reading(t, Source) = Reading(seg, Source) /\ Reading(t, Target) = Reading(seg, Target)
    BY <1>5, <2>1, DividedTexts
  <2>2. ASSUME NEW f, NEW g, Divided(t, seg, f, g)
        PROVE  Reading(t, Source) = Reading(seg, Source) /\ Reading(t, Target) = Reading(seg, Target)
    BY <1>5, <2>2, DividedTexts
  <2> QED
    BY <1>4, <2>1, <2>2
<1>9. /\ Reading(Displayed(t), Source) = Reading(t, Source)
      /\ Reading(Displayed(t), Target) = Reading(t, Target)
  BY <1>5, DisplayedReads
<1>10. Kept
  BY <1>4, <1>8, <1>9 DEF Kept
<1> QED
  BY <1>7, <1>10

\* A split or a merge that nothing has disturbed leaves source and translation
\* of the whole document as they read, whatever its indexes were.
THEOREM UndisturbedKeepsTheDocument == Spec => DocumentIsKept
<1>1. StructureInv /\ StructureInv' /\ [Next]_vars
        => [\A u \in Users : Restructured(u) /\ Undisturbed(u)
              => /\ Reading(seg', Source) = Reading(seg, Source)
                 /\ Reading(seg', Target) = Reading(seg, Target)]_vars
  BY UndisturbedStep DEF Kept
<1> QED
  BY <1>1, Invariant, PTL DEF Spec, DocumentIsKept

\* It leaves the segments numbered from zero, without gap or repetition, so that
\* indexes broken by requests that overlapped do not stay.
THEOREM UndisturbedRebuildsTheOrder == Spec => OrderIsRebuilt
<1>1. StructureInv /\ StructureInv' /\ [Next]_vars
        => [\A u \in Users : Restructured(u) /\ Undisturbed(u)
              => {seg'[i].index : i \in Rows(seg')} = 0..Cardinality(Rows(seg')) - 1]_vars
  BY UndisturbedStep DEF Rebuilt
<1> QED
  BY <1>1, Invariant, PTL DEF Spec, OrderIsRebuilt
=============================================================================
