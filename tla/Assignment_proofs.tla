--------------------------- MODULE Assignment_proofs ---------------------------
(***************************************************************************)
(* What holds of the grants of a file for any document, any translators and *)
(* any managers who save at once: the types, that two translators share no *)
(* segment, that a save replaces what its revision stands for, that it     *)
(* moves a segment by one step, and that a file is divided fairly and into *)
(* parts that can be granted.                                              *)
(***************************************************************************)
EXTENDS Assignment, FiniteSetTheorems, SequenceTheorems, WellFoundedInduction, TLAPS

\* The bounds are numbers.
LEMMA Bounds == Steps \in Nat \ {0} /\ MaxRows \in Nat /\ MaxSaves \in Nat /\ MaxChanges \in Nat
  BY AssignmentAssumption

\* A document is a sequence of segments if it is one by position.
LEMMA ByPosition ==
  ASSUME NEW n \in Nat, NEW f, f = [i \in 1..n |-> f[i]], \A i \in 1..n : f[i] \in Segment
  PROVE  f \in Seq(Segment) /\ Len(f) = n
<1>1. f \in [1..n -> Segment]
  OBVIOUS
<1> QED
  BY <1>1, SeqDef, LenProperties

\* The segments of a document, by position.
LEMMA Elements ==
  ASSUME NEW s \in Seq(Segment)
  PROVE  /\ Len(s) \in Nat /\ DOMAIN s = 1..Len(s)
         /\ \A i \in 1..Len(s) : s[i] \in Segment
  BY ElementOfSeq, LenProperties

\* A document with one segment more, or one less, is a document.
LEMMA InsertType ==
  ASSUME NEW s \in Seq(Segment), NEW i \in 1..Len(s) + 1, NEW e \in Segment
  PROVE  InsertAt(s, i, e) \in Seq(Segment) /\ Len(InsertAt(s, i, e)) = Len(s) + 1
<1>1. Len(s) \in Nat
  BY Elements
<1> DEFINE l == SubSeq(s, 1, i - 1)
           r == SubSeq(s, i, Len(s))
<1>2. l \in Seq(Segment) /\ Len(l) = i - 1
  BY <1>1, SubSeqProperties
<1>3. r \in Seq(Segment) /\ Len(r) = Len(s) - i + 1
  BY <1>1, SubSeqProperties
<1>4. <<e>> \in Seq(Segment) /\ Len(<<e>>) = 1
  OBVIOUS
<1> HIDE DEF l, r
<1>5. l \o <<e>> \in Seq(Segment) /\ Len(l \o <<e>>) = i
  BY <1>2, <1>4, ConcatProperties
<1>6. (l \o <<e>>) \o r \in Seq(Segment) /\ Len((l \o <<e>>) \o r) = i + Len(r)
  BY <1>3, <1>5, ConcatProperties
<1>7. InsertAt(s, i, e) = (l \o <<e>>) \o r
  BY DEF InsertAt, l, r
<1> QED
  BY <1>1, <1>3, <1>6, <1>7

LEMMA RemoveType ==
  ASSUME NEW s \in Seq(Segment), NEW i \in 1..Len(s)
  PROVE  RemoveAt(s, i) \in Seq(Segment) /\ Len(RemoveAt(s, i)) = Len(s) - 1
<1>1. Len(s) \in Nat
  BY Elements
<1> DEFINE l == SubSeq(s, 1, i - 1)
           r == SubSeq(s, i + 1, Len(s))
<1>2. l \in Seq(Segment) /\ Len(l) = i - 1
  BY <1>1, SubSeqProperties
<1>3. r \in Seq(Segment) /\ Len(r) = Len(s) - i
  BY <1>1, SubSeqProperties
<1> HIDE DEF l, r
<1>4. l \o r \in Seq(Segment) /\ Len(l \o r) = Len(l) + Len(r)
  BY <1>2, <1>3, ConcatProperties
<1>5. RemoveAt(s, i) = l \o r
  BY DEF RemoveAt, l, r
<1>6. Len(l) + Len(r) = Len(s) - 1
  BY <1>1, <1>2, <1>3
<1> QED
  BY <1>4, <1>5, <1>6

-----------------------------------------------------------------------------
\* Grants stay grants.
LEMMA GrantFields ==
  ASSUME NEW g \in Grant
  PROVE  /\ g.user \in Translators /\ g.step \in 1..Steps
         /\ g.from \in 0..MaxRows /\ g.to \in 0..MaxRows
         /\ g.from <= g.to /\ (g.from = 0 => g.to = 0)
  BY DEF Grant

LEMMA WholeType ==
  ASSUME NEW u \in Translators, NEW s \in 1..Steps
  PROVE  [user |-> u, step |-> s, from |-> 0, to |-> 0] \in Grant
  BY Bounds DEF Grant

LEMMA ClippedType ==
  ASSUME NEW g \in Grant, NEW n \in 1..MaxRows, g.from <= n
  PROVE  [g EXCEPT !.to = IF @ > n THEN n ELSE @] \in Grant
<1> DEFINE t == IF g.to > n THEN n ELSE g.to
<1>1. t \in 0..MaxRows /\ g.from <= t /\ (g.from = 0 => t = 0)
  BY Bounds, GrantFields
<1> HIDE DEF t
<1>2. [g EXCEPT !.to = t] \in Grant
  BY <1>1 DEF Grant
<1> QED
  BY <1>2 DEF t

LEMMA ShownType ==
  ASSUME TypeOK, NEW S \in SUBSET Grant
  PROVE  Shown(S) \subseteq Grant
  BY ClippedType DEF TypeOK, Shown

LEMMA SwappedType ==
  ASSUME NEW g \in Grant, NEW u \in Translators, NEW v \in Translators
  PROVE  [g EXCEPT !.user = IF @ = u THEN v ELSE @] \in Grant
  BY DEF Grant

LEMMA WishesType ==
  ASSUME NEW items \in SUBSET Grant, NEW desired \in Wishes(items)
  PROVE  desired \subseteq Grant
  BY SwappedType DEF Wishes

\* A document whose segments move between steps keeps its length.
LEMMA AdvancedType ==
  ASSUME TypeOK, NEW moves \in SUBSET Grant
  PROVE  Advanced(moves) \in Seq(Segment) /\ Len(Advanced(moves)) = Len(seg)
<1>1. Len(seg) \in Nat /\ DOMAIN seg = 1..Len(seg) /\ \A i \in 1..Len(seg) : seg[i] \in Segment
  BY Elements DEF TypeOK
<1>2. ASSUME NEW i \in 1..Len(seg) PROVE Advanced(moves)[i] \in Segment
  <2>1. CASE \E g \in moves : g.step = seg[i].step + 1 /\ Covers(g, i)
    <3>1. seg[i].step + 1 \in 1..Steps
      BY <2>1, GrantFields
    <3>2. Advanced(moves)[i] = [seg[i] EXCEPT !.step = seg[i].step + 1]
      BY <1>1, <2>1 DEF Advanced
    <3> QED
      BY <1>1, <3>1, <3>2 DEF Segment
  <2>2. CASE ~\E g \in moves : g.step = seg[i].step + 1 /\ Covers(g, i)
    BY <1>1, <2>2 DEF Advanced
  <2> QED
    BY <2>1, <2>2
<1>3. Advanced(moves) = [i \in 1..Len(seg) |-> Advanced(moves)[i]]
  BY <1>1 DEF Advanced
<1> QED
  BY <1>1, <1>2, <1>3, ByPosition

-----------------------------------------------------------------------------
(* Types. *)

LEMMA InitType == Init => TypeOK
<1> SUFFICES ASSUME Init PROVE TypeOK
  OBVIOUS
<1>1. PICK doc \in Documents : seg = [i \in DOMAIN doc |->
                                  [block |-> doc[i].block, words |-> doc[i].words, step |-> 1]]
  BY DEF Init
<1>2. doc \in Seq(Text) /\ Len(doc) \in 1..MaxRows
  BY AssignmentAssumption
<1>3. DOMAIN doc = 1..Len(doc) /\ \A i \in 1..Len(doc) : doc[i] \in Text
  BY <1>2, ElementOfSeq, LenProperties
<1>4. \A i \in 1..Len(doc) : seg[i] \in Segment
  BY <1>1, <1>3, Bounds DEF Text, Segment
<1>5. seg \in Seq(Segment) /\ Len(seg) = Len(doc)
  <2>1. seg = [i \in 1..Len(doc) |-> seg[i]]
    BY <1>1, <1>3
  <2> QED
    BY <1>2, <1>4, <2>1, ByPosition, Bounds
<1>6. grants \subseteq Grant
  BY WholeType DEF Init
<1>7. /\ DOMAIN draft = Managers /\ \A m \in Managers : draft[m] = None
      /\ DOMAIN req = Managers /\ \A m \in Managers : req[m] = None
      /\ saves = 0 /\ changes = 0
  BY DEF Init
<1> QED
  BY <1>2, <1>5, <1>6, <1>7, Bounds DEF TypeOK

\* What a change of the document has to keep.
LEMMA ChangeType ==
  ASSUME TypeOK, NEW new, Change(new), new \in Seq(Segment), Len(new) \in 1..MaxRows
  PROVE  TypeOK'
  BY Bounds DEF TypeOK, Change

LEMMA LoadRowsType == ASSUME TypeOK, NEW m \in Managers, LoadRows(m) PROVE TypeOK'
<1>1. Shown(grants) \subseteq Grant
  BY ShownType DEF TypeOK
<1>2. \A n \in Managers : draft'[n] # None => IsDraft(draft'[n])
  BY <1>1 DEF TypeOK, LoadRows, IsDraft
<1> QED
  BY <1>2 DEF TypeOK, LoadRows

LEMMA LoadRevisionType == ASSUME TypeOK, NEW m \in Managers, LoadRevision(m) PROVE TypeOK'
<1>1. IsDraft(draft[m])
  BY DEF TypeOK, LoadRevision
<1>2. draft'[m] = [rows |-> draft[m].rows, items |-> draft[m].items, base |-> grants]
  BY <1>1 DEF TypeOK, LoadRevision, IsDraft
<1>3. IsDraft(draft'[m])
  BY <1>1, <1>2 DEF TypeOK, IsDraft
<1>4. \A n \in Managers : draft'[n] # None => IsDraft(draft'[n])
  BY <1>3 DEF TypeOK, LoadRevision
<1> QED
  BY <1>4 DEF TypeOK, LoadRevision

LEMMA BeginType == ASSUME TypeOK, NEW m \in Managers, Begin(m) PROVE TypeOK'
<1>1. PICK revision \in {None, draft[m].base} \cap {None, grants}, desired \in Wishes(draft[m].items),
           advance \in BOOLEAN :
        req' = [req EXCEPT ![m] = [seen |-> grants, base |-> revision, desired |-> desired,
                                   moves |-> IF advance THEN Moves(desired) ELSE {}]]
  BY DEF Begin
<1>2. draft[m].items \subseteq Grant
  BY DEF TypeOK, Begin, IsDraft
<1>3. desired \subseteq Grant
  BY <1>2, WishesType
<1>4. Moves(desired) \subseteq Grant
  BY <1>3 DEF Moves
<1>5. revision # None => revision = grants
  OBVIOUS
<1>6. IsRequest(req'[m])
  BY <1>1, <1>3, <1>4, <1>5 DEF TypeOK, IsRequest
<1>7. \A n \in Managers : req'[n] # None => IsRequest(req'[n])
  BY <1>1, <1>6 DEF TypeOK
<1>8. DOMAIN req' = Managers /\ saves' \in 0..MaxSaves
  BY <1>1, Bounds DEF TypeOK, Begin
<1> QED
  BY <1>7, <1>8 DEF TypeOK, Begin

LEMMA CommitType == ASSUME TypeOK, NEW m \in Managers, Commit(m) PROVE TypeOK'
<1>1. IsRequest(req[m])
  BY DEF TypeOK, Commit
<1>2. grants' \subseteq Grant
  BY <1>1 DEF TypeOK, Commit, IsRequest
<1>3. seg' \in Seq(Segment) /\ Len(seg') = Len(seg)
  BY <1>1, AdvancedType DEF Commit, IsRequest
<1> QED
  BY <1>2, <1>3 DEF TypeOK, Commit

LEMMA TransitionType ==
  ASSUME TypeOK, NEW S, NEW step \in 1..Steps, Transition(S, step) PROVE TypeOK'
<1> DEFINE new == [i \in DOMAIN seg |-> IF i \in S THEN [seg[i] EXCEPT !.step = step] ELSE seg[i]]
<1>1. Len(seg) \in Nat /\ DOMAIN seg = 1..Len(seg) /\ \A i \in 1..Len(seg) : seg[i] \in Segment
  BY Elements DEF TypeOK
<1>2. \A i \in 1..Len(seg) : new[i] \in Segment
  BY <1>1 DEF Segment
<1>3. new = [i \in 1..Len(seg) |-> new[i]]
  BY <1>1
<1>4. Change(new)
  BY DEF Transition
<1> HIDE DEF new
<1>5. new \in Seq(Segment) /\ Len(new) = Len(seg)
  BY <1>1, <1>2, <1>3, ByPosition
<1> QED
  BY <1>4, <1>5, ChangeType DEF TypeOK

LEMMA WordsType ==
  ASSUME NEW r \in Segment, NEW n \in Nat PROVE [r EXCEPT !.words = n] \in Segment
  BY DEF Segment

LEMMA CountedType ==
  ASSUME NEW s \in Seq(Segment), NEW i \in 1..Len(s), NEW n \in Nat
  PROVE  [s EXCEPT ![i].words = n] \in Seq(Segment) /\ Len([s EXCEPT ![i].words = n]) = Len(s)
<1> DEFINE new == [s EXCEPT ![i].words = n]
<1>1. Len(s) \in Nat /\ DOMAIN s = 1..Len(s) /\ \A j \in 1..Len(s) : s[j] \in Segment
  BY Elements
<1>2. new = [j \in 1..Len(s) |-> IF j = i THEN [s[i] EXCEPT !.words = n] ELSE s[j]]
  BY <1>1
<1>3. \A j \in 1..Len(s) : new[j] \in Segment
  BY <1>1, <1>2, WordsType
<1>4. new = [j \in 1..Len(s) |-> new[j]]
  BY <1>2
<1> HIDE DEF new
<1>5. new \in Seq(Segment) /\ Len(new) = Len(s)
  BY <1>1, <1>3, <1>4, ByPosition
<1> QED
  BY <1>5 DEF new

LEMMA SplitType == ASSUME TypeOK, NEW i \in DOMAIN seg, Split(i) PROVE TypeOK'
<1>1. /\ Len(seg) \in Nat /\ i \in 1..Len(seg) /\ seg[i] \in Segment
      /\ Len(seg) < MaxRows
  BY Elements DEF TypeOK, Split
<1>2. PICK words \in 0..seg[i].words : \E cached \in {words, seg[i].words} :
        Change(InsertAt([seg EXCEPT ![i].words = cached], i + 1,
                        [seg[i] EXCEPT !.words = seg[i].words - words]))
  BY DEF Split
<1>3. PICK cached \in {words, seg[i].words} :
        Change(InsertAt([seg EXCEPT ![i].words = cached], i + 1,
                        [seg[i] EXCEPT !.words = seg[i].words - words]))
  BY <1>2
<1>4. seg[i].words \in Nat /\ words \in Nat /\ seg[i].words - words \in Nat /\ cached \in Nat
  BY <1>1 DEF Segment
<1> DEFINE first == [seg EXCEPT ![i].words = cached]
           second == [seg[i] EXCEPT !.words = seg[i].words - words]
<1>5. first \in Seq(Segment) /\ Len(first) = Len(seg)
  BY <1>1, <1>4, CountedType DEF TypeOK
<1>6. second \in Segment
  BY <1>1, <1>4, WordsType
<1>7. Change(InsertAt(first, i + 1, second))
  BY <1>3
<1> HIDE DEF first, second
<1>8. InsertAt(first, i + 1, second) \in Seq(Segment) /\ Len(InsertAt(first, i + 1, second)) = Len(seg) + 1
  <2>1. i + 1 \in 1..Len(first) + 1
    BY <1>1, <1>5
  <2> QED
    BY <1>5, <1>6, <2>1, InsertType
<1>9. Len(seg) + 1 \in 1..MaxRows
  BY <1>1, Bounds
<1> QED
  BY <1>7, <1>8, <1>9, ChangeType

LEMMA MergeType == ASSUME TypeOK, NEW i \in DOMAIN seg, Merge(i) PROVE TypeOK'
<1>1. /\ Len(seg) \in Nat /\ i \in 1..Len(seg) /\ i < Len(seg) /\ Len(seg) <= MaxRows
      /\ seg[i] \in Segment /\ seg[i + 1] \in Segment
  BY Elements DEF TypeOK, Merge
<1>2. PICK words \in {seg[i].words, seg[i].words + seg[i + 1].words} :
        Change(RemoveAt([seg EXCEPT ![i].words = words], i + 1))
  BY DEF Merge
<1>3. words \in Nat
  BY <1>1 DEF Segment
<1> DEFINE joined == [seg EXCEPT ![i].words = words]
<1>4. joined \in Seq(Segment) /\ Len(joined) = Len(seg)
  BY <1>1, <1>3, CountedType DEF TypeOK
<1>5. Change(RemoveAt(joined, i + 1))
  BY <1>2
<1> HIDE DEF joined
<1>6. i + 1 \in 1..Len(joined)
  BY <1>1, <1>4
<1>7. RemoveAt(joined, i + 1) \in Seq(Segment) /\ Len(RemoveAt(joined, i + 1)) = Len(seg) - 1
  BY <1>4, <1>6, RemoveType
<1>8. Len(seg) - 1 \in 1..MaxRows
  BY <1>1, Bounds
<1> QED
  BY <1>5, <1>7, <1>8, ChangeType

LEMMA NextType == TypeOK /\ [Next]_vars => TypeOK'
<1> SUFFICES ASSUME TypeOK, [Next]_vars PROVE TypeOK'
  OBVIOUS
<1>1. CASE \E m \in Managers : LoadRows(m) \/ LoadRevision(m) \/ Begin(m) \/ Commit(m)
  BY <1>1, LoadRowsType, LoadRevisionType, BeginType, CommitType
<1>2. CASE \E S \in SUBSET DOMAIN seg, step \in 1..Steps : S # {} /\ Transition(S, step)
  BY <1>2, TransitionType
<1>3. CASE \E i \in DOMAIN seg : Split(i) \/ Merge(i)
  BY <1>3, SplitType, MergeType
<1>4. CASE UNCHANGED vars
  BY <1>4 DEF TypeOK, vars, IsDraft, IsRequest
<1> QED
  BY <1>1, <1>2, <1>3, <1>4 DEF Next

\* Every reachable state is well typed: ranges that are shown or advanced over
\* stay within the file, however it is split and merged.
THEOREM AssignmentTypeCorrect == Spec => []TypeOK
<1> QED
  BY InitType, NextType, PTL DEF Spec

-----------------------------------------------------------------------------
(* Saves. *)

\* One save at a time: it replaces the grants it has seen, which are those of the
\* table and of its revision, and moves segments to new ones only.
OneSave ==
  /\ \A m, n \in Managers : req[m] # None /\ req[n] # None => m = n
  /\ \A m \in Managers : req[m] # None =>
       /\ req[m].seen = grants
       /\ req[m].base # None => req[m].base = grants
       /\ req[m].moves \subseteq req[m].desired \ grants
       /\ Disjoint(req[m].desired)

AssignmentInv == TypeOK /\ Disjoint(grants) /\ OneSave

LEMMA InitInv == Init => AssignmentInv
<1> SUFFICES ASSUME Init PROVE AssignmentInv
  OBVIOUS
<1>1. Disjoint(grants)
  BY DEF Init, Disjoint
<1>2. OneSave
  BY DEF Init, OneSave
<1> QED
  BY <1>1, <1>2, InitType DEF AssignmentInv

LEMMA BeginInv == ASSUME AssignmentInv, NEW m \in Managers, Begin(m) PROVE OneSave'
<1>1. PICK revision \in {None, draft[m].base} \cap {None, grants}, desired \in Wishes(draft[m].items),
           advance \in BOOLEAN :
        /\ Valid(desired)
        /\ req' = [req EXCEPT ![m] = [seen |-> grants, base |-> revision, desired |-> desired,
                                      moves |-> IF advance THEN Moves(desired) ELSE {}]]
  BY DEF Begin
<1>2. grants' = grants /\ \A n \in Managers : req[n] = None
  BY DEF Begin, Locked
<1>3. \A n \in Managers : n # m => req'[n] = None
  BY <1>1, <1>2 DEF AssignmentInv, TypeOK
<1>4. req'[m] = [seen |-> grants, base |-> revision, desired |-> desired,
                 moves |-> IF advance THEN Moves(desired) ELSE {}]
  BY <1>1 DEF AssignmentInv, TypeOK
<1>5. /\ req'[m].seen = grants /\ req'[m].desired = desired
      /\ req'[m].base # None => req'[m].base = grants
      /\ req'[m].moves = IF advance THEN Moves(desired) ELSE {}
  BY <1>1, <1>4
<1>6. req'[m].moves \subseteq desired \ grants
  BY <1>5 DEF Moves
<1>7. Disjoint(desired)
  BY <1>1 DEF Valid
<1>8. Disjoint(desired)'
  BY <1>7 DEF Disjoint, Overlap
<1> QED
  BY <1>2, <1>3, <1>5, <1>6, <1>7 DEF OneSave, Disjoint, Overlap

LEMMA CommitReplaces ==
  ASSUME AssignmentInv, NEW m \in Managers, Commit(m)
  PROVE  grants' = req[m].desired
  BY DEF AssignmentInv, OneSave, Commit

LEMMA CommitInv == ASSUME AssignmentInv, NEW m \in Managers, Commit(m) PROVE Disjoint(grants') /\ OneSave'
<1>1. Disjoint(grants')
  BY CommitReplaces DEF AssignmentInv, OneSave, Commit
<1>2. \A n \in Managers : req'[n] = None
  BY DEF AssignmentInv, OneSave, TypeOK, Commit
<1> QED
  BY <1>1, <1>2 DEF OneSave

LEMMA NextInv == AssignmentInv /\ [Next]_vars => AssignmentInv'
<1> SUFFICES ASSUME AssignmentInv, [Next]_vars PROVE AssignmentInv'
  OBVIOUS
<1>1. TypeOK'
  BY NextType DEF AssignmentInv
<1>2. ASSUME UNCHANGED <<grants, req>> PROVE (Disjoint(grants) /\ OneSave)'
  BY <1>2 DEF AssignmentInv, OneSave, Disjoint, Overlap
<1>3. (Disjoint(grants) /\ OneSave)'
  <2>1. ASSUME NEW m \in Managers, LoadRows(m) \/ LoadRevision(m) PROVE UNCHANGED <<grants, req>>
    BY <2>1 DEF LoadRows, LoadRevision
  <2>2. ASSUME NEW m \in Managers, Begin(m) PROVE (Disjoint(grants) /\ OneSave)'
    <3>1. grants' = grants
      BY <2>2 DEF Begin
    <3> QED
      BY <2>2, <3>1, BeginInv DEF AssignmentInv, Disjoint, Overlap
  <2>3. ASSUME NEW m \in Managers, Commit(m) PROVE (Disjoint(grants) /\ OneSave)'
    BY <2>3, CommitInv DEF Disjoint, Overlap
  <2>4. ASSUME NEW S, NEW step \in 1..Steps, Transition(S, step) PROVE UNCHANGED <<grants, req>>
    BY <2>4 DEF Transition, Change
  <2>5. ASSUME NEW i \in DOMAIN seg, Split(i) \/ Merge(i) PROVE UNCHANGED <<grants, req>>
    BY <2>5 DEF Split, Merge, Change
  <2>6. CASE UNCHANGED vars
    BY <1>2, <2>6 DEF vars
  <2> QED
    BY <1>2, <2>1, <2>2, <2>3, <2>4, <2>5, <2>6 DEF Next
<1> QED
  BY <1>1, <1>3 DEF AssignmentInv

LEMMA AssignmentInvariant == Spec => []AssignmentInv
<1> QED
  BY InitInv, NextInv, PTL DEF Spec

-----------------------------------------------------------------------------
\* No two translators may write one segment, whoever saves at once and however
\* segments are split, merged and moved under the ranges.
THEOREM OneTranslatorHolds == Spec => []OneTranslatorPerSegment
<1>1. AssignmentInv => OneTranslatorPerSegment
  <2> SUFFICES ASSUME AssignmentInv, NEW i \in DOMAIN seg, NEW u \in Translators, NEW v \in Translators,
                      CanWrite(u, i), CanWrite(v, i)
               PROVE  u = v
    BY DEF OneTranslatorPerSegment
  <2>1. PICK g \in grants : g.user = u /\ g.step = seg[i].step /\ Covers(g, i)
    BY DEF CanWrite
  <2>2. PICK h \in grants : h.user = v /\ h.step = seg[i].step /\ Covers(h, i)
    BY DEF CanWrite
  <2>3. /\ i \in Nat
        /\ g.from \in Nat /\ g.to \in Nat /\ h.from \in Nat /\ h.to \in Nat
    <3>1. i \in 1..Len(seg) /\ Len(seg) \in Nat
      BY Elements DEF AssignmentInv, TypeOK
    <3>2. g \in Grant /\ h \in Grant
      BY DEF AssignmentInv, TypeOK
    <3> QED
      BY <3>1, <3>2, GrantFields, Bounds
  <2>4. Overlap(g, h)
    BY <2>1, <2>2, <2>3 DEF Covers, Overlap
  <2>5. g = h
    BY <2>1, <2>2, <2>4 DEF AssignmentInv, Disjoint
  <2> QED
    BY <2>1, <2>2, <2>5
<1> QED
  BY <1>1, AssignmentInvariant, PTL

\* Only a commit ends a save.
LEMMA SavedCommits ==
  ASSUME AssignmentInv, [Next]_vars, NEW m \in Managers, Saved(m)
  PROVE  Commit(m)
<1>1. ASSUME NEW n \in Managers, LoadRows(n) \/ LoadRevision(n) PROVE req' = req
  BY <1>1 DEF LoadRows, LoadRevision
<1>2. ASSUME NEW n \in Managers, Begin(n) PROVE FALSE
  BY <1>2 DEF Begin, Locked, Saved
<1>3. ASSUME NEW n \in Managers, Commit(n) PROVE n = m
  BY <1>3 DEF AssignmentInv, OneSave, Commit, Saved
<1>4. ASSUME NEW S, NEW step \in 1..Steps, Transition(S, step) PROVE req' = req
  BY <1>4 DEF Transition, Change
<1>5. ASSUME NEW i \in DOMAIN seg, Split(i) \/ Merge(i) PROVE req' = req
  BY <1>5 DEF Split, Merge, Change
<1>6. req' # req
  BY DEF Saved
<1> QED
  BY <1>1, <1>2, <1>3, <1>4, <1>5, <1>6 DEF Next, vars

\* A save revokes no grant that is newer than its revision, for any number of
\* managers.
THEOREM SaveReplacesItsBaseHolds == Spec => SaveReplacesItsBase
<1>1. AssignmentInv /\ [Next]_vars =>
        [\A m \in Managers : Saved(m) /\ req[m].base # None => grants = req[m].base]_vars
  BY DEF Saved, AssignmentInv, OneSave
<1> QED
  BY <1>1, AssignmentInvariant, PTL DEF Spec, SaveReplacesItsBase

\* A save moves segments by one step, to grants it makes, though it may make
\* grants at several steps in a row.
THEOREM AdvancesOneStepHolds == Spec => AdvancesOneStep
<1>1. ASSUME AssignmentInv, [Next]_vars, NEW m \in Managers, Saved(m), NEW i \in DOMAIN seg,
             seg'[i].step # seg[i].step
      PROVE  /\ seg'[i].step = seg[i].step + 1
             /\ \E g \in grants' \ grants : g.step = seg'[i].step /\ Covers(g, i)
  <2>1. Commit(m)
    BY <1>1, SavedCommits
  <2>2. seg[i] \in Segment
    BY <1>1, Elements DEF AssignmentInv, TypeOK
  <2>3. PICK g \in req[m].moves : g.step = seg[i].step + 1 /\ Covers(g, i)
    BY <1>1, <2>1 DEF Commit, Advanced
  <2>4. seg'[i] = [seg[i] EXCEPT !.step = seg[i].step + 1]
    BY <1>1, <2>1, <2>3 DEF Commit, Advanced
  <2>5. seg'[i].step = seg[i].step + 1
    BY <2>2, <2>4 DEF Segment
  <2>6. g \in grants' \ grants
    BY <1>1, <2>1, CommitReplaces DEF AssignmentInv, OneSave, Commit
  <2> QED
    BY <2>3, <2>5, <2>6
<1>2. AssignmentInv /\ [Next]_vars =>
        [\A m \in Managers : Saved(m) =>
           \A i \in DOMAIN seg : seg'[i].step # seg[i].step =>
             /\ seg'[i].step = seg[i].step + 1
             /\ \E g \in grants' \ grants : g.step = seg'[i].step /\ Covers(g, i)]_vars
  BY <1>1
<1> QED
  BY <1>2, AssignmentInvariant, PTL DEF Spec, AdvancesOneStep

-----------------------------------------------------------------------------
(* The preview of a division. *)

\* A set of natural numbers that is not empty has a least element.
LEMMA LeastNatural ==
  ASSUME NEW T \in SUBSET Nat, T # {}
  PROVE  \E m \in T : \A k \in T : m <= k
<1>1. PICK m \in T : \A k \in T : <<k, m>> \notin OpToRel(<, Nat)
  BY WFMin, NatLessThanWellFounded
<1>2. \A k \in T : ~(k < m)
  BY <1>1 DEF OpToRel
<1> QED
  BY <1>2

-----------------------------------------------------------------------------
(* What the segments of a range weigh. *)

\* The sums of the words, up to segment m.
SumsTo(doc, m, f) == f = [i \in 0..m |-> IF i = 0 THEN 0 ELSE f[i - 1] + doc[i].words]

LEMMA SumsExist ==
  ASSUME NEW doc, NEW m \in Nat
  PROVE  \E f : SumsTo(doc, m, f)
<1> DEFINE Bad == {k \in Nat : ~ \E f : SumsTo(doc, k, f)}
<1> SUFFICES ASSUME Bad # {} PROVE FALSE
  BY DEF Bad
<1>1. PICK k \in Bad : \A j \in Bad : k <= j
  BY LeastNatural DEF Bad
<1>2. k \in Nat /\ ~ \E f : SumsTo(doc, k, f)
  BY DEF Bad
<1>3. k # 0
  <2>1. SumsTo(doc, 0, [i \in 0..0 |-> 0])
    BY DEF SumsTo
  <2> QED
    BY <1>2, <2>1
<1>4. k - 1 \in Nat /\ k - 1 \notin Bad
  BY <1>1, <1>2, <1>3
<1>5. PICK f : SumsTo(doc, k - 1, f)
  BY <1>4 DEF Bad
<1> DEFINE e == f[k - 1] + doc[k].words
           g == [i \in 0..k |-> IF i = k THEN e ELSE f[i]]
<1>6. ASSUME NEW i \in 0..k PROVE g[i] = IF i = 0 THEN 0 ELSE g[i - 1] + doc[i].words
  <2>1. CASE i = k
    BY <1>2, <1>3, <2>1
  <2>2. CASE i # k
    <3>1. i \in 0..k - 1 /\ (i # 0 => i - 1 \in 0..k /\ i - 1 # k)
      BY <1>2, <2>2
    <3>2. f[i] = IF i = 0 THEN 0 ELSE f[i - 1] + doc[i].words
      BY <1>5, <3>1 DEF SumsTo
    <3> HIDE DEF e
    <3>3. g[i] = f[i] /\ (i # 0 => g[i - 1] = f[i - 1])
      BY <2>2, <3>1
    <3> QED
      BY <3>2, <3>3
  <2> QED
    BY <2>1, <2>2
<1>7. g = [i \in 0..k |-> g[i]]
  OBVIOUS
<1> HIDE DEF g
<1>8. SumsTo(doc, k, g)
  BY <1>6, <1>7 DEF SumsTo
<1> QED
  BY <1>2, <1>8

\* The sums are those of the words, one segment after the other.
LEMMA CumulativeSums ==
  ASSUME NEW doc \in Seq(Segment)
  PROVE  /\ Cumulative(doc)[0] = 0
         /\ \A i \in 1..Len(doc) : Cumulative(doc)[i] = Cumulative(doc)[i - 1] + doc[i].words
         /\ \A i \in 0..Len(doc) : Cumulative(doc)[i] \in Nat
<1> DEFINE S == Cumulative(doc)
           n == Len(doc)
<1>1. n \in Nat /\ \A i \in 1..n : doc[i].words \in Nat
  BY Elements DEF Segment
<1>2. SumsTo(doc, n, S)
  <2>1. S = CHOOSE f : SumsTo(doc, n, f)
    BY DEF Cumulative, SumsTo
  <2> QED
    BY <1>1, <2>1, SumsExist
<1> HIDE DEF S
<1>3. S[0] = 0 /\ \A i \in 1..n : S[i] = S[i - 1] + doc[i].words
  BY <1>1, <1>2 DEF SumsTo
<1>4. \A i \in 0..n : S[i] \in Nat
  <2> DEFINE Bad == {i \in 0..n : S[i] \notin Nat}
  <2> SUFFICES ASSUME Bad # {} PROVE FALSE
    OBVIOUS
  <2>0. Bad \in SUBSET Nat
    BY <1>1
  <2> HIDE DEF Bad
  <2>1. PICK i \in Bad : \A j \in Bad : i <= j
    BY <2>0, LeastNatural
  <2>2. i \in 1..n
    BY <1>1, <1>3 DEF Bad
  <2>3. i - 1 \in 0..n /\ i - 1 \notin Bad
    BY <1>1, <2>1, <2>2
  <2> QED
    <3>1. S[i - 1] \in Nat /\ S[i] \notin Nat
      BY <2>1, <2>3 DEF Bad
    <3>2. S[i] = S[i - 1] + doc[i].words /\ doc[i].words \in Nat
      BY <1>1, <1>3, <2>2
    <3> QED
      BY <3>1, <3>2
<1> QED
  BY <1>3, <1>4 DEF S

\* More segments have no fewer words.
LEMMA CumulativeGrows ==
  ASSUME NEW doc \in Seq(Segment), NEW i \in 0..Len(doc), NEW j \in i..Len(doc)
  PROVE  Cumulative(doc)[i] <= Cumulative(doc)[j]
<1> DEFINE S == Cumulative(doc)
           n == Len(doc)
           Bad == {k \in i..n : ~(S[i] <= S[k])}
<1>1. n \in Nat /\ \A k \in 1..n : doc[k].words \in Nat
  BY Elements DEF Segment
<1>2. /\ \A k \in 1..n : S[k] = S[k - 1] + doc[k].words
      /\ \A k \in 0..n : S[k] \in Nat
  BY CumulativeSums
<1> HIDE DEF S
<1> SUFFICES ASSUME Bad # {} PROVE FALSE
  BY DEF S
<1>3. Bad \in SUBSET Nat /\ \A k \in i..n : k \notin Bad => S[i] <= S[k]
  BY <1>1
<1>4. \A k \in Bad : k \in i..n /\ ~(S[i] <= S[k])
  OBVIOUS
<1> HIDE DEF Bad
<1>5. PICK k \in Bad : \A m \in Bad : k <= m
  BY <1>3, LeastNatural
<1>6. k # i
  BY <1>1, <1>2, <1>4
<1>7. k - 1 \in i..n /\ k \in 1..n
  BY <1>1, <1>4, <1>6
<1>8. k - 1 \notin Bad
  BY <1>3, <1>5
<1>9. S[i] <= S[k - 1]
  BY <1>3, <1>7, <1>8
<1>10. S[k] = S[k - 1] + doc[k].words /\ S[i] \in Nat /\ S[k - 1] \in Nat
  BY <1>1, <1>2, <1>7
<1> QED
  BY <1>1, <1>4, <1>7, <1>9, <1>10

\* The weight of a range grows with it, and is that of its parts together.
LEMMA WeightParts ==
  ASSUME NEW doc \in Seq(Segment), NEW a \in 1..Len(doc), NEW b \in a..Len(doc)
  PROVE  /\ \A i \in a - 1..b : Weight(doc, a, i, a, b) \in Nat
         /\ Weight(doc, a, a - 1, a, b) = 0
         /\ \A i, j \in a - 1..b : i <= j => Weight(doc, a, i, a, b) <= Weight(doc, a, j, a, b)
         /\ \A x \in a..b, y \in a - 1..b : x <= y + 1 =>
              Weight(doc, x, y, a, b) = Weight(doc, a, y, a, b) - Weight(doc, a, x - 1, a, b)
<1> DEFINE S == Cumulative(doc)
           n == Len(doc)
<1>1. n \in Nat /\ a \in Nat /\ b \in Nat /\ 1 <= a /\ a <= b /\ b <= n
  BY Elements
<1>2. \A i \in a - 1..b : i \in 0..n
  BY <1>1
<1>3. \A i \in a - 1..b : S[i] \in Nat
  BY <1>2, CumulativeSums
<1>4. \A i, j \in a - 1..b : i <= j => S[i] <= S[j]
  <2>1. ASSUME NEW i \in a - 1..b, NEW j \in a - 1..b, i <= j PROVE i \in 0..n /\ j \in i..n
    BY <1>1, <2>1
  <2> QED
    BY <2>1, CumulativeGrows
<1> HIDE DEF S
<1>5. \E T : /\ \A i \in a - 1..b : T[i] \in Nat
             /\ \A i, j \in a - 1..b : i <= j => T[i] <= T[j]
             /\ \A x \in a..b, y \in a - 1..b : Weight(doc, x, y, a, b) = T[y] - T[x - 1]
  <2>1. CASE Words(doc, a, b) = 0
    <3> DEFINE T == [i \in a - 1..b |-> i]
    <3>1. \A i \in a - 1..b : T[i] = i /\ i \in Nat
      BY <1>1
    <3>2. ASSUME NEW x \in a..b, NEW y \in a - 1..b PROVE Weight(doc, x, y, a, b) = T[y] - T[x - 1]
      <4>1. T[y] = y /\ T[x - 1] = x - 1 /\ x \in Int /\ y \in Int
        BY <1>1, <3>1
      <4>2. Weight(doc, x, y, a, b) = y - x + 1
        BY <2>1 DEF Weight
      <4> QED
        BY <4>1, <4>2
    <3>3. \A i, j \in a - 1..b : i <= j => T[i] <= T[j]
      BY <3>1
    <3> HIDE DEF T
    <3> QED
      BY <3>1, <3>2, <3>3
  <2>2. CASE Words(doc, a, b) # 0
    <3>1. \A x \in a..b, y \in a - 1..b : Weight(doc, x, y, a, b) = S[y] - S[x - 1]
      BY <2>2 DEF Weight, Words, S
    <3> QED
      BY <1>3, <1>4, <3>1
  <2> QED
    BY <2>1, <2>2
<1>6. PICK T : /\ \A i \in a - 1..b : T[i] \in Nat
               /\ \A i, j \in a - 1..b : i <= j => T[i] <= T[j]
               /\ \A x \in a..b, y \in a - 1..b : Weight(doc, x, y, a, b) = T[y] - T[x - 1]
  BY <1>5
<1>7. a \in a..b /\ a - 1 \in a - 1..b /\ T[a - 1] \in Nat
  BY <1>1, <1>6
<1>8. \A i \in a - 1..b : Weight(doc, a, i, a, b) = T[i] - T[a - 1] /\ T[i] \in Nat /\ T[a - 1] <= T[i]
  BY <1>1, <1>6, <1>7
<1>9. /\ \A i \in a - 1..b : Weight(doc, a, i, a, b) \in Nat
      /\ Weight(doc, a, a - 1, a, b) = 0
  <2>1. ASSUME NEW i \in a - 1..b PROVE Weight(doc, a, i, a, b) \in Nat
    <3>1. Weight(doc, a, i, a, b) = T[i] - T[a - 1] /\ T[i] \in Nat /\ T[a - 1] <= T[i]
      BY <1>8
    <3> QED
      BY <1>7, <3>1
  <2>2. Weight(doc, a, a - 1, a, b) = T[a - 1] - T[a - 1]
    BY <1>7, <1>8
  <2> QED
    BY <1>7, <2>1, <2>2
<1>10. ASSUME NEW i \in a - 1..b, NEW j \in a - 1..b, i <= j
       PROVE  Weight(doc, a, i, a, b) <= Weight(doc, a, j, a, b)
  <2>1. T[i] <= T[j] /\ T[i] \in Nat /\ T[j] \in Nat
    BY <1>6, <1>10
  <2>2. /\ Weight(doc, a, i, a, b) = T[i] - T[a - 1]
        /\ Weight(doc, a, j, a, b) = T[j] - T[a - 1]
    BY <1>8
  <2> QED
    BY <1>7, <2>1, <2>2
<1>11. ASSUME NEW x \in a..b, NEW y \in a - 1..b
       PROVE  Weight(doc, x, y, a, b) = Weight(doc, a, y, a, b) - Weight(doc, a, x - 1, a, b)
  <2>1. x - 1 \in a - 1..b
    BY <1>1
  <2>2. T[y] \in Nat /\ T[x - 1] \in Nat /\ Weight(doc, x, y, a, b) = T[y] - T[x - 1]
    BY <1>6, <2>1
  <2>3. /\ Weight(doc, a, y, a, b) = T[y] - T[a - 1]
        /\ Weight(doc, a, x - 1, a, b) = T[x - 1] - T[a - 1]
    BY <1>8, <2>1
  <2> QED
    BY <1>7, <2>2, <2>3
<1> QED
  BY <1>9, <1>10, <1>11

-----------------------------------------------------------------------------
(* Where the parts end. *)

\* A finite set of positions below one of them has a greatest element below it.
LEMMA GreatestBelow ==
  ASSUME NEW T \in SUBSET Nat, NEW d \in Nat, NEW c \in T, c < d
  PROVE  \E p \in T : c <= p /\ p < d /\ \A j \in T : ~(p < j /\ j < d)
<1> DEFINE Gaps == {d - p : p \in {i \in T : c <= i /\ i < d}}
<1>1. \A p \in T : p \in Nat
  OBVIOUS
<1>2. Gaps \in SUBSET Nat /\ d - c \in Gaps
  BY <1>1
<1>3. PICK m \in Gaps : \A k \in Gaps : m <= k
  <2> HIDE DEF Gaps
  <2> QED
    BY <1>2, LeastNatural
<1>4. PICK p \in T : m = d - p /\ c <= p /\ p < d
  BY <1>3
<1>5. ASSUME NEW j \in T, p < j, j < d PROVE FALSE
  <2>1. d - j \in Gaps
    BY <1>1, <1>4, <1>5
  <2>2. d - p <= d - j
    BY <1>3, <1>4, <2>1
  <2> QED
    BY <1>1, <1>5, <2>2
<1> QED
  BY <1>4, <1>5

\* F says how much lies before each of the ends and before c.
Weighs(F, E, c) ==
  /\ \A i \in E \cup {c} : F[i] \in Nat
  /\ \A i, j \in E \cup {c} : i <= j => F[i] <= F[j]

\* Of the ends between the cuts c and d none is nearer to the ideal I than c, and
\* none as near to I + W as d; or what lies before c is not too little, or
\* what lies before d not too much.
NearBoth(F, E, c, d, I, W) ==
  /\ F[c] >= I \/ \A j \in E : c < j /\ j < d => Distance(F[c], I) <= Distance(F[j], I)
  /\ F[d] <= I + W \/ \A j \in E : c < j /\ j < d => Distance(F[d], I + W) < Distance(F[j], I + W)

\* Without one of its units the part between such cuts has no more than its share W.
LEMMA ShareAndUnit ==
  ASSUME NEW E \in SUBSET Nat, NEW F, NEW W \in Nat, NEW I \in Nat, NEW c \in Nat, NEW d \in E, c < d,
         Weighs(F, E, c), NearBoth(F, E, c, d, I, W)
  PROVE  \E p \in E \cup {c}, e \in E :
           /\ c <= p /\ p < e /\ e <= d /\ \A j \in E : ~(p < j /\ j < e)
           /\ (F[d] - F[c]) - (F[e] - F[p]) <= W
<1> DEFINE T == E \cup {c}
<1>1. T \in SUBSET Nat /\ c \in T /\ d \in T /\ d \in Nat
  OBVIOUS
<1>2. PICK p \in T : c <= p /\ p < d /\ \A j \in T : ~(p < j /\ j < d)
  <2> HIDE DEF T
  <2> QED
    BY <1>1, GreatestBelow
<1>6. \A i \in T : F[i] \in Nat
  BY DEF Weighs
<1>3. F[c] \in Nat /\ F[p] \in Nat /\ F[d] \in Nat /\ F[c] <= F[p] /\ F[p] <= F[d]
  <2>1. p \in Nat /\ p \in E \cup {c} /\ d \in E \cup {c} /\ p <= d /\ c <= p
    BY <1>1, <1>2
  <2> QED
    BY <2>1 DEF Weighs
<1>4. CASE F[d] - F[c] - (F[d] - F[p]) <= W
  BY <1>1, <1>2, <1>4
<1>5. CASE F[p] > F[c] + W
  <2>1. p \in E /\ c < p
    BY <1>1, <1>2, <1>3, <1>5
  <2>2. /\ F[p] <= I + W
        /\ F[d] <= I + W \/ F[d] + F[p] < 2 * (I + W)
    <3>1. CASE F[d] <= I + W
      BY <1>3, <3>1
    <3>2. CASE F[d] > I + W
      <4>1. Distance(F[d], I + W) < Distance(F[p], I + W)
        BY <1>2, <1>3, <2>1, <3>2 DEF NearBoth
      <4> QED
        BY <1>3, <3>2, <4>1 DEF Distance
    <3> QED
      BY <1>3, <3>1, <3>2
  <2> DEFINE gap == I - F[c]
  <2>3. gap \in Nat /\ gap > 0 /\ gap = I - F[c]
    BY <1>3, <1>5, <2>2
  <2> HIDE DEF gap
  <2>4. \A j \in E : c < j /\ j < d => F[j] <= F[c] \/ F[j] >= I + gap
    <3> SUFFICES ASSUME NEW j \in E, c < j, j < d PROVE F[j] <= F[c] \/ F[j] >= I + gap
      OBVIOUS
    <3>1. Distance(F[c], I) <= Distance(F[j], I) /\ F[j] \in Nat
      BY <1>3, <1>6, <2>3 DEF NearBoth
    <3> QED
      BY <1>3, <2>3, <3>1 DEF Distance
  <2> DEFINE High == {j \in E : c < j /\ j < d /\ F[j] >= I + gap}
  <2>5. p \in High /\ High \in SUBSET Nat
    <3>1. ~(F[p] <= F[c])
      BY <1>3, <1>5
    <3>2. F[p] >= I + gap
      BY <1>2, <2>1, <2>4, <3>1
    <3> QED
      BY <1>2, <2>1, <3>2
  <2>6. PICK e \in High : \A k \in High : e <= k
    <3> HIDE DEF High
    <3> QED
      BY <2>5, LeastNatural
  <2>7. e \in E /\ e \in Nat /\ c < e /\ e < d /\ F[e] >= I + gap
    BY <2>6
  <2>8. PICK q \in T : c <= q /\ q < e /\ \A j \in T : ~(q < j /\ j < e)
    <3> HIDE DEF T, High
    <3> QED
      BY <1>1, <2>7, GreatestBelow
  <2>9. F[q] <= F[c] /\ F[q] \in Nat
    <3>1. q \in Nat /\ F[q] \in Nat
      BY <1>1, <1>6
    <3>2. CASE q = c
      BY <1>3, <3>2
    <3>3. CASE q # c
      <4>1. q \in E /\ c < q /\ q < d
        BY <2>7, <2>8, <3>1, <3>3
      <4>2. q \notin High
        BY <2>6, <2>7, <2>8, <3>1
      <4> QED
        BY <2>4, <3>1, <4>1, <4>2
    <3> QED
      BY <3>2, <3>3
  <2>10. F[e] \in Nat /\ F[e] - F[q] >= 2 * gap
    BY <1>3, <1>6, <2>3, <2>7, <2>9
  <2>11. CASE F[d] <= I + W + gap
    <3>1. (F[d] - F[c]) - (F[e] - F[q]) <= W
      BY <1>3, <2>3, <2>9, <2>10, <2>11
    <3> QED
      BY <1>1, <2>7, <2>8, <3>1
  <2>12. CASE F[d] > I + W + gap
    <3>1. (F[d] - F[c]) - (F[d] - F[p]) <= W
      BY <1>3, <2>2, <2>3, <2>12
    <3> QED
      BY <1>4, <3>1
  <2> QED
    BY <1>3, <2>3, <2>11, <2>12
<1> QED
  BY <1>3, <1>4, <1>5

\* The cuts, up to part m.
CutsTo(doc, a, b, n, m, f) ==
  f = [k \in 0..m |->
         IF k = 0 THEN a - 1
         ELSE IF k = n THEN b
         ELSE Nearest(doc, a, b, n, k, Candidates(UnitEnds(doc, a, b), f[k - 1], n - k))]

LEMMA CutsExist ==
  ASSUME NEW doc, NEW a, NEW b, NEW n, NEW m \in Nat
  PROVE  \E f : CutsTo(doc, a, b, n, m, f)
<1> DEFINE Bad == {k \in Nat : ~ \E f : CutsTo(doc, a, b, n, k, f)}
           Step(k, x) == IF k = 0 THEN a - 1
                         ELSE IF k = n THEN b
                         ELSE Nearest(doc, a, b, n, k, Candidates(UnitEnds(doc, a, b), x, n - k))
<1> SUFFICES ASSUME Bad # {} PROVE FALSE
  BY DEF Bad
<1>1. PICK k \in Bad : \A j \in Bad : k <= j
  BY LeastNatural DEF Bad
<1>2. k \in Nat /\ ~ \E f : CutsTo(doc, a, b, n, k, f)
  BY DEF Bad
<1>3. \A f, j : CutsTo(doc, a, b, n, j, f) <=> f = [i \in 0..j |-> Step(i, f[i - 1])]
  BY DEF CutsTo
<1>4. Step(0, 0) = a - 1 /\ \A x : Step(0, x) = Step(0, 0)
  OBVIOUS
<1> HIDE DEF Step
<1>5. k # 0
  <2> DEFINE f == [i \in 0..0 |-> Step(0, 0)]
  <2>1. f = [i \in 0..0 |-> Step(i, f[i - 1])]
    BY <1>4
  <2> HIDE DEF f
  <2> QED
    BY <1>2, <1>3, <2>1
<1>6. k - 1 \in Nat /\ k - 1 \notin Bad
  BY <1>1, <1>2, <1>5
<1>7. PICK f : f = [i \in 0..k - 1 |-> Step(i, f[i - 1])]
  BY <1>3, <1>6 DEF Bad
<1> DEFINE e == Step(k, f[k - 1])
           g == [i \in 0..k |-> IF i = k THEN e ELSE f[i]]
<1>8. ASSUME NEW i \in 0..k PROVE g[i] = Step(i, g[i - 1])
  <2>1. CASE i = k
    <3> HIDE DEF e
    <3>1. g[k] = e /\ g[k - 1] = f[k - 1]
      BY <1>2, <1>5
    <3> QED
      BY <2>1, <3>1 DEF e
  <2>2. CASE i # k
    <3>1. i \in 0..k - 1 /\ (i # 0 => i - 1 \in 0..k /\ i - 1 # k)
      BY <1>2, <2>2
    <3>2. f[i] = Step(i, f[i - 1])
      BY <1>7, <3>1
    <3> HIDE DEF e
    <3>3. g[i] = f[i] /\ (i # 0 => g[i - 1] = f[i - 1])
      BY <2>2, <3>1
    <3> QED
      BY <1>4, <3>2, <3>3
  <2> QED
    BY <2>1, <2>2
<1>9. g = [i \in 0..k |-> g[i]]
  OBVIOUS
<1> HIDE DEF g
<1>10. g = [i \in 0..k |-> Step(i, g[i - 1])]
  BY <1>8, <1>9
<1> QED
  BY <1>2, <1>3, <1>10

\* Each cut is the one that comes nearest to its ideal, given the one before.
LEMMA CutSteps ==
  ASSUME NEW doc, NEW a, NEW b, NEW n \in Nat \ {0}
  PROVE  LET cut == Cuts(doc, a, b, n)
         IN /\ cut[0] = a - 1 /\ cut[n] = b
            /\ \A k \in 1..n - 1 :
                 cut[k] = Nearest(doc, a, b, n, k, Candidates(UnitEnds(doc, a, b), cut[k - 1], n - k))
<1> DEFINE cut == Cuts(doc, a, b, n)
<1>1. CutsTo(doc, a, b, n, n, cut)
  <2>1. cut = CHOOSE f : CutsTo(doc, a, b, n, n, f)
    BY DEF Cuts, CutsTo
  <2> QED
    BY <2>1, CutsExist
<1> HIDE DEF cut
<1>2. \A k \in 0..n : cut[k] = IF k = 0 THEN a - 1
                               ELSE IF k = n THEN b
                               ELSE Nearest(doc, a, b, n, k, Candidates(UnitEnds(doc, a, b), cut[k - 1], n - k))
  BY <1>1 DEF CutsTo
<1>3. /\ 0 \in 0..n /\ n \in 0..n /\ n # 0
      /\ \A k \in 1..n - 1 : k \in 0..n /\ k # 0 /\ k # n
  OBVIOUS
<1> QED
  BY <1>2, <1>3 DEF cut

\* How far a cut is from its ideal is a number.
LEMMA OffType ==
  ASSUME NEW doc \in Seq(Segment), NEW a \in 1..Len(doc), NEW b \in a..Len(doc),
         NEW n \in Nat, NEW k \in Nat, NEW i \in a - 1..b
  PROVE  Off(doc, a, b, n, k, i) \in Nat
<1>1. Weight(doc, a, i, a, b) \in Nat /\ Weight(doc, a, b, a, b) \in Nat
  <2>1. b \in a - 1..b
    BY Elements
  <2> QED
    BY <2>1, WeightParts
<1>2. n * Weight(doc, a, i, a, b) \in Nat /\ k * Weight(doc, a, b, a, b) \in Nat
  BY <1>1
<1> QED
  BY <1>2 DEF Off, Distance

\* Among candidates there is a nearest one.
LEMMA NearestIsNearest ==
  ASSUME NEW doc \in Seq(Segment), NEW a \in 1..Len(doc), NEW b \in a..Len(doc),
         NEW n \in Nat, NEW k \in Nat, NEW C \in SUBSET (a..b), C # {}
  PROVE  /\ Nearest(doc, a, b, n, k, C) \in C
         /\ \A j \in C : LET x == Off(doc, a, b, n, k, Nearest(doc, a, b, n, k, C))
                             y == Off(doc, a, b, n, k, j)
                         IN x < y \/ (x = y /\ Nearest(doc, a, b, n, k, C) <= j)
<1> DEFINE O(i) == Off(doc, a, b, n, k, i)
<1>1. \A i \in C : i \in Nat /\ i \in a - 1..b
  BY Elements
<1>2. \A i \in C : O(i) \in Nat
  BY <1>1, OffType
<1> HIDE DEF O
<1> DEFINE Offs == {O(i) : i \in C}
<1>3. PICK m \in Offs : \A x \in Offs : m <= x
  <2>1. Offs \in SUBSET Nat /\ Offs # {}
    BY <1>2
  <2> HIDE DEF Offs
  <2> QED
    BY <2>1, LeastNatural
<1> DEFINE Best == {i \in C : O(i) = m}
<1>4. PICK i \in Best : \A j \in Best : i <= j
  <2>1. Best \in SUBSET Nat /\ Best # {}
    BY <1>1
  <2> HIDE DEF Best
  <2> QED
    BY <2>1, LeastNatural
<1>5. i \in C /\ \A j \in C : O(i) < O(j) \/ (O(i) = O(j) /\ i <= j)
  <2>1. ASSUME NEW j \in C PROVE O(i) < O(j) \/ (O(i) = O(j) /\ i <= j)
    <3>1. O(i) = m /\ O(j) \in Offs /\ m <= O(j) /\ O(j) \in Nat /\ m \in Nat
      BY <1>2, <1>3
    <3>2. O(j) = m => i <= j
      BY <1>4
    <3> QED
      BY <3>1, <3>2
  <2> QED
    BY <2>1
<1>6. Nearest(doc, a, b, n, k, C) = CHOOSE h \in C : \A j \in C : O(h) < O(j) \/ (O(h) = O(j) /\ h <= j)
  BY DEF Nearest, O
<1> QED
  BY <1>5, <1>6 DEF O

\* Of the ends, those after position x.
After(E, x) == {j \in E : j > x}

LEMMA AfterCounts ==
  ASSUME NEW E \in SUBSET Nat, IsFiniteSet(E)
  PROVE  /\ \A x : IsFiniteSet(After(E, x)) /\ Cardinality(After(E, x)) \in Nat
         /\ \A x \in Int, d \in E : x < d => Cardinality(After(E, x)) >= Cardinality(After(E, d)) + 1
<1>1. ASSUME NEW x PROVE IsFiniteSet(After(E, x)) /\ Cardinality(After(E, x)) \in Nat
  <2>1. After(E, x) \in SUBSET E
    BY DEF After
  <2> QED
    BY <2>1, FS_Subset, FS_CardinalityType
<1>2. ASSUME NEW x \in Int, NEW d \in E, x < d
      PROVE  Cardinality(After(E, x)) >= Cardinality(After(E, d)) + 1
  <2> DEFINE D == After(E, d) \cup {d}
  <2>0. \A j \in E : j \in Nat
    OBVIOUS
  <2>1. d \notin After(E, d) /\ D \subseteq After(E, x)
    <3>1. d \notin After(E, d) /\ d \in After(E, x)
      BY <1>2, <2>0 DEF After
    <3>2. \A j \in After(E, d) : j \in After(E, x)
      BY <1>2, <2>0 DEF After
    <3> QED
      BY <3>1, <3>2
  <2>2. Cardinality(D) = Cardinality(After(E, d)) + 1
    BY <1>1, <2>1, FS_AddElement
  <2> HIDE DEF D
  <2>3. Cardinality(D) <= Cardinality(After(E, x))
    BY <1>1, <2>1, FS_Subset
  <2> QED
    BY <1>1, <2>2, <2>3
<1> QED
  BY <1>1, <1>2

\* After the next end there is one end less.
LEMMA NextEnd ==
  ASSUME NEW E \in SUBSET Nat, IsFiniteSet(E), NEW x \in Int, NEW r \in Nat,
         Cardinality(After(E, x)) >= r + 1
  PROVE  \E i \in E : i > x /\ Cardinality(After(E, i)) >= r
<1>1. \A y : IsFiniteSet(After(E, y)) /\ Cardinality(After(E, y)) \in Nat
  BY AfterCounts
<1>2. After(E, x) # {} /\ After(E, x) \in SUBSET Nat
  <2>1. Cardinality(After(E, x)) # 0
    BY <1>1
  <2> QED
    BY <2>1, FS_EmptySet DEF After
<1>3. PICK i \in After(E, x) : \A j \in After(E, x) : i <= j
  BY <1>2, LeastNatural
<1>4. i \in E /\ i > x
  BY <1>3 DEF After
<1>5. After(E, i) = After(E, x) \ {i}
  <2>1. \A j \in E : j \in Nat
    OBVIOUS
  <2>2. ASSUME NEW j \in E PROVE j > i <=> (j > x /\ j # i)
    <3>1. j > x => i <= j
      BY <1>3 DEF After
    <3> QED
      BY <1>4, <2>1, <3>1
  <2> QED
    BY <2>2 DEF After
<1>6. Cardinality(After(E, i)) = Cardinality(After(E, x)) - 1
  <2>1. IsFiniteSet(After(E, x))
    BY <1>1
  <2>2. Cardinality(After(E, x) \ {i}) = Cardinality(After(E, x)) - 1
    BY <1>3, <2>1, FS_RemoveElement
  <2> QED
    BY <1>5, <2>2
<1> QED
  BY <1>1, <1>4, <1>6

\* The ends of a range that cuts no unit.
LEMMA EndsOfRange ==
  ASSUME NEW doc \in Seq(Segment), NEW a \in DOMAIN doc, NEW b \in DOMAIN doc, CanDivide(doc, a, b)
  PROVE  /\ a \in 1..Len(doc) /\ b \in a..Len(doc)
         /\ UnitEnds(doc, a, b) \in SUBSET (a..b) /\ b \in UnitEnds(doc, a, b)
         /\ UnitEnds(doc, a, b) \in SUBSET Nat /\ IsFiniteSet(UnitEnds(doc, a, b))
         /\ Cardinality(UnitEnds(doc, a, b)) \in Nat \ {0}
<1>1. a \in 1..Len(doc) /\ b \in a..Len(doc) /\ a \in Nat /\ b \in Nat /\ a <= b
  BY Elements DEF CanDivide
<1>2. UnitEnds(doc, a, b) \in SUBSET (a..b) /\ b \in UnitEnds(doc, a, b)
  BY <1>1 DEF UnitEnds, CanDivide
<1>3. IsFiniteSet(a..b) /\ \A i \in a..b : i \in Nat
  <2>1. a \in Int /\ b \in Int /\ \A i \in a..b : i \in Nat
    BY <1>1
  <2> QED
    BY <2>1, FS_Interval
<1>4. IsFiniteSet(UnitEnds(doc, a, b)) /\ Cardinality(UnitEnds(doc, a, b)) \in Nat
  BY <1>2, <1>3, FS_Subset, FS_CardinalityType
<1>5. Cardinality(UnitEnds(doc, a, b)) # 0
  BY <1>2, <1>4, FS_EmptySet
<1> QED
  BY <1>1, <1>2, <1>3, <1>4, <1>5

\* A cut leaves an end for each part of the rest, and so the next finds one.
LEMMA CutsInOrder ==
  ASSUME NEW doc \in Seq(Segment), NEW a \in DOMAIN doc, NEW b \in DOMAIN doc, CanDivide(doc, a, b),
         NEW n \in 1..Cardinality(UnitEnds(doc, a, b))
  PROVE  LET E   == UnitEnds(doc, a, b)
             cut == Cuts(doc, a, b, n)
         IN /\ \A k \in 0..n : cut[k] \in Nat /\ Cardinality(After(E, cut[k])) >= n - k
            /\ \A k \in 1..n : cut[k] \in E /\ cut[k - 1] < cut[k]
            /\ \A k \in 1..n - 1 : LET C == Candidates(E, cut[k - 1], n - k)
                                   IN C \in SUBSET (a..b) /\ C # {} /\ cut[k] = Nearest(doc, a, b, n, k, C)
<1> DEFINE E   == UnitEnds(doc, a, b)
           cut == Cuts(doc, a, b, n)
           C(k) == Candidates(E, cut[k - 1], n - k)
<1>1. /\ a \in 1..Len(doc) /\ b \in a..Len(doc) /\ a \in Nat /\ a >= 1 /\ b \in Nat /\ a <= b
      /\ E \in SUBSET (a..b) /\ b \in E /\ E \in SUBSET Nat /\ IsFiniteSet(E)
      /\ Cardinality(E) \in Nat \ {0} /\ n \in Nat \ {0} /\ n <= Cardinality(E)
  BY EndsOfRange, Elements
<1>2. /\ cut[0] = a - 1 /\ cut[n] = b
      /\ \A k \in 1..n - 1 : cut[k] = Nearest(doc, a, b, n, k, C(k))
  BY <1>1, CutSteps
<1>3. \A x : Cardinality(After(E, x)) \in Nat
  BY <1>1, AfterCounts
<1> DEFINE Good(k) == cut[k] \in Nat /\ Cardinality(After(E, cut[k])) >= n - k
<1> HIDE DEF E, cut
<1>4. Good(0)
  <2>1. After(E, a - 1) = E
    BY <1>1 DEF After
  <2> QED
    BY <1>1, <1>2, <2>1
<1>5. ASSUME NEW k \in 1..n, Good(k - 1)
      PROVE  /\ Good(k) /\ cut[k] \in E /\ cut[k - 1] < cut[k]
             /\ k < n => C(k) \in SUBSET (a..b) /\ C(k) # {}
  <2>1. k \in Nat /\ n - k \in Nat /\ cut[k - 1] \in Nat /\ Cardinality(After(E, cut[k - 1])) >= (n - k) + 1
    BY <1>1, <1>5, <1>3
  <2>2. PICK i \in E : i > cut[k - 1] /\ Cardinality(After(E, i)) >= n - k
    BY <1>1, <2>1, NextEnd
  <2>3. CASE k = n
    <3>1. cut[k] = b /\ cut[k - 1] < b
      BY <1>1, <1>2, <2>1, <2>2, <2>3
    <3>2. Cardinality(After(E, cut[k])) >= n - k
      BY <1>1, <1>3, <2>3
    <3> QED
      BY <1>1, <2>3, <3>1, <3>2
  <2>4. CASE k # n
    <3>1. k \in 1..n - 1
      BY <1>1, <2>4
    <3>2. /\ \A j \in C(k) : j \in E /\ j > cut[k - 1] /\ Cardinality(After(E, j)) >= n - k
          /\ i \in C(k)
      BY <2>2 DEF Candidates, After
    <3>3. C(k) \in SUBSET (a..b) /\ C(k) # {}
      BY <1>1, <3>2
    <3>4. cut[k] = Nearest(doc, a, b, n, k, C(k))
      BY <1>2, <3>1
    <3> HIDE DEF C
    <3>5. cut[k] \in C(k)
      <4> HIDE DEF Good
      <4>1. a \in 1..Len(doc) /\ b \in a..Len(doc) /\ n \in Nat /\ k \in Nat
        BY <1>1, <2>1
      <4>2. Nearest(doc, a, b, n, k, C(k)) \in C(k)
        BY <3>3, <4>1, NearestIsNearest
      <4> QED
        BY <3>4, <4>2
    <3>6. cut[k] \in E /\ cut[k] > cut[k - 1] /\ Cardinality(After(E, cut[k])) >= n - k
      <4> HIDE DEF Good
      <4>1. ASSUME NEW j \in C(k) PROVE j \in E /\ j > cut[k - 1] /\ Cardinality(After(E, j)) >= n - k
        BY <3>2
      <4> QED
        BY <3>5, <4>1
    <3>7. cut[k] \in Nat
      BY <1>1, <3>6
    <3>8. Good(k) /\ cut[k - 1] < cut[k]
      BY <2>1, <3>6, <3>7
    <3> HIDE DEF Good
    <3> QED
      BY <3>3, <3>6, <3>8
  <2> QED
    BY <2>3, <2>4
<1>6. \A k \in 0..n : Good(k)
  <2> DEFINE Bad == {k \in 0..n : ~Good(k)}
  <2> HIDE DEF Good
  <2> SUFFICES ASSUME Bad # {} PROVE FALSE
    OBVIOUS
  <2>1. Bad \in SUBSET Nat
    OBVIOUS
  <2>2. PICK k \in Bad : \A j \in Bad : k <= j
    <3> HIDE DEF Bad
    <3> QED
      BY <2>1, LeastNatural
  <2>3. k \in 1..n /\ k - 1 \in 0..n
    BY <1>1, <1>4, <2>2
  <2>4. Good(k - 1)
    BY <2>1, <2>2, <2>3
  <2> QED
    BY <1>5, <2>2, <2>3, <2>4
<1>7. \A k \in 1..n : k - 1 \in 0..n
  BY <1>1
<1>8. \A k \in 1..n - 1 : k \in 1..n /\ k < n
  BY <1>1
<1> HIDE DEF C
<1>9. \A k \in 1..n : cut[k] \in E /\ cut[k - 1] < cut[k] /\ (k < n => C(k) \in SUBSET (a..b) /\ C(k) # {})
  BY <1>5, <1>6, <1>7
<1> QED
  BY <1>2, <1>6, <1>8, <1>9 DEF E, cut, C

\* Of two candidates for a cut the one that was not taken is no nearer to the
\* ideal, and what comes before the next cut was a candidate.
LEMMA CutsAreNearest ==
  ASSUME NEW doc \in Seq(Segment), NEW a \in DOMAIN doc, NEW b \in DOMAIN doc, CanDivide(doc, a, b),
         NEW n \in 1..Cardinality(UnitEnds(doc, a, b)), NEW k \in 1..n
  PROVE  LET E   == UnitEnds(doc, a, b)
             cut == Cuts(doc, a, b, n)
         IN /\ k > 1 => \A j \in E : cut[k - 1] < j /\ j < cut[k] =>
                          Off(doc, a, b, n, k - 1, cut[k - 1]) <= Off(doc, a, b, n, k - 1, j)
            /\ k < n => \A j \in E : cut[k - 1] < j /\ j < cut[k] =>
                          Off(doc, a, b, n, k, cut[k]) < Off(doc, a, b, n, k, j)
<1> DEFINE E   == UnitEnds(doc, a, b)
           cut == Cuts(doc, a, b, n)
           C(m) == Candidates(E, cut[m - 1], n - m)
<1>1. /\ a \in 1..Len(doc) /\ b \in a..Len(doc) /\ a \in Nat /\ b \in Nat
      /\ E \in SUBSET (a..b) /\ E \in SUBSET Nat /\ IsFiniteSet(E) /\ n \in Nat /\ k \in Nat
      /\ \A x : Cardinality(After(E, x)) \in Nat
  BY EndsOfRange, Elements, AfterCounts
<1>2. /\ \A m \in 0..n : cut[m] \in Nat /\ Cardinality(After(E, cut[m])) >= n - m
      /\ \A m \in 1..n : cut[m] \in E /\ cut[m - 1] < cut[m]
      /\ \A m \in 1..n - 1 : C(m) \in SUBSET (a..b) /\ C(m) # {} /\ cut[m] = Nearest(doc, a, b, n, m, C(m))
  BY CutsInOrder
<1>3. \A j \in E, m \in 1..n : cut[m - 1] < j /\ Cardinality(After(E, j)) >= n - m => j \in C(m)
  BY DEF Candidates, After
<1> HIDE DEF E, cut, C
<1>4. ASSUME NEW m \in 1..n - 1, NEW j \in C(m)
      PROVE  \/ Off(doc, a, b, n, m, cut[m]) < Off(doc, a, b, n, m, j)
             \/ Off(doc, a, b, n, m, cut[m]) = Off(doc, a, b, n, m, j) /\ cut[m] <= j
  <2>1. m \in Nat
    BY <1>1
  <2>2. C(m) \in SUBSET (a..b) /\ C(m) # {} /\ cut[m] = Nearest(doc, a, b, n, m, C(m))
    BY <1>2
  <2> QED
    BY <1>1, <1>4, <2>1, <2>2, NearestIsNearest
<1>5. \A m \in 1..n, j \in a..b : Off(doc, a, b, n, m, j) \in Nat
  <2>1. ASSUME NEW m \in 1..n, NEW j \in a..b PROVE m \in Nat /\ j \in a - 1..b
    BY <1>1
  <2> QED
    BY <1>1, <2>1, OffType
<1>6. ASSUME NEW j \in E, cut[k - 1] < j, j < cut[k]
      PROVE  Cardinality(After(E, j)) >= (n - k) + 1
  <2>1. k \in 0..n /\ cut[k] \in E /\ Cardinality(After(E, cut[k])) >= n - k
    BY <1>1, <1>2
  <2>2. j \in Int
    BY <1>1
  <2>3. Cardinality(After(E, j)) >= Cardinality(After(E, cut[k])) + 1
    BY <1>1, <1>6, <2>1, <2>2, AfterCounts
  <2> QED
    BY <1>1, <2>1, <2>3
<1>7. ASSUME k > 1, NEW j \in E, cut[k - 1] < j, j < cut[k]
      PROVE  Off(doc, a, b, n, k - 1, cut[k - 1]) <= Off(doc, a, b, n, k - 1, j)
  <2>1. k - 1 \in 1..n - 1 /\ k - 1 \in 1..n /\ k - 2 \in 0..n
    BY <1>1, <1>7
  <2>2. cut[(k - 1) - 1] < cut[k - 1] /\ cut[(k - 1) - 1] \in Nat /\ cut[k - 1] \in E /\ j \in Nat /\ cut[k - 1] \in Nat
    BY <1>1, <1>2, <2>1
  <2>3. j \in C(k - 1)
    <3>1. cut[(k - 1) - 1] < j /\ n - (k - 1) = (n - k) + 1
      BY <1>1, <1>7, <2>2
    <3> QED
      BY <1>3, <1>6, <1>7, <2>1, <3>1
  <2>4. Off(doc, a, b, n, k - 1, cut[k - 1]) \in Nat /\ Off(doc, a, b, n, k - 1, j) \in Nat
    BY <1>1, <1>5, <2>1, <2>2
  <2> QED
    BY <1>4, <2>1, <2>3, <2>4
<1>8. ASSUME k < n, NEW j \in E, cut[k - 1] < j, j < cut[k]
      PROVE  Off(doc, a, b, n, k, cut[k]) < Off(doc, a, b, n, k, j)
  <2>1. k \in 1..n - 1 /\ cut[k] \in Nat /\ j \in Nat
    BY <1>1, <1>2, <1>8
  <2>2. j \in C(k)
    <3>1. Cardinality(After(E, j)) >= n - k
      BY <1>1, <1>6, <1>8
    <3> QED
      BY <1>3, <1>8, <3>1
  <2> QED
    BY <1>4, <1>8, <2>1, <2>2
<1> QED
  BY <1>7, <1>8 DEF E, cut

LEMMA TimesGrows ==
  ASSUME NEW n \in Nat, NEW x \in Nat, NEW y \in Nat, x <= y
  PROVE  n * x <= n * y
<1>1. PICK z \in Nat : y = x + z
  <2>1. y - x \in Nat /\ y = x + (y - x)
    OBVIOUS
  <2> QED
    BY <2>1
<1>2. n * y = n * x + n * z /\ n * x \in Nat /\ n * z \in Nat
  BY <1>1
<1> QED
  BY <1>2

LEMMA TimesDifference ==
  ASSUME NEW n \in Nat, NEW p \in Nat, NEW q \in Nat, NEW r \in Nat, NEW s \in Nat
  PROVE  n * ((p - q) - (r - s)) = (n * p - n * q) - (n * r - n * s)
  OBVIOUS

\* No part has more than its share and one unit.
LEMMA PartsShare ==
  ASSUME NEW doc \in Seq(Segment), NEW a \in DOMAIN doc, NEW b \in DOMAIN doc, CanDivide(doc, a, b),
         NEW n \in 1..Cardinality(UnitEnds(doc, a, b)), NEW k \in 1..n
  PROVE  LET cut == Cuts(doc, a, b, n)
             part == Weight(doc, cut[k - 1] + 1, cut[k], a, b)
         IN \E u \in Units(doc, a, b) :
              n * (part - Weight(doc, u.from, u.to, a, b)) <= Weight(doc, a, b, a, b)
<1> DEFINE E   == UnitEnds(doc, a, b)
           cut == Cuts(doc, a, b, n)
           P(i) == Weight(doc, a, i, a, b)
           W == P(b)
           I == (k - 1) * W
           F == [i \in a - 1..b |-> n * P(i)]
           c == cut[k - 1]
           d == cut[k]
<1>1. /\ a \in 1..Len(doc) /\ b \in a..Len(doc) /\ a \in Nat /\ a >= 1 /\ b \in Nat /\ a <= b
      /\ E \in SUBSET (a..b) /\ b \in E /\ E \in SUBSET Nat
      /\ Cardinality(E) \in Nat \ {0} /\ n \in Nat \ {0} /\ k \in Nat \ {0} /\ k <= n
  BY EndsOfRange, Elements
<1>2. /\ cut[0] = a - 1 /\ cut[n] = b
      /\ \A m \in 0..n : cut[m] \in Nat
      /\ \A m \in 1..n : cut[m] \in E /\ cut[m - 1] < cut[m]
  BY <1>1, CutSteps, CutsInOrder
<1>3. /\ \A i \in a - 1..b : P(i) \in Nat
      /\ P(a - 1) = 0
      /\ \A i, j \in a - 1..b : i <= j => P(i) <= P(j)
      /\ \A x \in a..b, y \in a - 1..b : x <= y + 1 => Weight(doc, x, y, a, b) = P(y) - P(x - 1)
  BY <1>1, WeightParts
<1>4. /\ k > 1 => \A j \in E : c < j /\ j < d => Off(doc, a, b, n, k - 1, c) <= Off(doc, a, b, n, k - 1, j)
      /\ k < n => \A j \in E : c < j /\ j < d => Off(doc, a, b, n, k, d) < Off(doc, a, b, n, k, j)
  BY CutsAreNearest
<1>5. \A m, i : Off(doc, a, b, n, m, i) = Distance(n * P(i), m * W)
  BY DEF Off
<1> HIDE DEF E, cut, P
<1>6. /\ c \in Nat /\ d \in E /\ d \in Nat /\ c < d /\ d <= b
      /\ IF k = 1 THEN c = a - 1 ELSE c \in E
  <2>1. k \in 0..n /\ k - 1 \in 0..n /\ (k # 1 => k - 1 \in 1..n)
    BY <1>1
  <2> QED
    BY <1>1, <1>2, <2>1
<1> HIDE DEF c, d
<1>7. c \in a - 1..b /\ \A i \in E \cup {c} : i \in a - 1..b
  <2>1. \A i \in a..b : i \in a - 1..b
    BY <1>1
  <2>2. a - 1 \in a - 1..b
    BY <1>1
  <2> QED
    BY <1>1, <1>6, <2>1, <2>2
<1>8. W \in Nat /\ I \in Nat /\ k * W = I + W
  <2>1. W \in Nat
    BY <1>1, <1>3
  <2> HIDE DEF W
  <2> QED
    BY <1>1, <2>1
<1>9. \A i \in a - 1..b : F[i] = n * P(i) /\ F[i] \in Nat
  BY <1>1, <1>3
<1>10. \A i, j \in a - 1..b : i <= j => F[i] <= F[j]
  <2>1. ASSUME NEW i \in a - 1..b, NEW j \in a - 1..b, i <= j PROVE F[i] <= F[j]
    <3>1. P(i) \in Nat /\ P(j) \in Nat /\ P(i) <= P(j) /\ F[i] = n * P(i) /\ F[j] = n * P(j)
      BY <1>3, <1>9, <2>1
    <3> HIDE DEF F
    <3>2. n * P(i) <= n * P(j)
      BY <1>1, <3>1, TimesGrows
    <3> QED
      BY <3>1, <3>2
  <2> QED
    BY <2>1
<1>11. F[c] >= I \/ \A j \in E : c < j /\ j < d => Distance(F[c], I) <= Distance(F[j], I)
  <2>1. CASE k = 1
    <3>1. I = 0
      BY <1>8, <2>1
    <3> QED
      BY <1>7, <1>9, <3>1
  <2>2. CASE k > 1
    BY <1>4, <1>5, <1>7, <1>9, <2>2
  <2> HIDE DEF W, I, F
  <2> QED
    BY <1>1, <2>1, <2>2
<1>12. F[d] <= I + W \/ \A j \in E : c < j /\ j < d => Distance(F[d], I + W) < Distance(F[j], I + W)
  <2>1. CASE k = n
    <3>1. d = b
      BY <1>2, <2>1 DEF d
    <3>2. F[d] = I + W
      BY <1>6, <1>7, <1>8, <1>9, <2>1, <3>1
    <3> QED
      BY <1>8, <3>2
  <2>2. CASE k < n
    BY <1>4, <1>5, <1>6, <1>7, <1>8, <1>9, <2>2
  <2> HIDE DEF W, I, F
  <2> QED
    BY <1>1, <2>1, <2>2
<1> HIDE DEF W, I
<1>13. PICK p \in E \cup {c}, e \in E :
         /\ c <= p /\ p < e /\ e <= d /\ \A j \in E : ~(p < j /\ j < e)
         /\ (F[d] - F[c]) - (F[e] - F[p]) <= W
  <2>1. Weighs(F, E, c)
    <3> HIDE DEF F
    <3> QED
      BY <1>7, <1>9, <1>10 DEF Weighs
  <2>2. NearBoth(F, E, c, d, I, W)
    <3> HIDE DEF F
    <3> QED
      BY <1>11, <1>12 DEF NearBoth
  <2> HIDE DEF F
  <2>3. E \in SUBSET Nat /\ W \in Nat /\ I \in Nat /\ c \in Nat /\ d \in E /\ c < d
    BY <1>1, <1>6, <1>8
  <2> QED
    BY <2>1, <2>2, <2>3, ShareAndUnit
<1> HIDE DEF F
<1> DEFINE u == [from |-> p + 1, to |-> e]
<1>14. p \in Nat /\ e \in Nat /\ p \in a - 1..b /\ e \in a..b /\ p + 1 \in a..b
  BY <1>1, <1>6, <1>7, <1>13
<1>15. p + 1 \in Starts(doc)
  <2>1. CASE p = a - 1
    BY <1>1, <1>14, <2>1 DEF CanDivide
  <2>2. CASE p \in E
    <3>1. p \in Ends(doc) /\ p < Len(doc) /\ p + 1 \in DOMAIN doc /\ p + 1 # 1 /\ p # Len(doc)
      BY <1>1, <1>13, <1>14, <2>2, Elements DEF E, UnitEnds
    <3>2. doc[p + 1].block # doc[p].block /\ (p + 1) - 1 = p
      BY <1>14, <3>1 DEF Ends
    <3> QED
      BY <3>1, <3>2 DEF Starts
  <2> QED
    BY <1>6, <1>13, <2>1, <2>2
<1>16. u \in Units(doc, a, b)
  <2>1. \A j \in E : ~(j \in p + 1..e - 1)
    BY <1>1, <1>13, <1>14
  <2>2. u.from = p + 1 /\ u.to = e /\ u.from <= u.to /\ E \cap u.from..u.to - 1 = {}
    BY <1>13, <1>14, <2>1
  <2>3. u \in [from: Starts(doc) \cap a..b, to: E]
    BY <1>13, <1>14, <1>15
  <2> HIDE DEF u
  <2> QED
    BY <2>2, <2>3 DEF Units, E
<1>17. /\ Weight(doc, c + 1, d, a, b) = P(d) - P(c)
       /\ Weight(doc, p + 1, e, a, b) = P(e) - P(p)
  <2>1. /\ c + 1 \in a..b /\ d \in a - 1..b /\ c + 1 <= d + 1 /\ (c + 1) - 1 = c
        /\ e \in a - 1..b /\ p + 1 <= e + 1 /\ (p + 1) - 1 = p
    BY <1>1, <1>6, <1>7, <1>13, <1>14
  <2> QED
    BY <1>3, <1>14, <2>1
<1>18. n * ((P(d) - P(c)) - (P(e) - P(p))) = (F[d] - F[c]) - (F[e] - F[p])
  <2>1. /\ P(c) \in Nat /\ P(d) \in Nat /\ P(e) \in Nat /\ P(p) \in Nat
        /\ F[c] = n * P(c) /\ F[d] = n * P(d) /\ F[e] = n * P(e) /\ F[p] = n * P(p)
    BY <1>3, <1>6, <1>7, <1>9, <1>13
  <2>2. n \in Nat
    BY <1>1
  <2>3. n * ((P(d) - P(c)) - (P(e) - P(p))) = (n * P(d) - n * P(c)) - (n * P(e) - n * P(p))
    BY <2>1, <2>2, TimesDifference
  <2> QED
    BY <2>1, <2>3
<1>19. n * (Weight(doc, c + 1, d, a, b) - Weight(doc, u.from, u.to, a, b)) <= W
  BY <1>13, <1>17, <1>18
<1> HIDE DEF u
<1> QED
  BY <1>16, <1>19 DEF c, d, cut, W, P

\* The parts follow each other, and none cuts a unit.
LEMMA PartsFit ==
  ASSUME NEW doc \in Seq(Segment), NEW a \in DOMAIN doc, NEW b \in DOMAIN doc, CanDivide(doc, a, b),
         NEW n \in 1..Cardinality(UnitEnds(doc, a, b)), NEW k \in 1..n
  PROVE  LET cut == Cuts(doc, a, b, n)
         IN /\ cut[k - 1] + 1 \in Starts(doc) /\ cut[k] \in Ends(doc)
            /\ cut[k - 1] + 1 <= cut[k]
<1> DEFINE cut == Cuts(doc, a, b, n)
<1>1. /\ a \in Nat /\ b \in Nat /\ b <= Len(doc) /\ UnitEnds(doc, a, b) \in SUBSET (a..b)
      /\ n \in Nat \ {0} /\ k \in Nat \ {0} /\ Len(doc) \in Nat /\ DOMAIN doc = 1..Len(doc)
  BY EndsOfRange, Elements
<1>2. /\ cut[0] = a - 1
      /\ \A m \in 0..n : cut[m] \in Nat
      /\ \A m \in 1..n : cut[m] \in UnitEnds(doc, a, b) /\ cut[m - 1] < cut[m]
  <2>1. cut[0] = a - 1
    BY <1>1, CutSteps
  <2>2. /\ \A m \in 0..n : cut[m] \in Nat
        /\ \A m \in 1..n : cut[m] \in UnitEnds(doc, a, b) /\ cut[m - 1] < cut[m]
    BY CutsInOrder
  <2> HIDE DEF cut
  <2> QED
    BY <2>1, <2>2
<1> HIDE DEF cut
<1>3. cut[k] \in UnitEnds(doc, a, b) /\ cut[k - 1] < cut[k] /\ cut[k] \in Nat /\ cut[k - 1] \in Nat
  <2>1. k \in 0..n /\ k - 1 \in 0..n
    BY <1>1
  <2> QED
    BY <1>2, <2>1
<1>4. cut[k] \in Ends(doc) /\ cut[k] <= b
  BY <1>1, <1>3 DEF UnitEnds
<1>5. CASE k = 1
  BY <1>1, <1>2, <1>3, <1>4, <1>5 DEF CanDivide, cut
<1>6. CASE k # 1
  <2>1. k - 1 \in 1..n
    BY <1>1, <1>6
  <2>2. cut[k - 1] \in Ends(doc)
    BY <1>2, <2>1 DEF UnitEnds
  <2>3. cut[k - 1] # Len(doc) /\ cut[k - 1] + 1 \in DOMAIN doc /\ cut[k - 1] + 1 # 1 /\ (cut[k - 1] + 1) - 1 = cut[k - 1]
    <3>1. cut[k - 1] \in DOMAIN doc
      BY <2>2 DEF Ends
    <3> QED
      BY <1>1, <1>3, <1>4, <3>1
  <2>4. doc[cut[k - 1] + 1].block # doc[cut[k - 1]].block
    BY <2>2, <2>3 DEF Ends
  <2>5. cut[k - 1] + 1 \in Starts(doc)
    BY <2>3, <2>4 DEF Starts
  <2> QED
    BY <1>3, <1>4, <2>5 DEF cut
<1> QED
  BY <1>5, <1>6

\* Whatever the file looks like and however many parts are asked for, what the
\* preview proposes can be granted, and no part of it has more than its share and
\* one unit.
THEOREM PreviewIsGranted == Spec => []PreviewCanBeGranted
<1>1. TypeOK => PreviewCanBeGranted
  <2> SUFFICES ASSUME TypeOK, NEW a \in DOMAIN seg, NEW b \in DOMAIN seg, CanDivide(seg, a, b),
                      NEW r \in 1..Len(seg)
               PROVE
                 LET parts == Parts(seg, a, b, r)
                     last  == Len(parts)
                     W(p)  == Weight(seg, p.from, p.to, a, b)
                 IN /\ parts[1].from = a /\ parts[last].to = b
                    /\ \A k \in 1..last - 1 : parts[k + 1].from = parts[k].to + 1
                    /\ \A k \in 1..last :
                         /\ parts[k].from <= parts[k].to /\ Bounded(parts[k])
                         /\ \E u \in Units(seg, a, b) :
                              last * (W(parts[k]) - W(u)) <= W([from |-> a, to |-> b])
    BY DEF PreviewCanBeGranted
  <2> DEFINE units == Cardinality(UnitEnds(seg, a, b))
             n     == IF r < units THEN r ELSE units
             cut   == Cuts(seg, a, b, n)
             parts == Parts(seg, a, b, r)
  <2>1. seg \in Seq(Segment) /\ Len(seg) \in Nat /\ r \in Nat \ {0} /\ DOMAIN seg = 1..Len(seg)
    BY Elements DEF TypeOK
  <2>2. units \in Nat \ {0} /\ a \in Nat /\ a >= 1
    BY <2>1, EndsOfRange
  <2>3. n \in 1..units /\ n \in Nat \ {0}
    BY <2>1, <2>2
  <2>4. parts = [k \in 1..n |-> [from |-> cut[k - 1] + 1, to |-> cut[k]]]
    BY DEF Parts
  <2> HIDE DEF units, n, cut, parts
  <2>5. Len(parts) = n
    BY <2>3, <2>4
  <2>6. \A k \in 1..n : parts[k].from = cut[k - 1] + 1 /\ parts[k].to = cut[k]
    BY <2>4
  <2>7. /\ cut[0] = a - 1 /\ cut[n] = b
        /\ \A k \in 0..n : cut[k] \in Nat
    <3>1. cut[0] = a - 1 /\ cut[n] = b
      BY <2>3, CutSteps DEF cut
    <3>2. \A k \in 0..n : cut[k] \in Nat
      BY <2>1, <2>3, CutsInOrder DEF units, cut
    <3> QED
      BY <3>1, <3>2
  <2>8. \A k \in 1..n : cut[k - 1] + 1 \in Starts(seg) /\ cut[k] \in Ends(seg) /\ cut[k - 1] + 1 <= cut[k]
    BY <2>1, <2>3, PartsFit DEF units, cut
  <2>9. \A k \in 1..n : \E u \in Units(seg, a, b) :
          n * (Weight(seg, cut[k - 1] + 1, cut[k], a, b) - Weight(seg, u.from, u.to, a, b)) <= Weight(seg, a, b, a, b)
    BY <2>1, <2>3, PartsShare DEF units, cut
  <2>10. parts[1].from = a /\ parts[n].to = b
    <3>1. 1 \in 1..n /\ n \in 1..n
      BY <2>3
    <3> QED
      BY <2>2, <2>6, <2>7, <3>1
  <2>11. ASSUME NEW k \in 1..n - 1 PROVE parts[k + 1].from = parts[k].to + 1
    <3>1. k \in 1..n /\ k + 1 \in 1..n /\ (k + 1) - 1 = k
      BY <2>3
    <3> QED
      BY <2>6, <3>1
  <2>12. ASSUME NEW k \in 1..n PROVE parts[k].from <= parts[k].to /\ Bounded(parts[k])
    <3>1. /\ parts[k].from \in Starts(seg) /\ parts[k].to \in Ends(seg)
          /\ parts[k].from <= parts[k].to
      BY <2>6, <2>8
    <3>2. parts[k].from \in 1..Len(seg) /\ parts[k].to \in 1..Len(seg)
      BY <2>1, <3>1 DEF Starts, Ends
    <3>3. parts[k].from > 1 => seg[parts[k].from - 1].block # seg[parts[k].from].block
      BY <3>1, <3>2 DEF Starts
    <3>4. parts[k].to < Len(seg) => seg[parts[k].to].block # seg[parts[k].to + 1].block
      BY <2>1, <3>1, <3>2 DEF Ends
    <3> QED
      BY <2>1, <3>1, <3>2, <3>3, <3>4 DEF Bounded
  <2>13. ASSUME NEW k \in 1..n
         PROVE  \E u \in Units(seg, a, b) :
                  n * (Weight(seg, parts[k].from, parts[k].to, a, b) - Weight(seg, u.from, u.to, a, b))
                    <= Weight(seg, a, b, a, b)
    BY <2>6, <2>9
  <2> QED
    BY <2>5, <2>10, <2>11, <2>12, <2>13 DEF parts
<1> QED
  BY <1>1, AssignmentTypeCorrect, PTL
=============================================================================
