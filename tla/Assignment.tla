----------------------------- MODULE Assignment -----------------------------
(***************************************************************************)
(* The translators of one file (app/routers/api.py: the assignments of a   *)
(* project and the transitions of its workflow).                           *)
(*                                                                         *)
(* A grant gives a translator the file, or a range of it by display index, *)
(* at one step of the workflow; what she may write are the segments of her *)
(* range that are at her step.  Managers load the grants and save a new    *)
(* set of them with the revision they were shown, a hash of the grants.  A *)
(* save locks the project, compares the revision, validates, and commits;  *)
(* it may carry along segments that wait one step before a new grant.      *)
(* Meanwhile segments are split, merged and moved between steps.           *)
(*                                                                         *)
(* Statements see what is committed when they start, and sessions do not   *)
(* flush before a query: a save's own changes are not seen by its queries. *)
(***************************************************************************)
EXTENDS AssignmentSplit

CONSTANTS
  Translators, Managers,
  Documents,   \* files to start with: sequences of [block, words]
  Steps,       \* how many steps the workflow has
  None,        \* no draft, no request, no revision
  MaxRows,     \* bound: segments of the file
  MaxSaves,    \* bound: saves
  MaxChanges   \* bound: splits, merges and moves

VARIABLES
  seg,     \* the segments of the file, in order
  grants,  \* the active rows of table file_assignments
  draft,   \* what each manager has on the screen
  req,     \* the save each manager has in flight
  saves, changes

vars == <<seg, grants, draft, req, saves, changes>>

-----------------------------------------------------------------------------
Text    == [block: Nat, words: Nat]
Segment == [block: Nat, words: Nat, step: 1..Steps]

\* A grant of the whole file has no range, written 0.
Grant ==
  {g \in [user: Translators, step: 1..Steps, from: 0..MaxRows, to: 0..MaxRows] :
     g.from <= g.to /\ (g.from = 0 => g.to = 0)}

IsDraft(d) ==
  /\ d = [rows |-> d.rows, items |-> d.items, base |-> d.base]
  /\ d.rows \subseteq Grant /\ d.items \subseteq Grant
  /\ d.base # None => d.base \subseteq Grant

IsRequest(r) ==
  /\ r = [seen |-> r.seen, base |-> r.base, desired |-> r.desired, moves |-> r.moves]
  /\ r.seen \subseteq Grant /\ r.desired \subseteq Grant /\ r.moves \subseteq Grant
  /\ r.base # None => r.base \subseteq Grant

ASSUME AssignmentAssumption ==
  /\ Steps \in Nat \ {0} /\ MaxRows \in Nat /\ MaxSaves \in Nat /\ MaxChanges \in Nat
  /\ \A doc \in Documents : doc \in Seq(Text) /\ Len(doc) \in 1..MaxRows

TypeOK ==
  /\ seg \in Seq(Segment) /\ Len(seg) \in 1..MaxRows
  /\ grants \subseteq Grant
  /\ DOMAIN draft = Managers /\ \A m \in Managers : draft[m] # None => IsDraft(draft[m])
  /\ DOMAIN req = Managers /\ \A m \in Managers : req[m] # None => IsRequest(req[m])
  /\ saves \in 0..MaxSaves /\ changes \in 0..MaxChanges

\* A file that nobody has yet, or one that an earlier save gave to one translator.
Init ==
  /\ \E doc \in Documents : seg = [i \in DOMAIN doc |->
                                     [block |-> doc[i].block, words |-> doc[i].words, step |-> 1]]
  /\ \/ grants = {}
     \/ \E u \in Translators : grants = {[user |-> u, step |-> s, from |-> 0, to |-> 0] : s \in 1..Steps}
  /\ draft = [m \in Managers |-> None]
  /\ req = [m \in Managers |-> None]
  /\ saves = 0 /\ changes = 0

-----------------------------------------------------------------------------
(* Grants. *)

\* _display_index_in_assignment_range
Covers(g, i) == g.from = 0 \/ i \in g.from..g.to

\* _can_write_segment_with_assignments
CanWrite(u, i) == \E g \in grants : g.user = u /\ g.step = seg[i].step /\ Covers(g, i)

\* Mutant: ranges may meet in a segment.
OverlapInside(g, h) == g.from = 0 \/ h.from = 0 \/ (g.from < h.to /\ h.from < g.to)

\* _assignment_ranges_overlap
Overlap(g, h) == g.from = 0 \/ h.from = 0 \/ (g.from <= h.to /\ h.from <= g.to)

\* _validate_assignment_range_merge_block_boundary
Bounded(g) ==
  /\ g.to <= Len(seg)
  /\ g.from > 1 => seg[g.from - 1].block # seg[g.from].block
  /\ g.to < Len(seg) => seg[g.to].block # seg[g.to + 1].block

\* At one step a translator has one range, and no two translators meet.
Disjoint(S) ==
  \A g, h \in S : g # h /\ g.step = h.step => g.user # h.user /\ ~Overlap(g, h)

\* _validate_assignment_payload
Valid(desired) == Disjoint(desired) /\ \A g \in desired : g.from # 0 => Bounded(g)

\* Mutant: a range that has no segment left is shown.
ShownToTheEnd(S) ==
  {[g EXCEPT !.to = IF @ > Len(seg) THEN Len(seg) ELSE @] : g \in S}

\* _serialize_project_assignments: ranges end with the file, those beyond it are
\* not shown.
Shown(S) ==
  {[g EXCEPT !.to = IF @ > Len(seg) THEN Len(seg) ELSE @] : g \in {h \in S : h.from <= Len(seg)}}

-----------------------------------------------------------------------------
(* Managers. *)

\* The grants are read, then the segments are counted ...
LoadRows(m) ==
  /\ saves < MaxSaves
  /\ req[m] = None /\ draft[m] = None
  /\ draft' = [draft EXCEPT ![m] = [rows |-> grants, items |-> Shown(grants), base |-> None]]
  /\ UNCHANGED <<seg, grants, req, saves, changes>>

\* ... and the revision is computed from what the table has by then.
LoadRevision(m) ==
  /\ saves < MaxSaves
  /\ draft[m] # None /\ draft[m].base = None
  /\ draft' = [draft EXCEPT ![m].base = grants]
  /\ UNCHANGED <<seg, grants, req, saves, changes>>

\* What a manager may ask for, given the items on the screen: one more, one
\* less, all of one translator for another.
Wishes(items) ==
  {items \cup {g} : g \in Grant} \cup {items \ {g} : g \in items}
    \cup {{[g EXCEPT !.user = IF @ = u THEN v ELSE @] : g \in items} : u, v \in Translators}

\* _build_assignment_workflow_transition_preview: the new grants of the steps
\* before which segments of their ranges wait.
Moves(desired) ==
  LET new == desired \ grants
      Waits(g) == \E i \in DOMAIN seg : seg[i].step = g.step - 1 /\ Covers(g, i)
  IN {g \in new : \E h \in new : h.step = g.step /\ Waits(h)}

\* Mutant: saves do not lock the project.
NeverLocked == FALSE

\* Another save has the row of the project.
Locked == \E m \in Managers : req[m] # None

\* A save is accepted: the revision, if it came with one, is that of the table,
\* and the grants are valid.  A manager who is asked whether to move segments
\* asks again, with a yes or a no.
Begin(m) ==
  /\ saves < MaxSaves
  /\ draft[m] # None /\ draft[m].base # None
  /\ ~Locked
  /\ \E revision \in {None, draft[m].base} \cap {None, grants},
        desired \in Wishes(draft[m].items), advance \in BOOLEAN :
       /\ Valid(desired)
       /\ req' = [req EXCEPT ![m] = [seen |-> grants, base |-> revision, desired |-> desired,
                                     moves |-> IF advance THEN Moves(desired) ELSE {}]]
  /\ saves' = saves + 1
  /\ UNCHANGED <<seg, grants, draft, changes>>

\* Mutant: each step sees what the steps before it have moved.
AdvancedInOrder(moves) ==
  [i \in DOMAIN seg |->
     LET Moved(s) == \E g \in moves : g.step = s + 1 /\ Covers(g, i)
         to[s \in 1..Steps] == IF s < Steps /\ Moved(s) THEN to[s + 1] ELSE s
     IN [seg[i] EXCEPT !.step = to[@]]]

\* _advance_assignment_workflow_transitions
Advanced(moves) ==
  [i \in DOMAIN seg |->
     IF \E g \in moves : g.step = seg[i].step + 1 /\ Covers(g, i)
     THEN [seg[i] EXCEPT !.step = @ + 1] ELSE seg[i]]

\* The rows that were read and are not wanted are revoked, those that are wanted
\* and were not there are added.
Commit(m) ==
  /\ req[m] # None
  /\ grants' = (grants \ req[m].seen) \cup req[m].desired
  /\ seg' = Advanced(req[m].moves)
  /\ req' = [req EXCEPT ![m] = None]
  /\ draft' = [draft EXCEPT ![m] = None]
  /\ UNCHANGED <<saves, changes>>

-----------------------------------------------------------------------------
(* The document changes.  A manager may do all of this to any segment, so it *)
(* makes no difference what a translator may do.                             *)

Change(new) ==
  /\ changes < MaxChanges
  /\ seg' = new
  /\ changes' = changes + 1
  /\ UNCHANGED <<grants, draft, req, saves>>

\* transition_file_record_workflow: segments of one step, by range and status.
Transition(S, step) ==
  /\ \E from \in 1..Steps \ {step} : \A i \in S : seg[i].step = from
  /\ Change([i \in DOMAIN seg |-> IF i \in S THEN [seg[i] EXCEPT !.step = step] ELSE seg[i]])

\* split_segment: the cached count of words may stay as it was.
Split(i) ==
  /\ Len(seg) < MaxRows
  /\ \E words \in 0..seg[i].words : \E cached \in {words, seg[i].words} :
       Change(InsertAt([seg EXCEPT ![i].words = cached], i + 1,
                       [seg[i] EXCEPT !.words = seg[i].words - words]))

\* merge_segment: neighbours of one block and one step.
Merge(i) ==
  /\ i < Len(seg) /\ seg[i].block = seg[i + 1].block /\ seg[i].step = seg[i + 1].step
  /\ \E words \in {seg[i].words, seg[i].words + seg[i + 1].words} :
       Change(RemoveAt([seg EXCEPT ![i].words = words], i + 1))

-----------------------------------------------------------------------------
Next ==
  \/ \E m \in Managers : LoadRows(m) \/ LoadRevision(m) \/ Begin(m) \/ Commit(m)
  \/ \E S \in SUBSET DOMAIN seg, step \in 1..Steps : S # {} /\ Transition(S, step)
  \/ \E i \in DOMAIN seg : Split(i) \/ Merge(i)

Spec == Init /\ [][Next]_vars

-----------------------------------------------------------------------------
(* Properties. *)

\* No two translators may write one segment, whatever was saved at once and
\* however the segments have moved under the ranges since.
OneTranslatorPerSegment ==
  \A i \in DOMAIN seg, u, v \in Translators : CanWrite(u, i) /\ CanWrite(v, i) => u = v

Saved(m) == req[m] # None /\ req'[m] = None

\* A save replaces the grants its revision stands for: none that was made in
\* between is revoked.
SaveReplacesItsBase ==
  [][\A m \in Managers : Saved(m) /\ req[m].base # None => grants = req[m].base]_vars

\* A save moves a segment by one step at most, and to a grant it has made.
AdvancesOneStep ==
  [][\A m \in Managers : Saved(m) =>
       \A i \in DOMAIN seg : seg'[i].step # seg[i].step =>
         /\ seg'[i].step = seg[i].step + 1
         /\ \E g \in grants' \ grants : g.step = seg'[i].step /\ Covers(g, i)]_vars

\* However a file that nobody has yet is divided, the parts follow each other
\* from the first to the last segment of the range, each can be granted as it is,
\* and none has more than its share and the heaviest unit.
PreviewCanBeGranted ==
  grants = {} =>
  \A a, b \in DOMAIN seg : CanDivide(seg, a, b) =>
    \A n \in 1..Len(seg) :
      LET parts == Parts(seg, a, b, n)
          last  == Len(parts)
          W(p)  == Weight(seg, p.from, p.to, a, b)
      IN /\ parts[1].from = a /\ parts[last].to = b
         /\ \A k \in 1..last - 1 : parts[k + 1].from = parts[k].to + 1
         /\ \A k \in 1..last :
              /\ parts[k].from <= parts[k].to /\ Bounded(parts[k])
              /\ \E u \in Units(seg, a, b) :
                   last * (W(parts[k]) - W(u)) <= W([from |-> a, to |-> b])

\* A save replaces what its manager was shown.  A load that is overtaken by
\* another save violates it.
SaveReplacesWhatWasShown ==
  [][\A m \in Managers : Saved(m) /\ req[m].base # None => grants = draft[m].rows]_vars

\* What a manager is shown can be saved again, as the comment in
\* _serialize_project_assignments has it.  After a merge it cannot.
ShownCanBeSaved == Valid(Shown(grants))
=============================================================================
