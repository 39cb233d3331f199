--------------------------- MODULE SegmentStructure ---------------------------
(***************************************************************************)
(* The segments of one document in their order, and the requests that     *)
(* split a segment in two or merge two into one (app/routers/api.py:       *)
(* split_segment, merge_segment) while others write texts.                 *)
(*                                                                         *)
(* Such a request reads its segments without a lock, and computes the new  *)
(* texts from them.  Then it selects all segments of the file in document  *)
(* order FOR UPDATE.  That statement sees the rows there were when it      *)
(* started; it waits for whoever holds them, and returns them as they are  *)
(* by then, without those that were deleted, but never a row inserted      *)
(* meanwhile.  The session keeps the segments it had read, and its UPDATEs *)
(* carry the columns it has changed with respect to what it read.  From    *)
(* the locks to the commit nobody else writes the file: one step.          *)
(*                                                                         *)
(* The document is an ordinary one, of one block.  A text is a sequence of *)
(* parts; where a translation is cut is left open, since its length and    *)
(* the place of the cut in the source decide it.                           *)
(***************************************************************************)
EXTENDS Integers, SequencesExt

CONSTANTS
  Users,      \* clients: each has one request in flight
  Document,   \* the source texts of the segments at the start, in order
  Writings,   \* what a segment may be written with, as a source or translation
  None,       \* no row, no segment, no request
  MaxRows,    \* bound: rows ever inserted, the first ones included
  MaxWrites   \* bound: sources and translations written

VARIABLES
  seg,    \* the rows of table segments, by id
  used,   \* how many ids have been given out
  req,    \* the request each user has in flight
  writes  \* how many texts have been written

vars == <<seg, used, req, writes>>

-----------------------------------------------------------------------------
Ids == 1..MaxRows

Row     == [sid: Seq(Nat), index: -1..MaxRows - 1, display: -1..MaxRows - 1,
            source: Seq(Nat), target: Seq(Nat)]
Key     == Seq(Int)
Request == [op: {"split", "merge"}, at: {"read", "select"}, first: Ids, second: Ids \cup {None},
            old: Row, other: Row \cup {None}, cut: Nat, order: [Ids -> Key \cup {None}]]

ASSUME SegmentStructureAssumption ==
  /\ Document \in Seq(Seq(Nat)) /\ Writings \subseteq Seq(Nat)
  /\ MaxRows \in Nat /\ Len(Document) <= MaxRows /\ MaxWrites \in Nat
  /\ None \notin Row \cup Ids \cup Key \cup Request

\* Indexes stay below the number of rows, ids are given out in order, and a
\* split has something on both sides of it.
TypeOK ==
  /\ seg \in [Ids -> Row \cup {None}]
  /\ used \in 0..MaxRows
  /\ req \in [Users -> Request \cup {None}]
  /\ writes \in 0..MaxWrites
  /\ \A i \in Ids : seg[i] # None => i <= used
  /\ \A u \in Users : req[u] # None =>
       IF req[u].op = "split" THEN req[u].cut \in 1..Len(req[u].old.source) - 1
       ELSE req[u].second # None /\ req[u].other # None

Rows(table) == {i \in Ids : table[i] # None}

-----------------------------------------------------------------------------
(* The order of a document. *)

\* SEGMENT_ORDERING: rows without an index come last, ties go by sentence id.
KeyOf(row) == <<IF row.index >= 0 THEN 0 ELSE 1, row.index>> \o row.sid

Keys(table) == [i \in Ids |-> IF table[i] = None THEN None ELSE KeyOf(table[i])]

Less(a, b) ==
  \E n \in DOMAIN b : /\ \A m \in 1..n - 1 : m \in DOMAIN a /\ a[m] = b[m]
                      /\ n \in DOMAIN a => a[n] < b[n]

\* The position of row i among the rows of S, by the keys they had.
Position(keys, S, i) == Cardinality({j \in S : Less(keys[j], keys[i])})

\* Mutant: only rows without a display index get one.
DisplayedIfMissing(table) ==
  [i \in Ids |-> IF table[i] = None \/ table[i].display >= 0 THEN table[i]
                 ELSE [table[i] EXCEPT !.display = Position(Keys(table), Rows(table), i)]]

\* Mutant: row_number counts from one.
DisplayedFromOne(table) ==
  [i \in Ids |-> IF table[i] = None THEN None
                 ELSE [table[i] EXCEPT !.display = Position(Keys(table), Rows(table), i) + 1]]

\* refresh_segment_display_indexes: the UPDATE sees every row of the file.
Displayed(table) ==
  [i \in Ids |-> IF table[i] = None THEN None
                 ELSE [table[i] EXCEPT !.display = Position(Keys(table), Rows(table), i)]]

\* An import numbers its segments; an older one left the numbers out.  Each has
\* a translation of its own.
Init ==
  /\ \E numbered \in BOOLEAN :
       seg = Displayed([i \in Ids |->
         IF i > Len(Document) THEN None
         ELSE [sid |-> <<i>>, index |-> IF numbered THEN i - 1 ELSE -1, display |-> -1,
               source |-> Document[i], target |-> <<i>>]])
  /\ used = Len(Document)
  /\ req = [u \in Users |-> None]
  /\ writes = 0

-----------------------------------------------------------------------------
(* The writers of texts. *)

Write(i, row) ==
  /\ seg[i] # None
  /\ writes < MaxWrites
  /\ seg' = [seg EXCEPT ![i] = row]
  /\ writes' = writes + 1
  /\ UNCHANGED <<used, req>>

\* A save, a batch update, a convergence: the column target_text.
WriteTarget(i) == \E text \in Writings : Write(i, [seg[i] EXCEPT !.target = text])

\* update_segment_source_text
WriteSource(i) == \E text \in Writings : Write(i, [seg[i] EXCEPT !.source = text])

-----------------------------------------------------------------------------
(* Splits and merges. *)

Begin(u, op, first, second, cut) ==
  /\ req[u] = None
  /\ req' = [req EXCEPT ![u] =
       [op |-> op, at |-> "read", first |-> first, second |-> second, old |-> seg[first],
        other |-> IF second = None THEN None ELSE seg[second], cut |-> cut,
        order |-> [i \in Ids |-> None]]]
  /\ UNCHANGED <<seg, used, writes>>

\* The place of a split leaves something on both sides of it.
BeginSplit(u, i) ==
  /\ seg[i] # None
  /\ \E cut \in 1..Len(seg[i].source) - 1 : Begin(u, "split", i, None, cut)

\* The workbench asks from top to bottom, for segments that were neighbours when
\* it last looked.
BeginMerge(u, i, j) ==
  /\ seg[i] # None /\ seg[j] # None /\ seg[i].display < seg[j].display
  /\ Begin(u, "merge", i, j, 0)

\* _load_segments_for_structure_change: the statement starts.
Select(u) ==
  /\ req[u] # None /\ req[u].at = "read"
  /\ req' = [req EXCEPT ![u].at = "select", ![u].order = Keys(seg)]
  /\ UNCHANGED <<seg, used, writes>>

\* The rows the statement returns when it has its locks.
Locked(q) == {i \in Rows(seg) : q.order[i] # None}

\* The UPDATE of a column that was read as old and left as new.
Flush(now, old, new) == IF new = old THEN now ELSE new

\* The index of a row as the session has it: the two segments were there before.
KnownIndex(q, i) ==
  CASE i = q.first  -> q.old.index
    [] i = q.second -> q.other.index
    [] OTHER        -> seg[i].index

\* Mutant: the following segments are not moved.
RenumberedWithoutGap(q, S, gap) ==
  [i \in Ids |-> IF i \notin S THEN seg[i]
                 ELSE [seg[i] EXCEPT !.index = Flush(@, KnownIndex(q, i), Position(q.order, S, i))]]

\* _renumber_ordered_segment_sequences over the rows of S, with a gap of the
\* given size after the first segment.
Renumbered(q, S, gap) ==
  [i \in Ids |->
     IF i \notin S THEN seg[i]
     ELSE LET p == Position(q.order, S, i)
              n == IF p > Position(q.order, S, q.first) THEN p + gap ELSE p
          IN [seg[i] EXCEPT !.index = Flush(@, KnownIndex(q, i), n)]]

Sid(q, n) == q.old.sid \o <<n>>

\* Mutant: an id is free when no row that was locked has it.
FreeNumberLocked(q, n) ==
  \A m \in 1..n : (\E i \in Locked(q) : seg[i].sid = Sid(q, m)) <=> m # n

\* _generate_split_sentence_id: the first number whose id no row of the file
\* has, asked once the rows are locked.
FreeNumber(q, n) ==
  \A m \in 1..n : (\E i \in Rows(seg) : seg[i].sid = Sid(q, m)) <=> m # n

\* The two halves of what was read, the second in a row of its own; the other
\* rows are moved to make room for it.
Halved(q, n, cut) ==
  [Renumbered(q, Locked(q), 1) EXCEPT
     ![q.first].source = Flush(@, q.old.source, SubSeq(q.old.source, 1, q.cut)),
     ![q.first].target = Flush(@, q.old.target, SubSeq(q.old.target, 1, cut)),
     ![used + 1] =
       [sid |-> Sid(q, n), index |-> Position(q.order, Locked(q), q.first) + 1, display |-> -1,
        source |-> SubSeq(q.old.source, q.cut + 1, Len(q.old.source)),
        target |-> SubSeq(q.old.target, cut + 1, Len(q.old.target))]]

\* split_segment, from the locks to the commit.
Split(u) ==
  /\ req[u] # None /\ req[u].at = "select" /\ req[u].op = "split"
  /\ used < MaxRows
  /\ req[u].first \in Locked(req[u])
  /\ \E n \in 1..MaxRows, cut \in 0..Len(req[u].old.target) :
       FreeNumber(req[u], n) /\ seg' = Displayed(Halved(req[u], n, cut))
  /\ used' = used + 1
  /\ req' = [req EXCEPT ![u] = None]
  /\ UNCHANGED writes

\* Mutant: any later segment may be merged.
FollowsLater(q, S) ==
  {q.first, q.second} \subseteq S /\ Position(q.order, S, q.second) > Position(q.order, S, q.first)

\* Both segments are still there, and the second comes right after the first.
Follows(q, S) ==
  /\ {q.first, q.second} \subseteq S
  /\ Position(q.order, S, q.second) = Position(q.order, S, q.first) + 1

\* The first row with both texts as they were read, the second deleted.
Joined(q) ==
  [Renumbered(q, Locked(q) \ {q.second}, 0) EXCEPT
     ![q.first].source = Flush(@, q.old.source, q.old.source \o q.other.source),
     ![q.first].target = Flush(@, q.old.target, q.old.target \o q.other.target),
     ![q.second] = None]

\* merge_segment, from the locks to the commit.
Merge(u) ==
  /\ req[u] # None /\ req[u].at = "select" /\ req[u].op = "merge"
  /\ Follows(req[u], Locked(req[u]))
  /\ seg' = Displayed(Joined(req[u]))
  /\ req' = [req EXCEPT ![u] = None]
  /\ UNCHANGED <<used, writes>>

\* A segment that is gone, or does not follow: the request changes nothing.
Refused(u) ==
  /\ req[u] # None /\ req[u].at = "select"
  /\ LET q == req[u]
     IN IF q.op = "split" THEN q.first \notin Locked(q) ELSE ~Follows(q, Locked(q))
  /\ req' = [req EXCEPT ![u] = None]
  /\ UNCHANGED <<seg, used, writes>>

-----------------------------------------------------------------------------
Next ==
  \/ \E i \in Ids : WriteTarget(i) \/ WriteSource(i)
  \/ \E u \in Users :
       \/ \E i \in Ids : BeginSplit(u, i) \/ \E j \in Ids : BeginMerge(u, i, j)
       \/ Select(u) \/ Split(u) \/ Merge(u) \/ Refused(u)

Spec == Init /\ [][Next]_vars

-----------------------------------------------------------------------------
(* Properties. *)

\* A sentence id names one segment of its file, though it is generated by
\* requests that overlap and after segments were merged away.
SentenceIdsUnique ==
  \A i, j \in Rows(seg) : seg[i].sid = seg[j].sid => i = j

\* The display index, by which ranges of a document are assigned and filtered,
\* numbers the segments in document order, even while two share an index.
DisplayIsTheOrder ==
  \A i \in Rows(seg) : seg[i].display = Position(Keys(seg), Rows(seg), i)

\* Since the request of u read them, nobody has written its segments, and nobody
\* has changed the order since its statement started.
Undisturbed(u) ==
  LET q == req[u]
  IN /\ seg[q.first] = q.old
     /\ q.second # None => seg[q.second] = q.other
     /\ q.order = Keys(seg)

\* The request of u has changed the structure of the document.
Restructured(u) == req[u] # None /\ req'[u] = None /\ Rows(seg') # Rows(seg)

\* The rows of a document in its order.
InOrder(table) ==
  [n \in 1..Cardinality(Rows(table)) |->
     CHOOSE i \in Rows(table) : Position(Keys(table), Rows(table), i) = n - 1]

\* The sources or translations of a document, one after the other.
Reading(table, Column(_)) ==
  FlattenSeq([n \in 1..Cardinality(Rows(table)) |-> Column(table[InOrder(table)[n]])])

Source(row) == row.source
Target(row) == row.target

\* A split or a merge that nothing has disturbed leaves the document reading as
\* it did, source and translation, however its indexes were before.
DocumentIsKept ==
  [][\A u \in Users : Restructured(u) /\ Undisturbed(u)
       => /\ Reading(seg', Source) = Reading(seg, Source)
          /\ Reading(seg', Target) = Reading(seg, Target)]_vars

\* It also numbers the segments from zero without gap or repetition, so that
\* indexes broken by requests that overlapped do not stay.
OrderIsRebuilt ==
  [][\A u \in Users : Restructured(u) /\ Undisturbed(u)
       => {seg'[i].index : i \in Rows(seg')} = 0..Cardinality(Rows(seg')) - 1]_vars

\* What the comment on the lock says: no index occurs twice.  Splits that
\* overlap violate it.
OrderIsUnique ==
  \A i, j \in Rows(seg) : seg[i].index = seg[j].index /\ seg[i].index >= 0 => i = j

\* No split or merge changes what the source reads as.  Those that overlap do.
SourceIsKept ==
  [][\A u \in Users : Restructured(u) => Reading(seg', Source) = Reading(seg, Source)]_vars
=============================================================================
