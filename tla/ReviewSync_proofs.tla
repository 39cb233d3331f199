------------------------- MODULE ReviewSync_proofs -------------------------
(***************************************************************************)
(* What holds of review groups for any segments, users and texts.          *)
(***************************************************************************)
EXTENDS ReviewSync, SequenceTheorems, FiniteSetTheorems, TLAPS

-----------------------------------------------------------------------------
(* Revisions. *)

\* Some numbers have a smallest.
LEMMA Smallest ==
  ASSUME NEW P \in SUBSET Nat, P # {}
  PROVE  \E n \in P : \A k \in P : n <= k
<1>1. PICK n \in P : \A k \in P : <<k, n>> \notin OpToRel(<, Nat)
  BY NatLessThanWellFounded, WFMin
<1>2. \A k \in P : ~(k < n)
  BY <1>1 DEF OpToRel
<1> QED
  BY <1>2

\* The revisions of a segment, by position.
LEMMA Elements ==
  ASSUME NEW rs \in Seq(Revision)
  PROVE  /\ Len(rs) \in Nat /\ DOMAIN rs = 1..Len(rs)
         /\ \A n \in 1..Len(rs) : rs[n] \in Revision
  BY ElementOfSeq, LenProperties

\* The anchor is a pending revision, if there is one.
LEMMA AnchorIsPending ==
  ASSUME NEW rs \in Seq(Revision)
  PROVE  /\ Anchor(rs) \in 0..Len(rs)
         /\ Anchor(rs) # 0 => Anchor(rs) \in 1..Len(rs) /\ rs[Anchor(rs)].status = "pending"
         /\ Anchor(rs) = 0 => \A n \in 1..Len(rs) : rs[n].status # "pending"
<1> DEFINE P == {n \in DOMAIN rs : rs[n].status = "pending"}
<1>1. Len(rs) \in Nat /\ P \in SUBSET Nat /\ P \subseteq 1..Len(rs) /\ DOMAIN rs = 1..Len(rs)
  BY Elements
<1>2. CASE P = {}
  <2>1. Anchor(rs) = 0
    BY <1>2 DEF Anchor
  <2> QED
    BY <1>1, <1>2, <2>1
<1>3. CASE P # {}
  <2>1. \E n \in P : \A k \in P : n <= k
    BY <1>1, <1>3, Smallest
  <2>2. Anchor(rs) = CHOOSE n \in P : \A k \in P : n <= k
    BY <1>3 DEF Anchor
  <2>3. Anchor(rs) \in P
    BY <2>1, <2>2
  <2> QED
    BY <1>1, <2>3
<1> QED
  BY <1>2, <1>3

\* At most one revision waits for a verdict.
OnePending(rs) ==
  \A n, k \in DOMAIN rs : rs[n].status = "pending" /\ rs[k].status = "pending" => n = k

\* Nothing is done to revisions but that they are closed.
ClosedOnly(rs, new) ==
  \A n \in DOMAIN new : new[n].status = "pending" => n \in DOMAIN rs /\ new[n] = rs[n]

\* What create_revision does to the revisions of a segment, part one: a change
\* that needs a revision and finds none.
LEMMA RevisedAppends ==
  ASSUME revs \in [Segments -> Seq(Revision)], NEW s \in Segments, NEW before \in Texts, NEW after \in Texts,
         before # after, Anchor(revs[s]) = 0
  PROVE  LET new == Revised(s, before, after)
             n   == Len(revs[s]) + 1
         IN /\ new \in Seq(Revision) /\ Len(new) = n
            /\ OnePending(new)
            /\ Returned(s, before, after) = n
            /\ new[n].before = before /\ new[n].after = after
<1> DEFINE rs == revs[s]
           r  == [before |-> before, after |-> after, status |-> "pending"]
           new == Append(rs, r)
           n == Len(rs) + 1
<1>1. rs \in Seq(Revision) /\ r \in Revision
  BY DEF Revision
<1>2. Revised(s, before, after) = new
  BY DEF Revised
<1> HIDE DEF rs
<1>3. Len(rs) \in Nat /\ \A k \in 1..Len(rs) : rs[k].status # "pending"
  BY <1>1, Elements, AnchorIsPending DEF rs
<1>4. /\ new \in Seq(Revision) /\ Len(new) = n /\ new[n] = r
      /\ \A k \in 1..Len(rs) : new[k] = rs[k]
  BY <1>1, AppendProperties
<1> HIDE DEF new
<1>5. DOMAIN new = 1..n /\ n \in Nat
  BY <1>3, <1>4, Elements
<1> HIDE DEF n
<1>6. \A k \in 1..n : k = n \/ k \in 1..Len(rs)
  BY <1>3 DEF n
<1>7. \A k \in 1..n : new[k].status = "pending" => k = n
  BY <1>3, <1>4, <1>6
<1>8. Anchor(new) = n
  <2>1. n \in 1..n /\ new[n].status = "pending"
    BY <1>3, <1>4 DEF n
  <2> QED
    BY <1>4, <1>7, <2>1, AnchorIsPending
<1> QED
  BY <1>2, <1>4, <1>5, <1>7, <1>8 DEF OnePending, Returned, n, rs

\* Part two: a change that is merged into the pending revision.
LEMMA RevisedMerges ==
  ASSUME revs \in [Segments -> Seq(Revision)], NEW s \in Segments, NEW before \in Texts, NEW after \in Texts,
         before # after, Anchor(revs[s]) # 0, OnePending(revs[s])
  PROVE  LET rs  == revs[s]
             new == Revised(s, before, after)
             a   == Anchor(rs)
         IN /\ new \in Seq(Revision) /\ Len(new) = Len(rs)
            /\ OnePending(new)
            /\ Returned(s, before, after) \in {0, a}
            /\ Returned(s, before, after) = a =>
                 new[a].before = rs[a].before /\ new[a].after = after
<1> DEFINE rs == revs[s]
           a  == Anchor(rs)
           e  == [rs[a] EXCEPT !.after = after,
                               !.status = IF rs[a].before = after THEN "deleted" ELSE @]
           new == [rs EXCEPT ![a] = e]
<1>1. rs \in Seq(Revision) /\ a \in 1..Len(rs) /\ rs[a] \in Revision /\ rs[a].status = "pending"
      /\ DOMAIN rs = 1..Len(rs) /\ Len(rs) \in Nat
  BY Elements, AnchorIsPending
<1>2. Revised(s, before, after) = new
  BY <1>1 DEF Revised, Revision
<1>3. e \in Revision /\ e.before = rs[a].before /\ e.after = after
  BY <1>1 DEF Revision
<1>4. OnePending(rs)
  OBVIOUS
<1> HIDE DEF rs, e
<1>5. /\ new \in Seq(Revision) /\ Len(new) = Len(rs)
      /\ \A k \in 1..Len(rs) : new[k] = IF k = a THEN e ELSE rs[k]
  BY <1>1, <1>3, ExceptSeq
<1> HIDE DEF new
<1>6. DOMAIN new = 1..Len(rs)
  BY <1>5, Elements
<1> HIDE DEF a
<1>7. \A k \in 1..Len(rs) : new[k].status = "pending" => k = a
  BY <1>1, <1>4, <1>5 DEF OnePending
<1>8. Anchor(new) \in {0, a}
  BY <1>5, <1>7, AnchorIsPending
<1>9. Returned(s, before, after) = Anchor(new)
  BY <1>2 DEF Returned
<1>10. new[a].before = rs[a].before /\ new[a].after = after
  BY <1>1, <1>3, <1>5
<1> QED
  BY <1>2, <1>5, <1>6, <1>7, <1>8, <1>9, <1>10 DEF OnePending, a, rs

\* In any case revisions stay revisions, none is lost, and one is pending at most.
LEMMA RevisedType ==
  ASSUME revs \in [Segments -> Seq(Revision)], NEW s \in Segments, NEW before \in Texts, NEW after \in Texts,
         OnePending(revs[s])
  PROVE  /\ Revised(s, before, after) \in Seq(Revision)
         /\ Len(Revised(s, before, after)) \in Nat
         /\ Len(revs[s]) <= Len(Revised(s, before, after))
         /\ OnePending(Revised(s, before, after))
         /\ Returned(s, before, after) \in 0..Len(Revised(s, before, after))
<1>1. revs[s] \in Seq(Revision) /\ Len(revs[s]) \in Nat
  BY Elements
<1>2. CASE before = after
  <2>1. Revised(s, before, after) = revs[s] /\ Returned(s, before, after) = 0
    BY <1>2 DEF Revised, Returned
  <2> QED
    BY <1>1, <2>1
<1>3. CASE before # after /\ Anchor(revs[s]) = 0
  BY <1>1, <1>3, RevisedAppends
<1>4. CASE before # after /\ Anchor(revs[s]) # 0
  <2>1. Anchor(revs[s]) \in 1..Len(revs[s])
    BY <1>1, <1>4, AnchorIsPending
  <2> QED
    BY <1>1, <1>4, <2>1, RevisedMerges
<1> QED
  BY <1>2, <1>3, <1>4

\* A revision gets its verdict; one is decided alone, and so nothing is opened.
LEMMA VerdictType ==
  ASSUME NEW rs \in Seq(Revision), NEW n \in DOMAIN rs, NEW v \in Verdicts
  PROVE  /\ [rs EXCEPT ![n].status = v] \in Seq(Revision)
         /\ Len([rs EXCEPT ![n].status = v]) = Len(rs)
         /\ ClosedOnly(rs, [rs EXCEPT ![n].status = v])
<1>1. DOMAIN rs = 1..Len(rs) /\ rs[n] \in Revision
  BY Elements
<1> DEFINE e == [rs[n] EXCEPT !.status = v]
<1>2. e \in Revision /\ e.status = v
  BY <1>1 DEF Revision
<1>3. [rs EXCEPT ![n].status = v] = [rs EXCEPT ![n] = e]
  OBVIOUS
<1> HIDE DEF e
<1>4. /\ [rs EXCEPT ![n] = e] \in Seq(Revision) /\ Len([rs EXCEPT ![n] = e]) = Len(rs)
      /\ \A k \in 1..Len(rs) : [rs EXCEPT ![n] = e][k] = IF k = n THEN e ELSE rs[k]
  BY <1>1, <1>2, ExceptSeq
<1>5. v # "pending"
  BY DEF Verdicts
<1> QED
  BY <1>1, <1>2, <1>3, <1>4, <1>5 DEF ClosedOnly

\* Closing leaves one pending revision at most.
LEMMA ClosedOnePending ==
  ASSUME NEW rs, NEW new, OnePending(rs), ClosedOnly(rs, new)
  PROVE  OnePending(new)
  BY DEF OnePending, ClosedOnly
-----------------------------------------------------------------------------
(* Groups. *)

\* The revisions that members name are there.
PointsInto(G, rv) ==
  \A s \in Segments : G.member[s] # None => G.member[s].rev \in 0..Len(rv[s])

\* The constants.
LEMMA Constants ==
  /\ Baseline \in Texts /\ None \notin Users
  /\ MaxSaves \in Nat /\ MaxOthers \in Nat /\ MaxAsks \in Nat
  BY ReviewSyncAssumption

\* The types of a group's parts.
LEMMA GroupFields ==
  ASSUME NEW G \in Group
  PROVE  /\ G.source \in Segments /\ G.author \in Users /\ G.before \in Texts /\ G.after \in Texts
         /\ G.version \in Nat /\ G.gen \in Nat /\ G.task \in Task
         /\ G.status \in Verdicts \cup {"pending", "detached", "reverted"}
         /\ G.member \in [Segments -> Member \cup {None}]
         /\ \A s \in Joined(G) : G.member[s] \in Member /\ s \in Segments
  BY DEF Group, Joined

\* The groups, by position.
LEMMA GroupElements ==
  ASSUME groups \in Seq(Group)
  PROVE  /\ Len(groups) \in Nat /\ DOMAIN groups = 1..Len(groups)
         /\ \A g \in DOMAIN groups : groups[g] \in Group
  BY ElementOfSeq, LenProperties

\* One group is changed, and nothing else.
LEMMA OneGroupChanges ==
  ASSUME groups \in Seq(Group), NEW g \in DOMAIN groups, NEW H \in Group
  PROVE  LET new == [groups EXCEPT ![g] = H]
         IN /\ new \in Seq(Group) /\ Len(new) = Len(groups) /\ DOMAIN new = DOMAIN groups
            /\ \A h \in DOMAIN groups : new[h] = IF h = g THEN H ELSE groups[h]
<1>1. DOMAIN groups = 1..Len(groups)
  BY GroupElements
<1> QED
  BY <1>1, ExceptSeq

\* A cancelled task is a task, and not a waiting one.
LEMMA CancelledType ==
  ASSUME NEW t \in Task
  PROVE  Cancelled(t) \in Task /\ Cancelled(t).status # "pending" /\ Cancelled(t).gen = t.gen
  BY DEF Cancelled, Task

\* A member that leaves takes only its own place with it, and the group's end if
\* it is the source.
LEMMA LeftFields ==
  ASSUME NEW G \in Group, NEW s \in Joined(G)
  PROVE  LET H == Left(G, s)
         IN /\ H \in Group
            /\ H.source = G.source /\ H.gen = G.gen
            /\ H.member[s] = [G.member[s] EXCEPT !.active = FALSE]
            /\ \A t \in Segments \ {s} : H.member[t] = G.member[t]
            /\ H.status = IF G.source = s THEN "detached" ELSE G.status
            /\ H.task = IF G.source = s THEN Cancelled(G.task) ELSE G.task
<1>1. s \in Segments /\ G.member[s] \in Member
  BY GroupFields
<1> DEFINE m == [G.member[s] EXCEPT !.active = FALSE]
           M == [G.member EXCEPT ![s] = m]
           st == IF G.source = s THEN "detached" ELSE G.status
           tk == IF G.source = s THEN Cancelled(G.task) ELSE G.task
<1>2. m \in Member
  BY <1>1 DEF Member
<1> HIDE DEF m
<1>3. /\ M \in [Segments -> Member \cup {None}] /\ M[s] = m
      /\ \A t \in Segments \ {s} : M[t] = G.member[t]
  BY <1>1, <1>2, GroupFields
<1>4. st \in Verdicts \cup {"pending", "detached", "reverted"} /\ tk \in Task
  BY GroupFields, CancelledType
<1>5. Left(G, s) = [G EXCEPT !.member = M, !.status = st, !.task = tk]
  BY <1>1, <1>2 DEF Left, Group, m
<1> HIDE DEF M, st, tk
<1>6. [G EXCEPT !.member = M, !.status = st, !.task = tk] \in Group
  BY <1>3, <1>4 DEF Group
<1>7. LET H == [G EXCEPT !.member = M, !.status = st, !.task = tk]
      IN H.source = G.source /\ H.gen = G.gen /\ H.member = M /\ H.status = st /\ H.task = tk
  BY DEF Group
<1> QED
  BY <1>3, <1>5, <1>6, <1>7 DEF m, st, tk

\* A group whose author has edited on: a new round, whose task is yet to come.
Renewed(G, H, s, rs) ==
  /\ H.source = G.source /\ H.status = G.status /\ H.task = Cancelled(G.task)
  /\ H.member[s] \in Member /\ H.member[s].rev = Anchor(rs)
  /\ \A t \in Segments \ {s} : H.member[t] = G.member[t]

\* A group just opened: its source is all it has.
Opened(H, s, rs) ==
  /\ H.source = s /\ H.task.status = "none"
  /\ H.member[s] \in Member /\ H.member[s].rev = Anchor(rs)
  /\ \A t \in Segments \ {s} : H.member[t] = None

\* What an edit does to the groups: the segment's own is renewed or left, and
\* one may be opened behind the others.
LEMMA RecordedStep ==
  ASSUME TypeOK, NEW s \in Segments, NEW u \in Editors, NEW x \in Texts, NEW tracked \in BOOLEAN,
         NEW rs \in Seq(Revision), NEW g, g = 0 \/ g \in ActiveGroups(s)
  PROVE  LET new == Recorded(s, u, x, tracked, rs, g)
             n   == Len(groups)
         IN /\ new \in Seq(Group) /\ Len(new) \in {n, n + 1}
            /\ \A h \in 1..n : \/ h # g /\ new[h] = groups[h]
                               \/ h = g /\ new[h] = Left(groups[h], s)
                               \/ h = g /\ groups[h].source = s /\ Renewed(groups[h], new[h], s, rs)
            /\ Len(new) = n + 1 =>
                 Opened(new[n + 1], s, rs) /\ (g # 0 => new[g] = Left(groups[g], s))
<1> DEFINE n == Len(groups)
           before == seg[s].text
           version == seg[s].version + 1
           r == Anchor(rs)
           row == [before |-> before, after |-> x, version |-> version, rev |-> r, active |-> TRUE]
           enabled == on /\ tracked /\ s \notin off
           mine == /\ g # 0
                   /\ enabled
                   /\ groups[g].source = s /\ groups[g].author = u
                   /\ groups[g].member[s].after = before
           rest == IF g = 0 THEN groups ELSE [groups EXCEPT ![g] = Left(@, s)]
           opens == ~mine /\ enabled /\ before # x /\ r # 0 /\ rs[r].before = before
<1>1. groups \in Seq(Group) /\ n \in Nat /\ DOMAIN groups = 1..n /\ \A h \in 1..n : groups[h] \in Group
  BY GroupElements DEF TypeOK
<1>2. g # 0 => g \in 1..n /\ s \in Joined(groups[g])
  BY <1>1 DEF ActiveGroups, Active
<1>3. /\ before \in Texts /\ version \in Nat /\ r \in Nat /\ u \in Users
      /\ row \in Member
  BY AnchorIsPending, Elements DEF TypeOK, Row, Member, Users
<1>4. CASE mine
  <2> DEFINE G == groups[g]
             m == [row EXCEPT !.before = G.member[s].before]
             M == [G.member EXCEPT ![s] = m]
             gn == G.gen + 1
             tk == Cancelled(G.task)
             H == [G EXCEPT !.gen = gn, !.after = x, !.version = version, !.task = tk, !.member = M]
  <2>1. g \in 1..n /\ s \in Joined(G) /\ G \in Group
    BY <1>1, <1>2, <1>4
  <2>2. G.member[s] \in Member
    BY <2>1, GroupFields
  <2>3. m \in Member /\ m.rev = r
    BY <1>3, <2>2 DEF Member
  <2> HIDE DEF m, row, r, version
  <2>4. /\ M \in [Segments -> Member \cup {None}] /\ M[s] = m
        /\ \A t \in Segments \ {s} : M[t] = G.member[t]
    BY <2>1, <2>3, GroupFields
  <2>5. gn \in Nat /\ tk \in Task
    BY <2>1, GroupFields, CancelledType
  <2> HIDE DEF M, gn, tk
  <2>6. H \in Group
    BY <1>3, <2>1, <2>4, <2>5 DEF Group
  <2>7. H.source = G.source /\ H.status = G.status /\ H.task = tk /\ H.member = M
    BY <2>1 DEF Group
  <2>8. Recorded(s, u, x, tracked, rs, g) = [groups EXCEPT ![g] = H]
    <3>1. [G EXCEPT !.gen = @ + 1, !.after = x, !.version = version, !.task = Cancelled(@),
                    !.member[s] = m] = H
      BY <2>1 DEF M, gn, tk, Group
    <3>2. Recorded(s, u, x, tracked, rs, g) =
            [groups EXCEPT ![g] =
               [G EXCEPT !.gen = @ + 1, !.after = x, !.version = version, !.task = Cancelled(@),
                         !.member[s] = m]]
      BY <1>4 DEF Recorded, row, version, r, m
    <3> QED
      BY <3>1, <3>2
  <2> HIDE DEF H
  <2>9. Renewed(G, H, s, rs) /\ G.source = s
    BY <1>4, <2>3, <2>4, <2>7 DEF Renewed, tk, r
  <2> DEFINE new == [groups EXCEPT ![g] = H]
  <2>10. new \in Seq(Group) /\ Len(new) = n /\ \A h \in 1..n : new[h] = IF h = g THEN H ELSE groups[h]
    BY <1>1, <2>1, <2>6, OneGroupChanges
  <2> HIDE DEF new
  <2>11. Len(new) # n + 1
    <3>1. \A k \in Nat : k # k + 1
      OBVIOUS
    <3>2. Len(new) = n /\ n \in Nat
      BY <1>1, <2>10
    <3> QED
      BY <3>1, <3>2
  <2> QED
    BY <2>8, <2>9, <2>10, <2>11 DEF new
<1>5. /\ rest \in Seq(Group) /\ Len(rest) = n
      /\ \A h \in 1..n : \/ h # g /\ rest[h] = groups[h]
                         \/ h = g /\ rest[h] = Left(groups[h], s)
  <2>1. CASE g = 0
    BY <1>1, <2>1
  <2>2. CASE g # 0
    <3>1. Left(groups[g], s) \in Group
      BY <1>1, <1>2, <2>2, LeftFields
    <3>2. rest = [groups EXCEPT ![g] = Left(groups[g], s)]
      BY <2>2
    <3> QED
      BY <1>1, <1>2, <2>2, <3>1, <3>2, OneGroupChanges
  <2> QED
    BY <2>1, <2>2
<1>6. CASE opens
  <2> DEFINE M == [t \in Segments |-> IF t = s THEN row ELSE None]
             tk == [status |-> "none", gen |-> 0, attempts |-> 0]
             H == [source |-> s, author |-> u, before |-> before, after |-> x,
                   version |-> version, gen |-> 1, status |-> "pending", task |-> tk, member |-> M]
  <2>1. tk \in Task /\ M \in [Segments -> Member \cup {None}] /\ M[s] = row
        /\ \A t \in Segments \ {s} : M[t] = None
    BY <1>3 DEF Task
  <2>2. Recorded(s, u, x, tracked, rs, g) = Append(rest, H)
    BY <1>6 DEF Recorded
  <2> HIDE DEF M, row, version, before
  <2>3. H \in Group
    BY <1>3, <2>1 DEF Group
  <2>4. row.rev = r
    BY DEF row
  <2>5. Opened(H, s, rs)
    BY <1>3, <2>1, <2>4 DEF Opened
  <2> HIDE DEF H, rest
  <2> DEFINE new == Append(rest, H)
  <2>6. /\ new \in Seq(Group) /\ Len(new) = n + 1 /\ new[n + 1] = H
        /\ \A h \in 1..n : new[h] = rest[h]
    BY <1>5, <2>3, AppendProperties
  <2> HIDE DEF new
  <2>7. g # 0 => new[g] = Left(groups[g], s)
    BY <1>2, <1>5, <2>6
  <2> QED
    BY <1>5, <2>2, <2>5, <2>6, <2>7 DEF new
<1>7. CASE ~mine /\ ~opens
  <2>1. Recorded(s, u, x, tracked, rs, g) = rest
    BY <1>7 DEF Recorded
  <2> HIDE DEF rest
  <2> QED
    BY <1>1, <1>5, <2>1
<1> QED
  BY <1>4, <1>6, <1>7
-----------------------------------------------------------------------------
(* Types. *)

TypeInv == TypeOK /\ \A s \in Segments : OnePending(revs[s])

\* The revisions of all segments, none of them lost.
RevsGrow ==
  /\ revs' \in [Segments -> Seq(Revision)]
  /\ \A s \in Segments : Len(revs[s]) <= Len(revs'[s]) /\ OnePending(revs'[s])

\* The groups, with members that name revisions.
GroupsGrow ==
  /\ groups' \in Seq(Group) /\ Len(groups) <= Len(groups')
  /\ \A g \in DOMAIN groups' : PointsInto(groups'[g], revs')

\* What a step has to keep for the types: where nothing is lost, what referred to
\* a revision still does.
LEMMA TypesKept ==
  ASSUME TypeInv, RevsGrow, GroupsGrow,
         seg' \in [Segments -> Row], off' \subseteq Segments, shielded' \subseteq Segments, on' \in BOOLEAN,
         request' \in [Reviewers -> Request \cup {None}],
         \A u \in Reviewers : request'[u] # None => request'[u].rev \in DOMAIN revs[request'[u].seg],
         touch' \in Touch \cup {None}, hand' \in [Segments -> 0..Len(groups')],
         reused' \subseteq Segments,
         count' \in [save: 0..MaxSaves, other: 0..MaxOthers, ask: 0..MaxAsks]
  PROVE  TypeInv'
<1>1. ASSUME NEW u \in Reviewers, request'[u] # None
      PROVE  request'[u].rev \in DOMAIN revs'[request'[u].seg]
  <2>1. request'[u] \in Request
    BY <1>1
  <2> PICK s \in Segments : s = request'[u].seg
    BY <2>1 DEF Request
  <2>2. revs[s] \in Seq(Revision) /\ revs'[s] \in Seq(Revision) /\ Len(revs[s]) <= Len(revs'[s])
    BY DEF TypeInv, TypeOK, RevsGrow
  <2> QED
    BY <1>1, <2>2, Elements
<1>2. \A g \in DOMAIN groups', s \in Segments :
        groups'[g].member[s] # None => groups'[g].member[s].rev \in 0..Len(revs'[s])
  BY DEF GroupsGrow, PointsInto
<1>3. groups' \in Seq(Group) /\ revs' \in [Segments -> Seq(Revision)]
      /\ \A s \in Segments : OnePending(revs'[s])
  BY DEF GroupsGrow, RevsGrow
<1> QED
  BY <1>1, <1>2, <1>3 DEF TypeInv, TypeOK

\* Nothing is done to the revisions, or to the groups.
LEMMA SameRevs ==
  ASSUME TypeInv, revs' = revs PROVE RevsGrow
<1>1. \A s \in Segments : Len(revs[s]) \in Nat
  BY Elements DEF TypeInv, TypeOK
<1> QED
  BY <1>1 DEF TypeInv, TypeOK, RevsGrow

LEMMA SameGroups ==
  ASSUME TypeInv, RevsGrow, groups' = groups PROVE GroupsGrow
<1>1. Len(groups) \in Nat
  BY GroupElements DEF TypeInv, TypeOK
<1>2. ASSUME NEW g \in DOMAIN groups, NEW s \in Segments, groups[g].member[s] # None
      PROVE  groups[g].member[s].rev \in 0..Len(revs'[s])
  <2>1. groups[g].member[s].rev \in 0..Len(revs[s])
    BY <1>2 DEF TypeInv, TypeOK
  <2>2. revs[s] \in Seq(Revision) /\ revs'[s] \in Seq(Revision) /\ Len(revs[s]) <= Len(revs'[s])
    BY DEF TypeInv, TypeOK, RevsGrow
  <2>3. Len(revs[s]) \in Nat /\ Len(revs'[s]) \in Nat
    BY <2>2, Elements
  <2> QED
    BY <2>1, <2>2, <2>3
<1> QED
  BY <1>1, <1>2 DEF TypeInv, TypeOK, GroupsGrow, PointsInto

\* Revisions of segments that are only closed.
LEMMA ClosedRevs ==
  ASSUME TypeInv, revs' \in [Segments -> Seq(Revision)],
         \A s \in Segments : Len(revs'[s]) = Len(revs[s]) /\ ClosedOnly(revs[s], revs'[s])
  PROVE  RevsGrow
<1>1. \A s \in Segments : Len(revs[s]) \in Nat
  BY Elements DEF TypeInv, TypeOK
<1> QED
  BY <1>1, ClosedOnePending DEF TypeInv, RevsGrow

\* One group is changed into one with the same members or with members that name
\* their revisions.
LEMMA GroupChanged ==
  ASSUME TypeInv, RevsGrow, NEW g \in DOMAIN groups, NEW H \in Group, groups' = [groups EXCEPT ![g] = H],
         \A s \in Segments :
           \/ H.member[s] = groups[g].member[s]
           \/ groups[g].member[s] # None /\ H.member[s].rev = groups[g].member[s].rev
           \/ H.member[s].rev \in 0..Len(revs'[s])
  PROVE  /\ GroupsGrow /\ Len(groups') = Len(groups) /\ DOMAIN groups' = DOMAIN groups
         /\ groups'[g] = H /\ \A h \in DOMAIN groups \ {g} : groups'[h] = groups[h]
<1>1. groups \in Seq(Group) /\ Len(groups) \in Nat
  BY GroupElements DEF TypeInv, TypeOK
<1>2. /\ groups' \in Seq(Group) /\ Len(groups') = Len(groups) /\ DOMAIN groups' = DOMAIN groups
      /\ \A h \in DOMAIN groups : groups'[h] = IF h = g THEN H ELSE groups[h]
  BY <1>1, OneGroupChanges
<1>3. ASSUME NEW h \in DOMAIN groups, NEW s \in Segments, groups[h].member[s] # None
      PROVE  groups[h].member[s].rev \in 0..Len(revs'[s])
  <2>1. groups[h].member[s].rev \in 0..Len(revs[s])
    BY <1>3 DEF TypeInv, TypeOK
  <2>2. revs[s] \in Seq(Revision) /\ revs'[s] \in Seq(Revision) /\ Len(revs[s]) <= Len(revs'[s])
    BY DEF TypeInv, TypeOK, RevsGrow
  <2>3. Len(revs[s]) \in Nat /\ Len(revs'[s]) \in Nat
    BY <2>2, Elements
  <2> QED
    BY <2>1, <2>2, <2>3
<1>4. PointsInto(H, revs')
  BY <1>3 DEF PointsInto
<1>5. \A h \in DOMAIN groups' : PointsInto(groups'[h], revs')
  BY <1>2, <1>3, <1>4 DEF PointsInto
<1> QED
  BY <1>1, <1>2, <1>5 DEF GroupsGrow

\* A segment is written under its next version.
LEMMA WrittenType ==
  ASSUME TypeInv, NEW s \in Segments, NEW u \in Users \cup {None}, NEW x \in Texts
  PROVE  Written(s, u, x) \in Row /\ Put(s, u, x) \in [Segments -> Row]
  BY DEF TypeInv, TypeOK, Written, Put, Row

\* The counters stay below their bounds.
LEMMA CountType ==
  ASSUME TypeInv, Edits \/ Disturbs \/ Asks
  PROVE  count' \in [save: 0..MaxSaves, other: 0..MaxOthers, ask: 0..MaxAsks]
<1> DEFINE n == count.save
           m == count.other
           k == count.ask
<1>1. /\ n \in 0..MaxSaves /\ m \in 0..MaxOthers /\ k \in 0..MaxAsks
      /\ count = [save |-> n, other |-> m, ask |-> k]
  BY DEF TypeInv, TypeOK
<1>2. \/ n < MaxSaves /\ count' = [save |-> n + 1, other |-> m, ask |-> k]
      \/ m < MaxOthers /\ count' = [save |-> n, other |-> m + 1, ask |-> k]
      \/ k < MaxAsks /\ count' = [save |-> n, other |-> m, ask |-> k + 1]
  BY <1>1 DEF Edits, Disturbs, Asks
<1> HIDE DEF n, m, k
<1>3. /\ n < MaxSaves => n + 1 \in 0..MaxSaves
      /\ m < MaxOthers => m + 1 \in 0..MaxOthers
      /\ k < MaxAsks => k + 1 \in 0..MaxAsks
  BY <1>1, Constants
<1> QED
  BY <1>1, <1>2, <1>3

\* The types of what a step leaves alone.
LEMMA OldTypes ==
  ASSUME TypeInv
  PROVE  /\ seg \in [Segments -> Row] /\ off \subseteq Segments /\ shielded \subseteq Segments /\ on \in BOOLEAN
         /\ revs \in [Segments -> Seq(Revision)] /\ groups \in Seq(Group)
         /\ request \in [Reviewers -> Request \cup {None}]
         /\ \A u \in Reviewers : request[u] # None => request[u].rev \in DOMAIN revs[request[u].seg]
         /\ touch \in Touch \cup {None} /\ hand \in [Segments -> 0..Len(groups)]
         /\ reused \subseteq Segments
         /\ count \in [save: 0..MaxSaves, other: 0..MaxOthers, ask: 0..MaxAsks]
         /\ \A s \in Segments : OnePending(revs[s])
  BY DEF TypeInv, TypeOK

\* What a save does to the groups.
LEMMA SaveGroups ==
  ASSUME TypeInv, NEW s \in Segments, NEW u \in Editors, NEW x \in Texts, NEW tracked \in BOOLEAN,
         Save(s, u, x, tracked)
  PROVE  LET rs == IF tracked THEN Revised(s, seg[s].text, x) ELSE revs[s]
             n  == Len(groups)
         IN /\ rs \in Seq(Revision) /\ n \in Nat /\ DOMAIN groups = 1..n /\ DOMAIN groups' = 1..Len(groups')
            /\ groups' \in Seq(Group) /\ Len(groups') \in {n, n + 1}
            /\ \E g : /\ IF ActiveGroups(s) = {} THEN g = 0 ELSE g \in ActiveGroups(s)
                      /\ \A h \in 1..n : \/ h # g /\ groups'[h] = groups[h]
                                         \/ h = g /\ groups'[h] = Left(groups[h], s)
                                         \/ h = g /\ groups[h].source = s /\ Renewed(groups[h], groups'[h], s, rs)
                      /\ Len(groups') = n + 1 =>
                           Opened(groups'[n + 1], s, rs) /\ (g # 0 => groups'[g] = Left(groups[g], s))
<1> DEFINE rs == IF tracked THEN Revised(s, seg[s].text, x) ELSE revs[s]
<1>1. rs \in Seq(Revision)
  BY OldTypes, RevisedType DEF Row
<1>2. PICK g : (IF ActiveGroups(s) = {} THEN g = 0 ELSE g \in ActiveGroups(s))
               /\ groups' = Recorded(s, u, x, tracked, rs, g)
  BY DEF Save
<1> HIDE DEF rs
<1>3. /\ groups' \in Seq(Group) /\ Len(groups') \in {Len(groups), Len(groups) + 1}
      /\ \A h \in 1..Len(groups) :
           \/ h # g /\ groups'[h] = groups[h]
           \/ h = g /\ groups'[h] = Left(groups[h], s)
           \/ h = g /\ groups[h].source = s /\ Renewed(groups[h], groups'[h], s, rs)
      /\ Len(groups') = Len(groups) + 1 =>
           Opened(groups'[Len(groups) + 1], s, rs) /\ (g # 0 => groups'[g] = Left(groups[g], s))
  BY <1>1, <1>2, RecordedStep DEF TypeInv
<1>4. Len(groups) \in Nat /\ DOMAIN groups = 1..Len(groups) /\ DOMAIN groups' = 1..Len(groups')
  BY <1>3, GroupElements, LenProperties DEF TypeInv, TypeOK
<1> QED
  BY <1>1, <1>2, <1>3, <1>4 DEF rs

LEMMA SaveType ==
  ASSUME TypeInv, NEW s \in Segments, NEW u \in Editors, NEW x \in Texts, NEW tracked \in BOOLEAN,
         Save(s, u, x, tracked)
  PROVE  TypeInv'
<1> DEFINE rs == IF tracked THEN Revised(s, seg[s].text, x) ELSE revs[s]
<1>1. seg[s].text \in Texts /\ u \in Users /\ revs[s] \in Seq(Revision) /\ OnePending(revs[s])
      /\ revs \in [Segments -> Seq(Revision)] /\ Len(revs[s]) \in Nat
  BY Elements DEF TypeInv, TypeOK, Row, Users
<1>2. rs \in Seq(Revision) /\ Len(rs) \in Nat /\ Len(revs[s]) <= Len(rs) /\ OnePending(rs)
  BY <1>1, RevisedType
<1>3. revs' = [revs EXCEPT ![s] = rs]
  BY DEF Save
<1> HIDE DEF rs
<1>4. RevsGrow
  <2>1. \A t \in Segments : Len(revs[t]) \in Nat /\ OnePending(revs[t])
    BY Elements DEF TypeInv, TypeOK
  <2> QED
    BY <1>1, <1>2, <1>3, <2>1 DEF RevsGrow
<1>5. PICK g :
        /\ g = 0 \/ g \in ActiveGroups(s)
        /\ \A h \in 1..Len(groups) :
             \/ h # g /\ groups'[h] = groups[h]
             \/ h = g /\ groups'[h] = Left(groups[h], s)
             \/ h = g /\ groups[h].source = s /\ Renewed(groups[h], groups'[h], s, rs)
        /\ Len(groups') = Len(groups) + 1 => Opened(groups'[Len(groups) + 1], s, rs)
  BY SaveGroups DEF rs
<1>6. groups' \in Seq(Group) /\ Len(groups') \in {Len(groups), Len(groups) + 1}
  BY SaveGroups
<1>7. /\ Len(groups) \in Nat /\ DOMAIN groups = 1..Len(groups) /\ DOMAIN groups' = 1..Len(groups')
      /\ \A h \in DOMAIN groups : groups[h] \in Group
  BY SaveGroups, GroupElements, OldTypes
<1>8. Anchor(rs) \in 0..Len(revs'[s])
  BY <1>1, <1>2, <1>3, AnchorIsPending
<1>9. ASSUME NEW h \in DOMAIN groups', NEW t \in Segments, groups'[h].member[t] # None
      PROVE  groups'[h].member[t].rev \in 0..Len(revs'[t])
  <2>1. ASSUME h \in DOMAIN groups, groups[h].member[t] # None
        PROVE  groups[h].member[t].rev \in 0..Len(revs'[t])
    <3>1. groups[h].member[t].rev \in 0..Len(revs[t])
      BY <2>1 DEF TypeInv, TypeOK
    <3>2. Len(revs[t]) \in Nat /\ Len(revs'[t]) \in Nat /\ Len(revs[t]) <= Len(revs'[t])
      BY <1>4, Elements DEF RevsGrow, TypeInv, TypeOK
    <3> QED
      BY <3>1, <3>2
  <2>2. CASE h \in 1..Len(groups) /\ groups'[h] = groups[h]
    BY <1>7, <1>9, <2>1, <2>2
  <2>3. CASE h \in 1..Len(groups) /\ h = g /\ groups'[h] = Left(groups[h], s)
    <3>1. s \in Joined(groups[h]) /\ groups[h] \in Group /\ groups[h].member[s] \in Member
      <4>1. g \in ActiveGroups(s)
        <5>1. \A k \in 1..Len(groups) : k # 0
          BY <1>7
        <5>2. g # 0
          BY <2>3, <5>1
        <5> QED
          BY <1>5, <5>2
      <4>2. s \in Joined(groups[h]) /\ groups[h] \in Group
        BY <1>7, <2>3, <4>1 DEF ActiveGroups, Active
      <4> QED
        BY <4>2, GroupFields
    <3>2. groups[h].member[t] # None /\ groups'[h].member[t].rev = groups[h].member[t].rev
      <4>1. /\ groups'[h].member[s] = [groups[h].member[s] EXCEPT !.active = FALSE]
            /\ \A v \in Segments \ {s} : groups'[h].member[v] = groups[h].member[v]
        BY <2>3, <3>1, LeftFields
      <4>2. CASE t = s
        BY <3>1, <4>1, <4>2 DEF Member, Joined
      <4>3. CASE t # s
        BY <1>9, <4>1, <4>3
      <4> QED
        BY <4>2, <4>3
    <3> QED
      BY <1>7, <2>1, <2>3, <3>2
  <2>4. CASE h \in 1..Len(groups) /\ Renewed(groups[h], groups'[h], s, rs)
    BY <1>7, <1>8, <1>9, <2>1, <2>4 DEF Renewed
  <2>5. CASE h = Len(groups) + 1 /\ Opened(groups'[h], s, rs)
    BY <1>8, <1>9, <2>5 DEF Opened
  <2>6. h \in 1..Len(groups) \/ (h = Len(groups) + 1 /\ Len(groups') = Len(groups) + 1)
    <3> PICK n \in Nat, k \in Nat : n = Len(groups) /\ k = Len(groups') /\ k \in {n, n + 1}
      <4>1. Len(groups) + 1 \in Nat
        BY <1>7
      <4> QED
        BY <1>6, <1>7, <4>1, Zenon
    <3>1. h \in 1..k
      BY <1>7
    <3>2. h \in 1..n \/ (h = n + 1 /\ k = n + 1)
      BY <3>1
    <3> QED
      BY <3>2
  <2> QED
    BY <1>5, <2>2, <2>3, <2>4, <2>5, <2>6
<1>10. GroupsGrow /\ \A h \in 0..Len(groups) : h \in 0..Len(groups')
  <2> PICK n \in Nat, k \in Nat : n = Len(groups) /\ k = Len(groups') /\ k \in {n, n + 1}
    <3>1. Len(groups) + 1 \in Nat
      BY <1>7
    <3> QED
      BY <1>6, <1>7, <3>1, Zenon
  <2>1. n <= k /\ \A h \in 0..n : h \in 0..k
    OBVIOUS
  <2> QED
    BY <1>6, <1>9, <2>1 DEF GroupsGrow, PointsInto
<1>11. hand' \in [Segments -> 0..Len(groups')]
  BY <1>7, <1>10 DEF Save, TypeInv, TypeOK
<1>12. seg' \in [Segments -> Row] /\ count' \in [save: 0..MaxSaves, other: 0..MaxOthers, ask: 0..MaxAsks]
  BY <1>1, WrittenType, CountType DEF Save
<1>13. /\ off' \subseteq Segments /\ shielded' \subseteq Segments /\ on' \in BOOLEAN
       /\ request' = request /\ touch' \in Touch \cup {None} /\ reused' \subseteq Segments
  BY DEF Save, TypeInv, TypeOK
<1>14. /\ request' \in [Reviewers -> Request \cup {None}]
       /\ \A v \in Reviewers : request'[v] # None => request'[v].rev \in DOMAIN revs[request'[v].seg]
  BY <1>13 DEF TypeInv, TypeOK
<1> QED
  BY <1>4, <1>10, <1>11, <1>12, <1>13, <1>14, TypesKept


\* A machine translation's revisions: only closed.
LEMMA TranslateRevs ==
  ASSUME TypeInv, NEW s \in Segments, NEW u \in Editors, NEW x \in Texts, Translate(s, u, x)
  PROVE  /\ revs' \in [Segments -> Seq(Revision)]
         /\ \A t \in Segments : Len(revs'[t]) = Len(revs[t]) /\ ClosedOnly(revs[t], revs'[t])
         /\ \A t \in Segments \ {s} : revs'[t] = revs[t]
<1> DEFINE rs == revs[s]
           e(n) == IF rs[n].status = "pending" /\ rs[n].after # x
                   THEN [rs[n] EXCEPT !.status = "rejected"] ELSE rs[n]
           new == [n \in DOMAIN rs |-> e(n)]
<1>1. rs \in Seq(Revision) /\ Len(rs) \in Nat /\ DOMAIN rs = 1..Len(rs) /\ \A n \in 1..Len(rs) : rs[n] \in Revision
  BY OldTypes, Elements
<1>2. revs' = [revs EXCEPT ![s] = new]
  BY DEF Translate
<1>3. \A n \in 1..Len(rs) : e(n) \in Revision /\ (e(n).status = "pending" => e(n) = rs[n])
  BY <1>1 DEF Revision, Verdicts
<1>4. new \in Seq(Revision) /\ Len(new) = Len(rs) /\ DOMAIN new = DOMAIN rs
      /\ \A n \in DOMAIN rs : new[n] = e(n)
  BY <1>1, <1>3, LenProperties
<1>5. ClosedOnly(rs, new)
  BY <1>1, <1>3, <1>4 DEF ClosedOnly
<1>6. \A t \in Segments : ClosedOnly(revs[t], revs[t])
  BY DEF ClosedOnly
<1> HIDE DEF new
<1> QED
  BY <1>2, <1>4, <1>5, <1>6, OldTypes DEF rs

LEMMA TranslateType ==
  ASSUME TypeInv, NEW s \in Segments, NEW u \in Editors, NEW x \in Texts, Translate(s, u, x)
  PROVE  TypeInv'
<1>1. RevsGrow
  BY TranslateRevs, ClosedRevs
<1>2. groups' = groups
  BY DEF Translate
<1>3. GroupsGrow
  BY <1>1, <1>2, SameGroups
<1>4. seg' \in [Segments -> Row]
  BY WrittenType DEF Translate, Users
<1>5. hand' \in [Segments -> 0..Len(groups')]
  <2>1. Len(groups) \in Nat
    BY GroupElements, OldTypes
  <2> QED
    BY <1>2, <2>1, OldTypes DEF Translate
<1>6. count' \in [save: 0..MaxSaves, other: 0..MaxOthers, ask: 0..MaxAsks]
  BY CountType DEF Translate
<1>7. UNCHANGED <<off, shielded, on, request, touch, reused>>
  BY DEF Translate
<1> QED
  BY <1>1, <1>3, <1>4, <1>5, <1>6, <1>7, OldTypes, TypesKept

LEMMA ProofreadType ==
  ASSUME TypeInv, NEW s \in Segments, NEW u \in Editors, NEW x \in Texts, Proofread(s, u, x)
  PROVE  TypeInv'
<1>1. revs' = revs /\ groups' = groups
  BY DEF Proofread
<1>2. RevsGrow /\ GroupsGrow
  BY <1>1, SameRevs, SameGroups
<1>3. seg' \in [Segments -> Row]
  <2>1. u \in Users
    BY DEF Users
  <2>2. Put(s, u, x) \in [Segments -> Row] /\ [seg EXCEPT ![s].by = u] \in [Segments -> Row]
    <3>1. [seg[s] EXCEPT !.by = u] \in Row
      BY <2>1, OldTypes DEF Row
    <3>2. [seg EXCEPT ![s].by = u] = [seg EXCEPT ![s] = [seg[s] EXCEPT !.by = u]]
      BY OldTypes
    <3> QED
      BY <2>1, <3>1, <3>2, WrittenType, OldTypes
  <2> QED
    BY <2>2 DEF Proofread
<1>4. hand' \in [Segments -> 0..Len(groups')]
  <2>1. Len(groups) \in Nat
    BY GroupElements, OldTypes
  <2> QED
    BY <1>1, <2>1, OldTypes DEF Proofread
<1>5. count' \in [save: 0..MaxSaves, other: 0..MaxOthers, ask: 0..MaxAsks]
  BY CountType DEF Proofread
<1>6. UNCHANGED <<off, shielded, on, request, touch, reused>>
  BY DEF Proofread
<1> QED
  BY <1>1, <1>2, <1>3, <1>4, <1>5, <1>6, OldTypes, TypesKept

LEMMA LookType ==
  ASSUME TypeInv, NEW s \in Segments, NEW u \in Editors, NEW switch \in BOOLEAN, Look(s, u, switch)
  PROVE  TypeInv'
<1>1. RevsGrow /\ GroupsGrow
  BY SameRevs, SameGroups DEF Look
<1>2. touch' \in Touch
  BY OldTypes DEF Look, Touch, Row
<1>3. count' \in [save: 0..MaxSaves, other: 0..MaxOthers, ask: 0..MaxAsks]
  BY CountType DEF Look
<1>4. UNCHANGED <<seg, off, shielded, groups, on, request, hand, reused>>
  BY DEF Look
<1> QED
  BY <1>1, <1>2, <1>3, <1>4, OldTypes, TypesKept

LEMMA FlushType ==
  ASSUME TypeInv, Flush
  PROVE  TypeInv'
<1> DEFINE s == touch.seg
<1>1. touch \in Touch /\ s \in Segments /\ touch.version \in Nat /\ touch.user \in Users
  BY OldTypes DEF Flush, Touch, Users
<1>2. RevsGrow /\ GroupsGrow
  BY SameRevs, SameGroups DEF Flush
<1>3. seg' \in [Segments -> Row]
  <2> DEFINE v == touch.version + 1
             b == IF touch.user = touch.by THEN seg[s].by ELSE touch.user
             r == [seg[s] EXCEPT !.version = v, !.by = b]
  <2>1. seg[s] \in Row /\ v \in Nat /\ b \in Users \cup {None}
    BY <1>1, OldTypes DEF Row
  <2>2. seg' = [seg EXCEPT ![s] = r]
    BY <1>1, <2>1, OldTypes DEF Flush, Row
  <2> HIDE DEF v, b
  <2>3. r \in Row
    BY <2>1 DEF Row
  <2> HIDE DEF r
  <2> QED
    BY <1>1, <2>2, <2>3, OldTypes
<1>4. off' \subseteq Segments /\ reused' \subseteq Segments /\ touch' \in Touch \cup {None}
  BY <1>1, OldTypes DEF Flush, Stale
<1>5. UNCHANGED <<shielded, groups, on, request, hand, count>>
  BY DEF Flush
<1> QED
  BY <1>2, <1>3, <1>4, <1>5, OldTypes, TypesKept

LEMMA ProtectType ==
  ASSUME TypeInv, NEW s \in Segments, Protect(s)
  PROVE  TypeInv'
<1>1. RevsGrow /\ GroupsGrow
  BY SameRevs, SameGroups DEF Protect
<1>2. seg' \in [Segments -> Row]
  BY WrittenType, OldTypes DEF Protect, Row
<1>3. shielded' \subseteq Segments
  BY OldTypes DEF Protect
<1>4. count' \in [save: 0..MaxSaves, other: 0..MaxOthers, ask: 0..MaxAsks]
  BY CountType DEF Protect
<1>5. UNCHANGED <<off, groups, on, request, touch, hand, reused>>
  BY DEF Protect
<1> QED
  BY <1>1, <1>2, <1>3, <1>4, <1>5, OldTypes, TypesKept

LEMMA SwitchType ==
  ASSUME TypeInv, Switch
  PROVE  TypeInv'
<1>1. RevsGrow /\ GroupsGrow
  BY SameRevs, SameGroups DEF Switch
<1>2. count' \in [save: 0..MaxSaves, other: 0..MaxOthers, ask: 0..MaxAsks] /\ on' \in BOOLEAN
  BY CountType DEF Switch
<1>3. UNCHANGED <<seg, off, shielded, groups, request, touch, hand, reused>>
  BY DEF Switch
<1> QED
  BY <1>1, <1>2, <1>3, OldTypes, TypesKept

LEMMA AskType ==
  ASSUME TypeInv, NEW u \in Reviewers, NEW s \in Segments, NEW n \in DOMAIN revs[s],
         NEW verdict \in Verdicts, NEW whole \in BOOLEAN, Ask(u, s, n, verdict, whole)
  PROVE  TypeInv'
<1>1. RevsGrow /\ GroupsGrow
  BY SameRevs, SameGroups DEF Ask
<1>2. n \in Nat /\ seg[s] \in Row
  BY OldTypes, Elements
<1>3. request' = [request EXCEPT ![u] =
        [seg |-> s, rev |-> n, verdict |-> verdict, whole |-> whole, seen |-> seg[s]]]
  BY DEF Ask
<1>4. request' \in [Reviewers -> Request \cup {None}]
  BY <1>2, <1>3, OldTypes DEF Request
<1>5. ASSUME NEW v \in Reviewers, request'[v] # None
      PROVE  request'[v].rev \in DOMAIN revs[request'[v].seg]
  BY <1>3, <1>5, OldTypes
<1>6. count' \in [save: 0..MaxSaves, other: 0..MaxOthers, ask: 0..MaxAsks]
  BY CountType DEF Ask
<1>7. UNCHANGED <<seg, off, shielded, groups, on, touch, hand, reused>>
  BY DEF Ask
<1> QED
  BY <1>1, <1>4, <1>5, <1>6, <1>7, OldTypes, TypesKept

\* A failed attempt changes the task of one group.
LEMMA FailStep ==
  ASSUME TypeInv, NEW g \in DOMAIN groups, Fail(g)
  PROVE  \E tk \in Task :
           /\ groups[g].task.status = "pending" /\ tk.gen = groups[g].task.gen
           /\ groups' = [groups EXCEPT ![g] = [groups[g] EXCEPT !.task = tk]]
<1> DEFINE G == groups[g]
           st == IF G.task.attempts + 1 >= Attempts THEN "failed" ELSE G.task.status
           at == G.task.attempts + 1
           tk == [G.task EXCEPT !.attempts = at, !.status = st]
<1>1. G \in Group /\ G.task \in Task /\ groups \in Seq(Group) /\ DOMAIN groups = 1..Len(groups)
  BY OldTypes, GroupElements, GroupFields
<1>2. st \in {"none", "pending", "completed", "cancelled", "failed"}
  BY <1>1 DEF Task
<1>3. groups' = [groups EXCEPT ![g] = [G EXCEPT !.task = tk]]
  <2> HIDE DEF Attempts
  <2> QED
    BY <1>1 DEF Fail, Group, Task
<1>6. at \in Nat
  BY <1>1 DEF Task
<1> HIDE DEF st, at, G
<1>4. tk \in Task /\ tk.gen = G.task.gen
  BY <1>1, <1>2, <1>6 DEF Task
<1>5. G.task.status = "pending"
  BY DEF Fail, G
<1> QED
  BY <1>3, <1>4, <1>5 DEF G

LEMMA FailType ==
  ASSUME TypeInv, NEW g \in DOMAIN groups, Fail(g)
  PROVE  TypeInv'
<1>1. PICK tk \in Task : groups' = [groups EXCEPT ![g] = [groups[g] EXCEPT !.task = tk]]
  BY FailStep
<1> DEFINE H == [groups[g] EXCEPT !.task = tk]
<1>2. H \in Group /\ H.member = groups[g].member
  BY OldTypes, GroupElements DEF Group
<1>3. RevsGrow
  BY SameRevs DEF Fail
<1> HIDE DEF H
<1>4. GroupsGrow /\ Len(groups') = Len(groups)
  BY <1>1, <1>2, <1>3, GroupChanged DEF H
<1>5. UNCHANGED <<seg, off, shielded, on, request, touch, hand, reused, count>>
  BY DEF Fail
<1> QED
  BY <1>3, <1>4, <1>5, OldTypes, TypesKept

\* A stored task: the group may be bound to a new version of its source.
LEMMA EnqueueStep ==
  ASSUME TypeInv, NEW g \in DOMAIN groups, NEW u \in Editors, Enqueue(g, u)
  PROVE  \E H \in Group :
           /\ groups' = [groups EXCEPT ![g] = H]
           /\ groups[g].status = "pending" /\ H.status = "pending" /\ H.source = groups[g].source
           /\ H.task.gen = H.gen
           /\ \A t \in Segments \ {H.source} : H.member[t] = groups[g].member[t]
           /\ \/ H.member[H.source] = groups[g].member[H.source]
              \/ /\ H.source \in Active(groups[g])
                 /\ H.member[H.source] \in Member
                 /\ H.member[H.source].rev = groups[g].member[H.source].rev
<1> DEFINE G == groups[g]
           s == G.source
           rebound == /\ G.version # seg[s].version
                      /\ seg[s].text = G.after /\ seg[s].by = u
                      /\ g \in ActiveGroups(s)
           H == IF rebound
                THEN [G EXCEPT !.version = seg[s].version, !.gen = @ + 1,
                               !.member[s].version = seg[s].version]
                ELSE G
           again == H.task.gen # H.gen \/ H.task.status \in {"none", "failed", "cancelled"}
           tk == [status |-> "pending", gen |-> H.gen, attempts |-> 0]
           I == IF again THEN [H EXCEPT !.task = tk] ELSE H
<1>1. G \in Group /\ s \in Segments /\ G.gen \in Nat /\ seg[s].version \in Nat /\ groups \in Seq(Group)
      /\ G.member \in [Segments -> Member \cup {None}]
  BY OldTypes, GroupElements, GroupFields DEF Row
<1>2. groups' = [groups EXCEPT ![g] = I] /\ G.status = "pending"
  BY DEF Enqueue
<1>3. /\ H \in Group /\ H.source = s /\ H.status = G.status
      /\ \A t \in Segments \ {s} : H.member[t] = G.member[t]
      /\ \/ H.member[s] = G.member[s]
         \/ s \in Active(G) /\ H.member[s] \in Member /\ H.member[s].rev = G.member[s].rev
  <2>1. CASE rebound
    <3>1. s \in Active(G) /\ G.member[s] \in Member
      BY <1>1, <2>1, GroupFields DEF ActiveGroups, Active
    <3> DEFINE m == [G.member[s] EXCEPT !.version = seg[s].version]
               M == [G.member EXCEPT ![s] = m]
               v == seg[s].version
               gn == G.gen + 1
    <3>2. m \in Member /\ m.rev = G.member[s].rev
      BY <1>1, <3>1 DEF Member
    <3>3. H = [G EXCEPT !.version = v, !.gen = gn, !.member = M]
      BY <1>1, <2>1 DEF Group
    <3> HIDE DEF m
    <3>4. M \in [Segments -> Member \cup {None}] /\ M[s] = m /\ \A t \in Segments \ {s} : M[t] = G.member[t]
      BY <1>1, <3>2
    <3>5. v \in Nat /\ gn \in Nat
      BY <1>1
    <3> HIDE DEF M, v, gn, H
    <3>6. H \in Group /\ H.source = s /\ H.status = G.status /\ H.member = M
      BY <1>1, <3>3, <3>4, <3>5 DEF Group
    <3> QED
      BY <3>1, <3>2, <3>4, <3>6
  <2>2. CASE ~rebound
    BY <1>1, <2>2
  <2> QED
    BY <2>1, <2>2
<1> HIDE DEF H
<1>4. /\ I \in Group /\ I.source = s /\ I.status = G.status /\ I.member = H.member
      /\ I.task.gen = I.gen
  <2>1. tk \in Task /\ tk.gen = H.gen
    BY <1>3, GroupFields DEF Task
  <2>2. CASE again
    <3> HIDE DEF tk, again
    <3>1. [H EXCEPT !.task = tk] \in Group
      BY <1>3, <2>1 DEF Group
    <3>2. /\ [H EXCEPT !.task = tk].source = s /\ [H EXCEPT !.task = tk].status = G.status
          /\ [H EXCEPT !.task = tk].member = H.member /\ [H EXCEPT !.task = tk].gen = H.gen
          /\ [H EXCEPT !.task = tk].task = tk
      BY <1>3 DEF Group
    <3> QED
      BY <2>1, <2>2, <3>1, <3>2
  <2>3. CASE ~again
    BY <1>3, <2>3
  <2> QED
    BY <2>2, <2>3
<1> HIDE DEF I
<1>5. /\ I.status = "pending" /\ I.source = G.source
      /\ \A t \in Segments \ {I.source} : I.member[t] = G.member[t]
      /\ \/ I.member[I.source] = G.member[I.source]
         \/ /\ I.source \in Active(G) /\ I.member[I.source] \in Member
            /\ I.member[I.source].rev = G.member[I.source].rev
  BY <1>2, <1>3, <1>4
<1> HIDE DEF G
<1> QED
  BY <1>2, <1>4, <1>5 DEF G

LEMMA EnqueueType ==
  ASSUME TypeInv, NEW g \in DOMAIN groups, NEW u \in Editors, Enqueue(g, u)
  PROVE  TypeInv'
<1>1. PICK H \in Group :
        /\ groups' = [groups EXCEPT ![g] = H]
        /\ \A t \in Segments \ {H.source} : H.member[t] = groups[g].member[t]
        /\ \/ H.member[H.source] = groups[g].member[H.source]
           \/ /\ H.source \in Active(groups[g])
              /\ H.member[H.source].rev = groups[g].member[H.source].rev
  BY EnqueueStep
<1>2. RevsGrow
  BY SameRevs DEF Enqueue
<1>3. ASSUME NEW s \in Segments
      PROVE  \/ H.member[s] = groups[g].member[s]
             \/ groups[g].member[s] # None /\ H.member[s].rev = groups[g].member[s].rev
  BY <1>1 DEF Active, Joined
<1>4. GroupsGrow /\ Len(groups') = Len(groups)
  BY <1>1, <1>2, <1>3, GroupChanged
<1>5. UNCHANGED <<seg, off, shielded, on, request, touch, hand, reused, count>>
  BY DEF Enqueue
<1> QED
  BY <1>2, <1>4, <1>5, OldTypes, TypesKept

-----------------------------------------------------------------------------
(* The spreading of a text. *)

\* A group whose task finds its source as it was stored for.
Spreads(g, W) == g \in DOMAIN groups /\ Process(g, W) /\ ~SourceChanged(g, W)

\* The segments a task writes.
Reached(g, W) == Joins(groups[g], W) \cup Follows(groups[g], W)

\* Who they are: segments without open revision and group, or members nobody has
\* edited since.
LEMMA WhoIsReached ==
  ASSUME TypeInv, NEW g, NEW W \in SUBSET Segments, Spreads(g, W)
  PROVE  /\ groups[g] \in Group /\ groups[g].status = "pending"
         /\ Reached(g, W) \subseteq Segments \ {groups[g].source}
         /\ \A s \in Joins(groups[g], W) :
              /\ s \notin Joined(groups[g]) /\ s \notin Follows(groups[g], W)
              /\ ~Reverting(groups[g])
              /\ seg[s].text = groups[g].before /\ Anchor(revs[s]) = 0 /\ ActiveGroups(s) = {}
         /\ \A s \in Follows(groups[g], W) :
              /\ s \in Active(groups[g]) /\ s \notin Joins(groups[g], W) /\ Linked(groups[g], s)
              /\ groups[g].member[s] \in Member
<1>1. groups[g] \in Group
  BY OldTypes, GroupElements DEF Spreads
<1>2. groups[g].status = "pending"
  BY DEF Spreads, SourceChanged
<1>3. Reached(g, W) \subseteq Segments \ {groups[g].source}
  BY DEF Reached, Joins, Follows, Followers
<1>4. \A s \in Joins(groups[g], W) :
        /\ s \notin Joined(groups[g]) /\ ~Reverting(groups[g])
        /\ seg[s].text = groups[g].before /\ Anchor(revs[s]) = 0 /\ ActiveGroups(s) = {}
  BY DEF Joins
<1>5. \A s \in Follows(groups[g], W) : s \in Joined(groups[g]) /\ Linked(groups[g], s)
  BY DEF Follows
<1>6. \A s \in Follows(groups[g], W) : s \in Active(groups[g]) /\ groups[g].member[s] \in Member
  BY <1>1, <1>5, GroupFields DEF Active, Linked
<1> QED
  BY <1>1, <1>2, <1>3, <1>4, <1>5, <1>6

\* What happens to the revisions of one segment.
SpreadRevs(s, g, W) ==
  LET G == groups[g]
  IN CASE s \in Follows(G, W) /\ Reverting(G) -> [revs[s] EXCEPT ![G.member[s].rev].status = "rejected"]
       [] s \in Reached(g, W) /\ ~Reverting(G) -> Revised(s, seg[s].text, G.after)
       [] OTHER -> revs[s]

LEMMA SpreadRevsType ==
  ASSUME TypeInv, NEW g, NEW W \in SUBSET Segments, Spreads(g, W), NEW s \in Segments
  PROVE  /\ SpreadRevs(s, g, W) \in Seq(Revision) /\ Len(revs[s]) <= Len(SpreadRevs(s, g, W))
         /\ OnePending(SpreadRevs(s, g, W))
         /\ s \notin Reached(g, W) => SpreadRevs(s, g, W) = revs[s]
         /\ s \in Reached(g, W) /\ ~Reverting(groups[g]) =>
              SpreadRevs(s, g, W) = Revised(s, seg[s].text, groups[g].after)
<1> DEFINE G == groups[g]
<1>1. /\ revs \in [Segments -> Seq(Revision)] /\ revs[s] \in Seq(Revision) /\ OnePending(revs[s])
      /\ Len(revs[s]) \in Nat /\ seg[s].text \in Texts
  BY OldTypes, Elements DEF Row
<1>2. G \in Group /\ G.after \in Texts
  BY WhoIsReached, GroupFields
<1>3. CASE s \in Follows(G, W) /\ Reverting(G)
  <2>1. Open(s, G.member[s].rev)
    BY <1>3, WhoIsReached DEF Linked
  <2> DEFINE new == [revs[s] EXCEPT ![G.member[s].rev].status = "rejected"]
  <2>2. G.member[s].rev \in DOMAIN revs[s] /\ "rejected" \in Verdicts
    BY <2>1 DEF Open, Verdicts
  <2>3. new \in Seq(Revision) /\ Len(new) = Len(revs[s]) /\ ClosedOnly(revs[s], new)
    BY <1>1, <2>2, VerdictType
  <2>4. SpreadRevs(s, g, W) = new
    BY <1>3 DEF SpreadRevs
  <2>5. s \in Reached(g, W)
    BY <1>3 DEF Reached
  <2> HIDE DEF new
  <2>6. OnePending(new)
    BY <1>1, <2>3, ClosedOnePending
  <2> QED
    BY <1>1, <1>3, <2>3, <2>4, <2>5, <2>6
<1>4. CASE s \in Reached(g, W) /\ ~Reverting(G)
  <2>1. SpreadRevs(s, g, W) = Revised(s, seg[s].text, G.after)
    BY <1>4 DEF SpreadRevs
  <2> QED
    BY <1>1, <1>2, <1>4, <2>1, RevisedType
<1>5. CASE ~(s \in Follows(G, W) /\ Reverting(G)) /\ ~(s \in Reached(g, W) /\ ~Reverting(G))
  <2>1. SpreadRevs(s, g, W) = revs[s]
    BY <1>5 DEF SpreadRevs
  <2> QED
    BY <1>1, <1>5, <2>1
<1> QED
  BY <1>3, <1>4, <1>5

\* The member a segment is afterwards.
SpreadMember(s, g, W) ==
  LET G == groups[g]
  IN CASE s \in Reached(g, W) ->
            [before |-> IF s \in Joins(G, W) THEN seg[s].text ELSE G.member[s].before,
             after |-> G.after, version |-> seg[s].version + 1,
             rev |-> IF Reverting(G) THEN G.member[s].rev ELSE Returned(s, seg[s].text, G.after),
             active |-> TRUE]
       [] s \in (Followers(G, W) \cap Joined(G)) \ Follows(G, W) ->
            [G.member[s] EXCEPT !.active = FALSE]
       [] OTHER -> G.member[s]

LEMMA ReachedMember ==
  ASSUME TypeInv, NEW g, NEW W \in SUBSET Segments, Spreads(g, W), NEW s \in Reached(g, W)
  PROVE  LET G == groups[g]
             m == SpreadMember(s, g, W)
         IN /\ m = [before |-> IF s \in Joins(G, W) THEN seg[s].text ELSE G.member[s].before,
                    after |-> G.after, version |-> seg[s].version + 1,
                    rev |-> IF Reverting(G) THEN G.member[s].rev ELSE Returned(s, seg[s].text, G.after),
                    active |-> TRUE]
            /\ m.before = IF s \in Joins(G, W) THEN seg[s].text ELSE G.member[s].before
            /\ m.after = G.after /\ m.version = seg[s].version + 1
            /\ m.rev = IF Reverting(G) THEN G.member[s].rev ELSE Returned(s, seg[s].text, G.after)
<1> DEFINE G == groups[g]
           b == IF s \in Joins(G, W) THEN seg[s].text ELSE G.member[s].before
           r == IF Reverting(G) THEN G.member[s].rev ELSE Returned(s, seg[s].text, G.after)
           v == seg[s].version + 1
           m == SpreadMember(s, g, W)
<1>1. s \notin (Followers(G, W) \cap Joined(G)) \ Follows(G, W)
  BY WhoIsReached DEF Active, Reached
<1> HIDE DEF b, r, v
<1>2. m = CASE s \in Reached(g, W) ->
                 [before |-> b, after |-> G.after, version |-> v, rev |-> r, active |-> TRUE]
            [] s \in (Followers(G, W) \cap Joined(G)) \ Follows(G, W) ->
                 [G.member[s] EXCEPT !.active = FALSE]
            [] OTHER -> G.member[s]
  BY Zenon DEF SpreadMember, b, r, v
<1> HIDE DEF m, G
<1>3. m = [before |-> b, after |-> G.after, version |-> v, rev |-> r, active |-> TRUE]
  BY <1>1, <1>2
<1>4. m.before = b /\ m.after = G.after /\ m.version = v /\ m.rev = r
  BY <1>3
<1> QED
  BY <1>3, <1>4, Zenon DEF b, r, v, m, G

LEMMA SpreadMemberType ==
  ASSUME TypeInv, NEW g, NEW W \in SUBSET Segments, Spreads(g, W), NEW s \in Segments
  PROVE  LET m == SpreadMember(s, g, W)
         IN /\ m \in Member \cup {None}
            /\ s \in Reached(g, W) => m \in Member /\ m.rev \in 0..Len(SpreadRevs(s, g, W))
            /\ s \notin Reached(g, W) =>
                 \/ m = groups[g].member[s]
                 \/ /\ groups[g].member[s] # None /\ m \in Member
                    /\ m.rev = groups[g].member[s].rev /\ ~m.active
<1> DEFINE G == groups[g]
           m == SpreadMember(s, g, W)
<1>1. /\ G \in Group /\ G.after \in Texts /\ G.member \in [Segments -> Member \cup {None}]
      /\ seg[s].text \in Texts /\ seg[s].version + 1 \in Nat
      /\ revs \in [Segments -> Seq(Revision)] /\ OnePending(revs[s])
  <2>1. G \in Group /\ seg[s] \in Row /\ revs \in [Segments -> Seq(Revision)] /\ OnePending(revs[s])
    BY WhoIsReached, OldTypes
  <2>2. seg[s].text \in Texts /\ seg[s].version + 1 \in Nat
    BY <2>1 DEF Row
  <2> QED
    BY <2>1, <2>2, GroupFields
<1>2. CASE s \in Reached(g, W)
  <2> DEFINE b == IF s \in Joins(G, W) THEN seg[s].text ELSE G.member[s].before
             r == IF Reverting(G) THEN G.member[s].rev ELSE Returned(s, seg[s].text, G.after)
             v == seg[s].version + 1
  <2>1. s \in Joins(G, W) \/ (s \in Follows(G, W) /\ G.member[s] \in Member)
    BY <1>2, WhoIsReached DEF Reached
  <2>2. b \in Texts
    BY <1>1, <2>1 DEF Member
  <2>3. r \in 0..Len(SpreadRevs(s, g, W))
    <3>1. CASE Reverting(G)
      <4>1. s \in Follows(G, W) /\ G.member[s] # None
        <5>1. s \in Follows(G, W)
          BY <2>1, <3>1, WhoIsReached
        <5>2. s \in Active(G)
          BY <5>1, WhoIsReached
        <5> QED
          BY <5>1, <5>2 DEF Active, Joined
      <4>2. G.member[s].rev \in 0..Len(revs[s])
        BY <4>1, WhoIsReached DEF TypeInv, TypeOK, Spreads
      <4>3. Len(revs[s]) \in Nat /\ Len(SpreadRevs(s, g, W)) \in Nat /\ Len(revs[s]) <= Len(SpreadRevs(s, g, W))
        BY <1>1, SpreadRevsType, Elements
      <4> QED
        BY <3>1, <4>2, <4>3
    <3>2. CASE ~Reverting(G)
      <4>1. Returned(s, seg[s].text, G.after) \in 0..Len(Revised(s, seg[s].text, G.after))
        BY <1>1, RevisedType
      <4>2. SpreadRevs(s, g, W) = Revised(s, seg[s].text, G.after)
        BY <1>2, <3>2, SpreadRevsType
      <4> QED
        BY <3>2, <4>1, <4>2
    <3> QED
      BY <3>1, <3>2
  <2>4. m = [before |-> b, after |-> G.after, version |-> v, rev |-> r, active |-> TRUE]
    BY <1>2, ReachedMember
  <2>5. r \in Nat
    <3>1. Len(SpreadRevs(s, g, W)) \in Nat
      BY SpreadRevsType, Elements
    <3> HIDE DEF r
    <3> QED
      BY <2>3, <3>1
  <2> HIDE DEF b, r, v, m, G
  <2>6. m \in Member /\ m.rev = r
    BY <1>1, <2>2, <2>4, <2>5 DEF Member, v
  <2> QED
    BY <1>2, <2>3, <2>6 DEF m, G
<1>3. CASE s \notin Reached(g, W) /\ s \in (Followers(G, W) \cap Joined(G)) \ Follows(G, W)
  <2>1. m = [G.member[s] EXCEPT !.active = FALSE]
    BY <1>3 DEF SpreadMember
  <2>2. G.member[s] \in Member /\ G.member[s] # None
    BY <1>1, <1>3, GroupFields DEF Joined
  <2>3. [G.member[s] EXCEPT !.active = FALSE] \in Member /\ [G.member[s] EXCEPT !.active = FALSE].rev = G.member[s].rev
        /\ ~[G.member[s] EXCEPT !.active = FALSE].active
    BY <2>2 DEF Member
  <2> QED
    BY <1>3, <2>1, <2>2, <2>3
<1>4. CASE s \notin Reached(g, W) /\ s \notin (Followers(G, W) \cap Joined(G)) \ Follows(G, W)
  <2>1. m = G.member[s]
    BY <1>4 DEF SpreadMember
  <2> QED
    BY <1>1, <1>4, <2>1
<1> QED
  BY <1>2, <1>3, <1>4

\* The step: one group, and the segments it reaches.
LEMMA SpreadStep ==
  ASSUME TypeInv, NEW g, NEW W \in SUBSET Segments, Spreads(g, W)
  PROVE  /\ RevsGrow
         /\ \A s \in Segments : revs'[s] = SpreadRevs(s, g, W)
         /\ \A s \in Segments :
              IF s \in Reached(g, W)
              THEN seg'[s] = Written(s, groups[g].author, groups[g].after) /\ hand'[s] = g
              ELSE seg'[s] = seg[s] /\ hand'[s] = hand[s]
         /\ seg' \in [Segments -> Row] /\ hand' \in [Segments -> 0..Len(groups)]
         /\ \E H \in Group :
              /\ groups' = [groups EXCEPT ![g] = H]
              /\ H.source = groups[g].source /\ H.gen = groups[g].gen /\ H.task.status # "pending"
              /\ H.status = IF Reverting(groups[g]) THEN "reverted" ELSE groups[g].status
              /\ \A s \in Segments : H.member[s] = SpreadMember(s, g, W)
<1> DEFINE G == groups[g]
           R == Reached(g, W)
<1>1. /\ G \in Group /\ groups \in Seq(Group) /\ g \in 1..Len(groups) /\ Len(groups) \in Nat
      /\ G.author \in Users /\ G.after \in Texts /\ G.task \in Task /\ G.member \in [Segments -> Member \cup {None}]
  BY OldTypes, GroupElements, GroupFields DEF Spreads
<1>2. /\ seg' = [s \in Segments |-> IF s \in R THEN Written(s, G.author, G.after) ELSE seg[s]]
      /\ revs' = [s \in Segments |-> SpreadRevs(s, g, W)]
      /\ hand' = [s \in Segments |-> IF s \in R THEN g ELSE hand[s]]
      /\ groups' = [groups EXCEPT ![g] =
           [G EXCEPT !.status = IF Reverting(G) THEN "reverted" ELSE @,
                     !.task.status = "completed",
                     !.member = [s \in Segments |-> SpreadMember(s, g, W)]]]
  BY DEF Spreads, Process, SpreadRevs, SpreadMember, Reached
<1>3. RevsGrow /\ \A s \in Segments : revs'[s] = SpreadRevs(s, g, W)
  BY <1>2, SpreadRevsType DEF RevsGrow
<1>4. /\ seg' \in [Segments -> Row] /\ hand' \in [Segments -> 0..Len(groups)]
      /\ \A s \in Segments :
           IF s \in R THEN seg'[s] = Written(s, G.author, G.after) /\ hand'[s] = g
           ELSE seg'[s] = seg[s] /\ hand'[s] = hand[s]
  <2>1. \A s \in Segments : Written(s, G.author, G.after) \in Row
    BY <1>1, WrittenType
  <2> HIDE DEF R, G
  <2> QED
    BY <1>1, <1>2, <2>1, OldTypes
<1> DEFINE M == [s \in Segments |-> SpreadMember(s, g, W)]
           st == IF Reverting(G) THEN "reverted" ELSE G.status
           tk == [G.task EXCEPT !.status = "completed"]
           H == [G EXCEPT !.status = st, !.task = tk, !.member = M]
<1>5. M \in [Segments -> Member \cup {None}] /\ \A s \in Segments : M[s] = SpreadMember(s, g, W)
  BY SpreadMemberType
<1>6. tk \in Task /\ tk.status = "completed"
  BY <1>1 DEF Task
<1>7. st \in Verdicts \cup {"pending", "detached", "reverted"}
  BY <1>1, GroupFields
<1>8. groups' = [groups EXCEPT ![g] = H]
  <2> HIDE DEF M
  <2>1. [G EXCEPT !.status = st, !.task.status = "completed", !.member = M] = H
    BY <1>1 DEF Group
  <2> QED
    BY <1>2, <2>1 DEF M
<1> HIDE DEF M, st, tk, G
<1>9. H \in Group /\ H.source = G.source /\ H.gen = G.gen /\ H.task = tk /\ H.status = st /\ H.member = M
  BY <1>1, <1>5, <1>6, <1>7 DEF Group
<1> HIDE DEF H
<1>10. /\ H.source = G.source /\ H.gen = G.gen /\ H.task.status # "pending" /\ H.status = st
       /\ \A s \in Segments : H.member[s] = SpreadMember(s, g, W)
  BY <1>5, <1>6, <1>9
<1> QED
  BY <1>3, <1>4, <1>8, <1>9, <1>10 DEF G, st

LEMMA ProcessType ==
  ASSUME TypeInv, NEW g \in DOMAIN groups, NEW W \in SUBSET Segments, Process(g, W)
  PROVE  TypeInv'
<1>1. UNCHANGED <<off, shielded, on, request, touch, reused, count>>
  BY DEF Process
<1>2. CASE SourceChanged(g, W)
  <2> DEFINE G == groups[g]
             tk == [G.task EXCEPT !.status = "cancelled"]
             H == [G EXCEPT !.task = tk]
  <2>1. groups' = [groups EXCEPT ![g] = H] /\ UNCHANGED <<seg, revs, hand>>
    <3>1. groups' = [groups EXCEPT ![g].task.status = "cancelled"] /\ UNCHANGED <<seg, revs, hand>>
      BY <1>2 DEF Process
    <3> QED
      BY <3>1
  <2>2. G \in Group /\ G.task \in Task
    BY OldTypes, GroupElements, GroupFields
  <2>3. tk \in Task
    BY <2>2 DEF Task
  <2> HIDE DEF G, tk
  <2>4. H \in Group /\ H.member = G.member
    BY <2>2, <2>3 DEF Group
  <2> HIDE DEF H
  <2>5. RevsGrow
    BY <2>1, SameRevs
  <2>6. GroupsGrow /\ Len(groups') = Len(groups)
    BY <2>1, <2>4, <2>5, GroupChanged DEF G
  <2> QED
    BY <1>1, <2>1, <2>5, <2>6, OldTypes, TypesKept
<1>3. CASE ~SourceChanged(g, W)
  <2>1. Spreads(g, W)
    BY <1>3 DEF Spreads
  <2>2. PICK H \in Group :
          /\ groups' = [groups EXCEPT ![g] = H]
          /\ \A s \in Segments : H.member[s] = SpreadMember(s, g, W)
    BY <2>1, SpreadStep
  <2>3. /\ RevsGrow /\ \A s \in Segments : revs'[s] = SpreadRevs(s, g, W)
        /\ seg' \in [Segments -> Row] /\ hand' \in [Segments -> 0..Len(groups)]
    BY <2>1, SpreadStep
  <2>4. ASSUME NEW s \in Segments
        PROVE  \/ H.member[s] = groups[g].member[s]
               \/ groups[g].member[s] # None /\ H.member[s].rev = groups[g].member[s].rev
               \/ H.member[s].rev \in 0..Len(revs'[s])
    BY <2>1, <2>2, <2>3, SpreadMemberType
  <2>5. GroupsGrow /\ Len(groups') = Len(groups)
    BY <2>2, <2>3, <2>4, GroupChanged
  <2> QED
    BY <1>1, <2>3, <2>5, OldTypes, TypesKept
<1> QED
  BY <1>2, <1>3

-----------------------------------------------------------------------------
(* Resolutions. *)

\* The members a resolution leaves alone, and those it resolves.
SparedBy(g, q) == {s \in Active(groups[g]) : Linked(groups[g], s) /\ s # q.seg /\ s \in shielded}
DoneBy(g, q, W) == {s \in Active(groups[g]) \ SparedBy(g, q) : Linked(groups[g], s) /\ s \in W \ off}

\* The step: one group, which ends, and the members that are resolved.
LEMMA ResolveStep ==
  ASSUME TypeInv, NEW g \in DOMAIN groups, NEW u \in Reviewers, NEW q \in Request,
         NEW W \in SUBSET Segments, ResolveGroup(g, u, q, W)
  PROVE  /\ revs' \in [Segments -> Seq(Revision)]
         /\ \A s \in Segments : Len(revs'[s]) = Len(revs[s]) /\ ClosedOnly(revs[s], revs'[s])
         /\ seg' \in [Segments -> Row] /\ hand' \in [Segments -> 0..Len(groups)]
         /\ \A s \in Segments :
              \/ seg'[s] = seg[s] /\ hand'[s] = hand[s]
              \/ /\ s \in Joined(groups[g]) /\ Linked(groups[g], s)
                 /\ seg'[s].version = seg[s].version + 1 /\ hand'[s] = g
         /\ groups[g].status = "pending"
         /\ \E H \in Group :
              /\ groups' = [groups EXCEPT ![g] = H]
              /\ H.source = groups[g].source /\ H.status = q.verdict /\ H.task.status # "pending"
              /\ \A s \in Segments :
                   \/ H.member[s] = groups[g].member[s]
                   \/ groups[g].member[s] # None /\ H.member[s].rev = groups[g].member[s].rev
<1> DEFINE G == groups[g]
           D == DoneBy(g, q, W)
           S == SparedBy(g, q)
           x(s) == IF q.verdict = "rejected" THEN G.member[s].before ELSE G.member[s].after
           m(s) == CASE s \in D -> [G.member[s] EXCEPT !.version = @ + 1]
                     [] s \in Active(G) \ (D \cup S) -> [G.member[s] EXCEPT !.active = FALSE]
                     [] OTHER -> G.member[s]
           M == [s \in Segments |-> m(s)]
           tk == Cancelled(G.task)
           st == q.verdict
           H == [G EXCEPT !.status = st, !.task = tk, !.member = M]
<1>1. /\ G \in Group /\ groups \in Seq(Group) /\ g \in 1..Len(groups) /\ Len(groups) \in Nat
      /\ G.task \in Task /\ G.member \in [Segments -> Member \cup {None}]
  BY OldTypes, GroupElements, GroupFields
<1>2. st \in Verdicts
  BY DEF Request
<1>3. /\ G.status = "pending"
      /\ seg' = [s \in Segments |-> IF s \in D THEN Written(s, u, x(s)) ELSE seg[s]]
      /\ revs' = [s \in Segments |->
           IF s \in D THEN [revs[s] EXCEPT ![G.member[s].rev].status = st] ELSE revs[s]]
      /\ groups' = [groups EXCEPT ![g] = H]
      /\ hand' = [s \in Segments |-> IF s \in D THEN g ELSE hand[s]]
  BY DEF ResolveGroup, DoneBy, SparedBy
<1>4. \A s \in Active(G) : s \in Segments /\ s \in Joined(G) /\ G.member[s] \in Member
  BY <1>1, GroupFields DEF Active
<1>5. \A s \in D : s \in Active(G) /\ Linked(G, s)
  BY DEF DoneBy
<1>6. \A s \in D : /\ s \in Segments /\ x(s) \in Texts /\ G.member[s] \in Member
                   /\ G.member[s].rev \in DOMAIN revs[s]
  BY <1>4, <1>5 DEF Linked, Open, Member
<1>7. ASSUME NEW s \in Segments
      PROVE  /\ revs'[s] \in Seq(Revision) /\ Len(revs'[s]) = Len(revs[s])
             /\ ClosedOnly(revs[s], revs'[s])
  <2>1. revs[s] \in Seq(Revision) /\ ClosedOnly(revs[s], revs[s])
    BY OldTypes DEF ClosedOnly
  <2>2. CASE s \in D
    <3> DEFINE n == G.member[s].rev
    <3>1. n \in DOMAIN revs[s] /\ revs'[s] = [revs[s] EXCEPT ![n].status = st]
      BY <1>3, <1>6, <2>2
    <3> HIDE DEF n, st
    <3> QED
      BY <1>2, <2>1, <3>1, VerdictType
  <2>3. CASE s \notin D
    BY <1>3, <2>1, <2>3
  <2> QED
    BY <2>2, <2>3
<1>8. revs' \in [Segments -> Seq(Revision)]
  BY <1>3, <1>7
<1>9. seg' \in [Segments -> Row] /\ hand' \in [Segments -> 0..Len(groups)]
  <2>1. \A s \in D : Written(s, u, x(s)) \in Row
    BY <1>6, WrittenType DEF Users
  <2> HIDE DEF D, x
  <2> QED
    BY <1>1, <1>3, <2>1, OldTypes
<1>10. ASSUME NEW s \in Segments
       PROVE  \/ seg'[s] = seg[s] /\ hand'[s] = hand[s]
              \/ /\ s \in Joined(G) /\ Linked(G, s)
                 /\ seg'[s].version = seg[s].version + 1 /\ hand'[s] = g
  BY <1>3, <1>4, <1>5 DEF Written
<1>11. ASSUME NEW s \in Segments
       PROVE  /\ M[s] \in Member \cup {None}
              /\ \/ M[s] = G.member[s]
                \/ /\ G.member[s] # None
                   /\ M[s].rev = G.member[s].rev
  <2>1. CASE s \in D
    <3> DEFINE v == G.member[s].version + 1
               w == [G.member[s] EXCEPT !.version = v]
    <3>1. G.member[s] \in Member /\ G.member[s] # None
      BY <1>4, <1>5, <2>1 DEF Joined
    <3>2. v \in Nat
      BY <3>1 DEF Member
    <3>3. M[s] = w
      <4>1. s \notin Active(G) \ (D \cup S)
        BY <2>1
      <4> QED
        BY <2>1, <4>1
    <3> HIDE DEF M, v, G
    <3>4. w \in Member /\ w.rev = G.member[s].rev
      BY <3>1, <3>2 DEF Member
    <3> QED
      BY <3>1, <3>3, <3>4
  <2>2. CASE s \notin D /\ s \in Active(G) \ (D \cup S)
    <3> DEFINE w == [G.member[s] EXCEPT !.active = FALSE]
    <3>1. G.member[s] \in Member /\ G.member[s] # None
      BY <1>4, <2>2 DEF Joined
    <3>2. M[s] = w
      BY <2>2
    <3> HIDE DEF M, G
    <3>3. w \in Member /\ w.rev = G.member[s].rev
      BY <3>1 DEF Member
    <3> QED
      BY <3>1, <3>2, <3>3
  <2>3. CASE s \notin D /\ s \notin Active(G) \ (D \cup S)
    <3>1. M[s] = G.member[s]
      BY <2>3
    <3> QED
      BY <1>1, <3>1
  <2> QED
    BY <2>1, <2>2, <2>3
<1>12. tk \in Task /\ tk.status # "pending"
  BY <1>1, CancelledType
<1>13. M \in [Segments -> Member \cup {None}]
  BY <1>11
<1> HIDE DEF M, tk, G
<1>14. H \in Group /\ H.source = G.source /\ H.status = st /\ H.task = tk /\ H.member = M
  BY <1>1, <1>2, <1>12, <1>13 DEF Group
<1> HIDE DEF H
<1>15. /\ groups' = [groups EXCEPT ![g] = H] /\ H \in Group
       /\ H.source = G.source /\ H.status = q.verdict /\ H.task.status # "pending"
       /\ \A s \in Segments :
            \/ H.member[s] = G.member[s]
            \/ G.member[s] # None /\ H.member[s].rev = G.member[s].rev
  BY <1>3, <1>11, <1>12, <1>14
<1> QED
  BY <1>3, <1>7, <1>8, <1>9, <1>10, <1>15 DEF G

\* What a resolution without a group leaves of the rest, and what it changes.
ClosesOne(q) ==
  /\ \A s \in Segments : ClosedOnly(revs[s], revs'[s])
  /\ \A s \in Segments \ {q.seg} : seg'[s] = seg[s] /\ hand'[s] = hand[s]
  /\ \/ seg'[q.seg].version = seg[q.seg].version + 1
     \/ revs[q.seg][q.rev].status = "pending" /\ q.rev \in DOMAIN revs[q.seg]
        /\ revs'[q.seg][q.rev].status # "pending"
  /\ groups' = groups

\* A revision resolved without a group: it is closed, and its segment written.
LEMMA AloneStep ==
  ASSUME TypeInv, NEW u \in Reviewers, NEW W \in SUBSET Segments, request[u] # None,
         NEW q, q = request[u],
         ResolveAlone(u, q) \/ ResolveListed(u, q, W)
  PROVE  /\ q \in Request
         /\ revs' \in [Segments -> Seq(Revision)]
         /\ \A s \in Segments : Len(revs'[s]) = Len(revs[s])
         /\ seg' \in [Segments -> Row] /\ hand' \in [Segments -> 0..Len(groups)]
         /\ ClosesOne(q)
<1> DEFINE s == q.seg
           n == q.rev
           rs == revs[s]
           x == Verdict(q, rs[n])
<1>1. q \in Request /\ s \in Segments /\ n \in DOMAIN rs /\ q.verdict \in Verdicts /\ q.seen \in Row
  BY OldTypes DEF Request
<1>2. rs \in Seq(Revision) /\ rs[n] \in Revision /\ x \in Texts /\ Len(groups) \in Nat /\ u \in Users
  <2>1. rs \in Seq(Revision) /\ rs[n] \in Revision
    BY <1>1, OldTypes, Elements
  <2>2. x \in Texts
    BY <2>1 DEF Verdict, Revision
  <2> QED
    BY <2>1, <2>2, OldTypes, GroupElements DEF Users
<1> DEFINE new == [rs EXCEPT ![n].status = q.verdict]
<1>3. revs' = [revs EXCEPT ![s] = new] /\ hand' = [hand EXCEPT ![s] = 0] /\ groups' = groups
  <2>1. revs' = [revs EXCEPT ![s][n].status = q.verdict] /\ hand' = [hand EXCEPT ![s] = 0] /\ groups' = groups
    BY DEF ResolveAlone, ResolveListed
  <2> QED
    BY <2>1
<1>4. new \in Seq(Revision) /\ Len(new) = Len(rs) /\ ClosedOnly(rs, new)
  <2> HIDE DEF rs, n
  <2> QED
    BY <1>1, <1>2, VerdictType DEF new
<1>5. \A t \in Segments : ClosedOnly(revs[t], revs[t])
  BY DEF ClosedOnly
<1>6. new[n].status # "pending"
  BY <1>1, <1>2 DEF Verdicts, Revision
<1> HIDE DEF new
<1>7. /\ revs' \in [Segments -> Seq(Revision)]
      /\ \A t \in Segments : Len(revs'[t]) = Len(revs[t]) /\ ClosedOnly(revs[t], revs'[t])
      /\ revs'[s][n].status # "pending"
  BY <1>1, <1>3, <1>4, <1>5, <1>6, OldTypes
<1>10. hand' \in [Segments -> 0..Len(groups)] /\ \A t \in Segments \ {s} : hand'[t] = hand[t]
  <2>1. 0 \in 0..Len(groups)
    BY <1>2
  <2> HIDE DEF s
  <2> QED
    BY <1>1, <1>3, <2>1, OldTypes
<1> SUFFICES /\ seg' \in [Segments -> Row] /\ \A t \in Segments \ {s} : seg'[t] = seg[t]
             /\ \/ seg'[s].version = seg[s].version + 1
                \/ rs[n].status = "pending"
  BY <1>1, <1>3, <1>7, <1>10 DEF ClosesOne
<1>8. CASE ResolveAlone(u, q)
  <2> DEFINE tx == IF x = q.seen.text THEN seg[s].text ELSE x
             v == q.seen.version + 1
             b == IF u = q.seen.by THEN seg[s].by ELSE u
             r == [text |-> tx, version |-> v, by |-> b]
  <2>1. seg' = [seg EXCEPT ![s] = r] /\ rs[n].status = "pending"
    BY <1>8 DEF ResolveAlone
  <2>2. seg[s] \in Row
    BY <1>1, OldTypes
  <2>3. tx \in Texts /\ v \in Nat /\ b \in Users \cup {None}
    BY <1>1, <1>2, <2>2 DEF Row
  <2> HIDE DEF tx, v, b
  <2>4. r \in Row
    BY <2>3 DEF Row
  <2> HIDE DEF r
  <2>5. seg' \in [Segments -> Row] /\ \A t \in Segments \ {s} : seg'[t] = seg[t]
    BY <2>1, <2>4, OldTypes
  <2> QED
    BY <2>1, <2>5
<1>9. CASE ResolveListed(u, q, W)
  <2>1. seg' = Put(s, u, x)
    BY <1>9 DEF ResolveListed
  <2>2. seg' \in [Segments -> Row]
    BY <1>1, <1>2, <2>1, WrittenType
  <2>3. seg'[s].version = seg[s].version + 1 /\ \A t \in Segments \ {s} : seg'[t] = seg[t]
    BY <1>1, <2>1, OldTypes DEF Put, Written
  <2> QED
    BY <2>2, <2>3
<1> QED
  BY <1>8, <1>9

LEMMA AnswerType ==
  ASSUME TypeInv, NEW u \in Reviewers, NEW W \in SUBSET Segments, Answer(u, W)
  PROVE  TypeInv'
<1> DEFINE q == request[u]
<1>1. q \in Request /\ q # None /\ q.seg \in Segments
  BY OldTypes DEF Answer, Request
<1>2. /\ UNCHANGED <<off, shielded, on, touch, count>>
      /\ request' = [request EXCEPT ![u] = None] /\ reused' = reused \cup Stale(q.seg)
      /\ \/ \E g \in GroupsOf(q.seg, q.rev) : ResolveGroup(g, u, q, W)
         \/ ResolveAlone(u, q) \/ ResolveListed(u, q, W)
         \/ UNCHANGED <<seg, revs, groups, hand>>
  BY DEF Answer
<1>3. /\ request' \in [Reviewers -> Request \cup {None}] /\ reused' \subseteq Segments
      /\ \A v \in Reviewers : request'[v] # None => request'[v].rev \in DOMAIN revs[request'[v].seg]
  BY <1>1, <1>2, OldTypes DEF Stale
<1>4. SUFFICES /\ RevsGrow /\ GroupsGrow /\ seg' \in [Segments -> Row]
               /\ hand' \in [Segments -> 0..Len(groups')]
  BY <1>2, <1>3, OldTypes, TypesKept
<1>5. ASSUME NEW g \in DOMAIN groups, ResolveGroup(g, u, q, W)
      PROVE  /\ RevsGrow /\ GroupsGrow /\ seg' \in [Segments -> Row]
             /\ hand' \in [Segments -> 0..Len(groups')]
  <2> HIDE DEF q
  <2>1. PICK H \in Group :
          /\ groups' = [groups EXCEPT ![g] = H]
          /\ \A s \in Segments :
               \/ H.member[s] = groups[g].member[s]
               \/ groups[g].member[s] # None /\ H.member[s].rev = groups[g].member[s].rev
    BY <1>1, <1>5, ResolveStep
  <2>2. /\ seg' \in [Segments -> Row] /\ hand' \in [Segments -> 0..Len(groups)]
        /\ revs' \in [Segments -> Seq(Revision)]
        /\ \A s \in Segments : Len(revs'[s]) = Len(revs[s]) /\ ClosedOnly(revs[s], revs'[s])
    BY <1>1, <1>5, ResolveStep
  <2>3. RevsGrow
    BY <2>2, ClosedRevs
  <2>4. GroupsGrow /\ Len(groups') = Len(groups)
    BY <2>1, <2>3, GroupChanged
  <2> QED
    BY <2>2, <2>3, <2>4
<1>6. ASSUME ResolveAlone(u, q) \/ ResolveListed(u, q, W)
      PROVE  /\ RevsGrow /\ GroupsGrow /\ seg' \in [Segments -> Row]
             /\ hand' \in [Segments -> 0..Len(groups')]
  <2>1. /\ seg' \in [Segments -> Row] /\ hand' \in [Segments -> 0..Len(groups)] /\ groups' = groups
        /\ revs' \in [Segments -> Seq(Revision)]
        /\ \A s \in Segments : Len(revs'[s]) = Len(revs[s]) /\ ClosedOnly(revs[s], revs'[s])
    BY <1>1, <1>6, AloneStep DEF ClosesOne
  <2>2. RevsGrow
    BY <2>1, ClosedRevs
  <2> QED
    BY <2>1, <2>2, SameGroups
<1>7. ASSUME UNCHANGED <<seg, revs, groups, hand>>
      PROVE  /\ RevsGrow /\ GroupsGrow /\ seg' \in [Segments -> Row]
             /\ hand' \in [Segments -> 0..Len(groups')]
  BY <1>7, SameRevs, SameGroups, OldTypes
<1> QED
  BY <1>2, <1>5, <1>6, <1>7 DEF GroupsOf

\* The types are inductive.
LEMMA TypesInductive ==
  /\ Init => TypeInv
  /\ TypeInv /\ [Next]_vars => TypeInv'
<1>1. ASSUME Init PROVE TypeInv
  <2>1. /\ seg \in [Segments -> Row] /\ hand \in [Segments -> 0..0] /\ groups = <<>>
        /\ \A s \in Segments : revs[s] = <<>>
    BY <1>1, Constants DEF Init, Row
  <2>2. /\ groups \in Seq(Group) /\ Len(groups) = 0 /\ DOMAIN groups = {}
        /\ revs \in [Segments -> Seq(Revision)] /\ \A s \in Segments : DOMAIN revs[s] = {}
    <3>1. \A S : <<>> \in Seq(S)
      OBVIOUS
    <3>2. Len(<<>>) = 0 /\ DOMAIN <<>> = {}
      OBVIOUS
    <3>3. revs = [s \in Segments |-> <<>>]
      BY <1>1 DEF Init
    <3> QED
      BY <2>1, <3>1, <3>2, <3>3
  <2>3. hand \in [Segments -> 0..Len(groups)]
    BY <2>1, <2>2
  <2>4. count \in [save: 0..MaxSaves, other: 0..MaxOthers, ask: 0..MaxAsks]
    BY <1>1, Constants DEF Init
  <2>5. /\ off \subseteq Segments /\ shielded \subseteq Segments /\ on \in BOOLEAN
        /\ request \in [Reviewers -> Request \cup {None}] /\ \A u \in Reviewers : request[u] = None
        /\ touch \in Touch \cup {None} /\ reused \subseteq Segments
    BY <1>1 DEF Init
  <2> QED
    BY <2>1, <2>2, <2>3, <2>4, <2>5 DEF TypeInv, TypeOK, OnePending
<1>2. ASSUME TypeInv, [Next]_vars PROVE TypeInv'
  <2>1. CASE Edit
    BY <1>2, <2>1, SaveType, TranslateType, ProofreadType, LookType, FlushType, ProtectType, SwitchType DEF Edit
  <2>2. CASE \E g \in DOMAIN groups : Attempt(g) \/ \E u \in Editors : Enqueue(g, u)
    BY <1>2, <2>2, FailType, ProcessType, EnqueueType DEF Attempt
  <2>3. CASE Resolve
    BY <1>2, <2>3, AskType, AnswerType DEF Resolve
  <2>4. CASE UNCHANGED vars
    <3>1. RevsGrow /\ GroupsGrow
      BY <1>2, <2>4, SameRevs, SameGroups DEF vars
    <3> QED
      BY <1>2, <2>4, <3>1, OldTypes, TypesKept DEF vars
  <2> QED
    BY <1>2, <2>1, <2>2, <2>3, <2>4 DEF Next
<1> QED
  BY <1>1, <1>2

\* Rows, revisions, groups, tasks and requests hold values of their columns, and
\* members and requests name revisions their segments have, though revisions are
\* merged, deleted and resolved while groups are renewed and left.
THEOREM ReviewTypes == Spec => []TypeOK
<1>1. TypeInv => TypeOK
  BY DEF TypeInv
<1> QED
  BY <1>1, TypesInductive, PTL DEF Spec

-----------------------------------------------------------------------------
(* Tasks. *)

Current(G) == G.task.status = "pending" => G.status = "pending" /\ G.task.gen = G.gen

\* One group is changed, and its task is current still.
LEMMA OneTask ==
  ASSUME TypeInv, PendingTaskIsCurrent, NEW g \in DOMAIN groups, NEW H \in Group,
         groups' = [groups EXCEPT ![g] = H], Current(H)
  PROVE  PendingTaskIsCurrent'
<1>1. DOMAIN groups' = DOMAIN groups /\ \A h \in DOMAIN groups : groups'[h] = IF h = g THEN H ELSE groups[h]
  BY OneGroupChanges, OldTypes
<1> QED
  BY <1>1 DEF PendingTaskIsCurrent, Current

LEMMA SaveTask ==
  ASSUME TypeInv, PendingTaskIsCurrent, NEW s \in Segments, NEW u \in Editors, NEW x \in Texts,
         NEW tracked \in BOOLEAN, Save(s, u, x, tracked)
  PROVE  PendingTaskIsCurrent'
<1> DEFINE rs == IF tracked THEN Revised(s, seg[s].text, x) ELSE revs[s]
<1> HIDE DEF rs
<1>1. /\ Len(groups) \in Nat /\ DOMAIN groups = 1..Len(groups) /\ DOMAIN groups' = 1..Len(groups')
      /\ Len(groups') \in {Len(groups), Len(groups) + 1}
  BY SaveGroups
<1>2. PICK g :
        /\ IF ActiveGroups(s) = {} THEN g = 0 ELSE g \in ActiveGroups(s)
        /\ \A h \in 1..Len(groups) :
             \/ h # g /\ groups'[h] = groups[h]
             \/ h = g /\ groups'[h] = Left(groups[h], s)
             \/ h = g /\ groups[h].source = s /\ Renewed(groups[h], groups'[h], s, rs)
        /\ Len(groups') = Len(groups) + 1 =>
             Opened(groups'[Len(groups) + 1], s, rs) /\ (g # 0 => groups'[g] = Left(groups[g], s))
  BY SaveGroups DEF rs
<1>3. ASSUME NEW h \in 1..Len(groups) PROVE Current(groups'[h])
  <2>1. groups[h] \in Group /\ Current(groups[h]) /\ groups[h].task \in Task
    BY <1>1, OldTypes, GroupElements, GroupFields DEF PendingTaskIsCurrent, Current
  <2>2. CASE groups'[h] = groups[h]
    BY <2>1, <2>2
  <2>3. CASE h = g /\ groups'[h] = Left(groups[h], s)
    <3>1. h # 0
      <4>1. ASSUME NEW n \in Nat PROVE \A k \in 1..n : k # 0
        OBVIOUS
      <4> QED
        BY <1>1, <4>1
    <3>2. s \in Joined(groups[h])
      BY <1>2, <2>3, <3>1 DEF ActiveGroups, Active
    <3>3. LET H == Left(groups[h], s)
          IN /\ H.gen = groups[h].gen
             /\ H.status = IF groups[h].source = s THEN "detached" ELSE groups[h].status
             /\ H.task = IF groups[h].source = s THEN Cancelled(groups[h].task) ELSE groups[h].task
      BY <2>1, <3>2, LeftFields
    <3> QED
      BY <2>1, <2>3, <3>3, CancelledType DEF Current
  <2>4. CASE Renewed(groups[h], groups'[h], s, rs)
    BY <2>1, <2>4, CancelledType DEF Renewed, Current
  <2> QED
    BY <1>2, <2>2, <2>3, <2>4
<1>4. Len(groups') = Len(groups) + 1 => Current(groups'[Len(groups) + 1])
  BY <1>2 DEF Opened, Current
<1>5. ASSUME NEW h \in DOMAIN groups' PROVE h \in 1..Len(groups) \/ (h = Len(groups) + 1 /\ Len(groups') = Len(groups) + 1)
  <2>1. ASSUME NEW n \in Nat, NEW k \in {n, n + 1}
        PROVE  \A j \in 1..k : j \in 1..n \/ (j = n + 1 /\ k = n + 1)
    OBVIOUS
  <2> QED
    BY <1>1, <2>1
<1> QED
  BY <1>3, <1>4, <1>5 DEF PendingTaskIsCurrent, Current

LEMMA AnswerTask ==
  ASSUME TypeInv, PendingTaskIsCurrent, NEW u \in Reviewers, NEW W \in SUBSET Segments, Answer(u, W)
  PROVE  PendingTaskIsCurrent'
<1> DEFINE q == request[u]
<1>1. q \in Request
  BY OldTypes DEF Answer
<1>2. ASSUME NEW g \in DOMAIN groups, ResolveGroup(g, u, q, W) PROVE PendingTaskIsCurrent'
  <2> HIDE DEF q
  <2>1. PICK H \in Group : groups' = [groups EXCEPT ![g] = H] /\ H.task.status # "pending"
    BY <1>1, <1>2, ResolveStep
  <2> QED
    BY <2>1, OneTask DEF Current
<1>3. ASSUME groups' = groups PROVE PendingTaskIsCurrent'
  BY <1>3 DEF PendingTaskIsCurrent
<1> QED
  BY <1>2, <1>3 DEF Answer, GroupsOf, ResolveAlone, ResolveListed

LEMMA TasksInductive ==
  /\ Init => PendingTaskIsCurrent
  /\ TypeInv /\ PendingTaskIsCurrent /\ [Next]_vars => PendingTaskIsCurrent'
<1>1. Init => PendingTaskIsCurrent
  BY DEF Init, PendingTaskIsCurrent
<1>2. ASSUME TypeInv, PendingTaskIsCurrent, [Next]_vars PROVE PendingTaskIsCurrent'
  <2>1. ASSUME groups' = groups PROVE PendingTaskIsCurrent'
    BY <1>2, <2>1 DEF PendingTaskIsCurrent
  <2>2. CASE Edit
    BY <1>2, <2>1, <2>2, SaveTask DEF Edit, Translate, Proofread, Look, Flush, Protect, Switch
  <2>3. ASSUME NEW g \in DOMAIN groups, Fail(g) PROVE PendingTaskIsCurrent'
    <3>1. PICK tk \in Task :
            /\ groups[g].task.status = "pending" /\ tk.gen = groups[g].task.gen
            /\ groups' = [groups EXCEPT ![g] = [groups[g] EXCEPT !.task = tk]]
      BY <1>2, <2>3, FailStep
    <3> DEFINE H == [groups[g] EXCEPT !.task = tk]
    <3>2. H \in Group /\ H.status = groups[g].status /\ H.gen = groups[g].gen /\ H.task = tk
      BY <1>2, OldTypes, GroupElements DEF Group
    <3>3. groups' = [groups EXCEPT ![g] = H]
      BY <3>1
    <3> HIDE DEF H
    <3> QED
      BY <1>2, <3>1, <3>2, <3>3, OneTask DEF Current, PendingTaskIsCurrent
  <2>4. ASSUME NEW g \in DOMAIN groups, NEW W \in SUBSET Segments, Process(g, W)
        PROVE  PendingTaskIsCurrent'
    <3>1. CASE SourceChanged(g, W)
      <4> DEFINE tk == [groups[g].task EXCEPT !.status = "cancelled"]
                 H == [groups[g] EXCEPT !.task = tk]
      <4>1. groups[g] \in Group /\ groups[g].task \in Task
        BY <1>2, OldTypes, GroupElements, GroupFields
      <4>2. tk \in Task /\ tk.status = "cancelled"
        BY <4>1 DEF Task
      <4>3. groups' = [groups EXCEPT ![g] = H]
        <5>1. groups' = [groups EXCEPT ![g].task.status = "cancelled"]
          BY <2>4, <3>1 DEF Process
        <5> QED
          BY <5>1
      <4> HIDE DEF tk
      <4>4. H \in Group /\ H.task = tk
        BY <4>1, <4>2 DEF Group
      <4> HIDE DEF H
      <4> QED
        BY <1>2, <4>2, <4>3, <4>4, OneTask DEF Current
    <3>2. CASE ~SourceChanged(g, W)
      <4>1. PICK H \in Group : groups' = [groups EXCEPT ![g] = H] /\ H.task.status # "pending"
        BY <1>2, <2>4, <3>2, SpreadStep DEF Spreads
      <4> QED
        BY <1>2, <4>1, OneTask DEF Current
    <3> QED
      BY <3>1, <3>2
  <2>5. ASSUME NEW g \in DOMAIN groups, NEW u \in Editors, Enqueue(g, u) PROVE PendingTaskIsCurrent'
    <3>1. PICK H \in Group : groups' = [groups EXCEPT ![g] = H] /\ H.status = "pending" /\ H.task.gen = H.gen
      BY <1>2, <2>5, EnqueueStep
    <3> QED
      BY <1>2, <3>1, OneTask DEF Current
  <2>6. CASE Resolve
    BY <1>2, <2>1, <2>6, AnswerTask DEF Resolve, Ask
  <2>7. CASE UNCHANGED vars
    BY <2>1, <2>7 DEF vars
  <2> QED
    BY <1>2, <2>2, <2>3, <2>4, <2>5, <2>6, <2>7 DEF Next, Attempt
<1> QED
  BY <1>1, <1>2

\* A task that waits is for the current round of an open group: renewing a group,
\* leaving it and resolving it cancel its task in the same step.
THEOREM TasksStayCurrent == Spec => []PendingTaskIsCurrent
<1> QED
  BY TypesInductive, TasksInductive, PTL DEF Spec

-----------------------------------------------------------------------------
(* Members. *)

\* No segment is in two open groups.
OneOpen == \A s \in Segments : \A g, h \in ActiveGroups(s) : g = h

\* What the segments that follow a group look like: the open revision is the
\* member's, and where no request has set a version back, the member's version is
\* not ahead of the segment's, and the group wrote a segment it still has a claim on.
Shown(g, s) ==
  LET m == groups[g].member[s]
  IN Open(s, m.rev) => revs[s][m.rev].before = m.before /\ revs[s][m.rev].after = m.after

Trailing(g, s) ==
  LET m == groups[g].member[s]
  IN s \notin reused =>
       /\ m.version <= seg[s].version
       /\ m.version = seg[s].version /\ Open(s, m.rev) => hand[s] = g

FollowersInv ==
  \A g \in DOMAIN groups : \A s \in Active(groups[g]) :
    groups[g].status = "pending" /\ s # groups[g].source => Shown(g, s) /\ Trailing(g, s)

Inv == TypeInv /\ OneOpen /\ FollowersInv

\* A segment's row as seen by a group that does not write it in this step.
RowKept(s) ==
  /\ ClosedOnly(revs[s], revs'[s])
  /\ s \notin reused' =>
       /\ s \notin reused
       /\ seg[s].version <= seg'[s].version
       /\ seg'[s].version = seg[s].version =>
            \/ hand'[s] = hand[s]
            \/ \A n \in DOMAIN revs'[s] : revs'[s][n].status # "pending"

\* A member nothing happens to, and one the group writes.
Kept(g, s) == groups'[g].member[s] = groups[g].member[s] /\ RowKept(s)

OpenThen(s, n) == n \in DOMAIN revs'[s] /\ revs'[s][n].status = "pending"

Taken(g, s) ==
  LET m == groups'[g].member[s]
  IN /\ hand'[s] = g
     /\ s \in Active(groups[g]) \/ ActiveGroups(s) = {}
     /\ m.version = seg'[s].version
     /\ OpenThen(s, m.rev) => revs'[s][m.rev].before = m.before /\ revs'[s][m.rev].after = m.after

\* What any step does to the groups that are open after it.
OldGroup(g) ==
  /\ g \in DOMAIN groups
  /\ groups[g].status = "pending" /\ groups'[g].source = groups[g].source
  /\ \A s \in Active(groups'[g]) :
       \/ s \in Active(groups[g]) /\ (s # groups[g].source => Kept(g, s))
       \/ Taken(g, s)

NewGroup(g) ==
  /\ Active(groups'[g]) \subseteq {groups'[g].source}
  /\ \A h \in DOMAIN groups' \ {g} :
       groups'[h].status = "pending" => groups'[g].source \notin Active(groups'[h])

Evolves == \A g \in DOMAIN groups' : groups'[g].status = "pending" => OldGroup(g) \/ NewGroup(g)

\* Steps of this form keep the invariant.
LEMMA EvolvesKeeps ==
  ASSUME Inv, TypeInv', Evolves
  PROVE  Inv'
<1>1. ASSUME NEW s \in Segments, NEW g \in ActiveGroups(s)', NEW h \in ActiveGroups(s)', g # h
      PROVE  FALSE
  <2>1. /\ g \in DOMAIN groups' /\ groups'[g].status = "pending" /\ s \in Active(groups'[g])
        /\ h \in DOMAIN groups' /\ groups'[h].status = "pending" /\ s \in Active(groups'[h])
    BY DEF ActiveGroups
  <2>2. ~NewGroup(g) /\ ~NewGroup(h)
    BY <1>1, <2>1 DEF NewGroup
  <2>3. OldGroup(g) /\ OldGroup(h)
    BY <2>1, <2>2 DEF Evolves
  <2>4. /\ g \in ActiveGroups(s) \/ (Taken(g, s) /\ ActiveGroups(s) = {})
        /\ h \in ActiveGroups(s) \/ (Taken(h, s) /\ ActiveGroups(s) = {})
    BY <2>1, <2>3 DEF OldGroup, Taken, ActiveGroups
  <2>5. ~(g \in ActiveGroups(s) /\ h \in ActiveGroups(s))
    BY <1>1 DEF Inv, OneOpen
  <2>6. Taken(g, s) /\ Taken(h, s)
    BY <2>4, <2>5
  <2> QED
    BY <1>1, <2>6 DEF Taken
<1>2. ASSUME NEW g \in DOMAIN groups', NEW s \in Active(groups'[g]),
             groups'[g].status = "pending", s # groups'[g].source
      PROVE  (Shown(g, s) /\ Trailing(g, s))'
  <2> DEFINE m == groups'[g].member[s]
             k == groups[g].member[s]
  <2>1. OldGroup(g)
    BY <1>2 DEF Evolves, NewGroup
  <2>2. /\ groups'[g] \in Group /\ s \in Segments /\ m \in Member
        /\ seg'[s].version \in Nat
    BY OldTypes, GroupElements, GroupFields DEF TypeInv, TypeOK, Active, Row
  <2>3. CASE Taken(g, s)
    BY <2>2, <2>3 DEF Taken, OpenThen, Open, Shown, Trailing
  <2>4. CASE s \in Active(groups[g]) /\ Kept(g, s)
    <3>1. Shown(g, s) /\ Trailing(g, s)
      BY <1>2, <2>1, <2>4 DEF Inv, FollowersInv, OldGroup
    <3>2. m = k /\ RowKept(s)
      BY <2>4 DEF Kept
    <3>3. OpenThen(s, k.rev) => Open(s, k.rev) /\ revs'[s][k.rev] = revs[s][k.rev]
      BY <3>2 DEF RowKept, ClosedOnly, Open, OpenThen
    <3>4. Shown(g, s)'
      BY <3>1, <3>2, <3>3 DEF Shown, Open, OpenThen
    <3>5. seg[s].version \in Nat /\ k.version \in Nat
      BY <2>2, <3>2, OldTypes DEF Inv, Row, Member
    <3>6. ASSUME s \notin reused'
          PROVE  /\ k.version <= seg'[s].version
                 /\ k.version = seg'[s].version /\ OpenThen(s, k.rev) => hand'[s] = g
      <4>1. /\ s \notin reused /\ seg[s].version <= seg'[s].version
            /\ seg'[s].version = seg[s].version =>
                 hand'[s] = hand[s] \/ \A n \in DOMAIN revs'[s] : revs'[s][n].status # "pending"
        BY <3>2, <3>6 DEF RowKept
      <4>2. k.version <= seg[s].version /\ (k.version = seg[s].version /\ Open(s, k.rev) => hand[s] = g)
        BY <3>1, <4>1 DEF Trailing
      <4>3. k.version <= seg'[s].version /\ (k.version = seg'[s].version => seg'[s].version = seg[s].version)
        BY <2>2, <3>5, <4>1, <4>2
      <4> QED
        BY <3>3, <4>1, <4>2, <4>3 DEF OpenThen
    <3>7. Trailing(g, s)'
      BY <3>2, <3>6 DEF Trailing, Open, OpenThen
    <3> QED
      BY <3>4, <3>7
  <2> QED
    BY <1>2, <2>1, <2>3, <2>4 DEF OldGroup
<1>3. OneOpen'
  BY <1>1 DEF OneOpen
<1>4. FollowersInv'
  BY <1>2 DEF FollowersInv
<1> QED
  BY <1>3, <1>4 DEF Inv

\* Rows that stay, and rows that are written under their next version.
LEMMA RowSame ==
  ASSUME TypeInv, NEW s \in Segments, revs'[s] = revs[s], seg'[s].version = seg[s].version, hand'[s] = hand[s],
         reused \subseteq reused'
  PROVE  RowKept(s)
<1>1. seg[s].version \in Nat
  BY OldTypes DEF Row
<1> QED
  BY <1>1 DEF RowKept, ClosedOnly

LEMMA RowNewer ==
  ASSUME TypeInv, NEW s \in Segments, ClosedOnly(revs[s], revs'[s]), seg'[s].version = seg[s].version + 1,
         reused \subseteq reused'
  PROVE  RowKept(s)
<1>1. seg[s].version \in Nat
  BY OldTypes DEF Row
<1>2. seg[s].version <= seg'[s].version /\ seg'[s].version # seg[s].version
  BY <1>1
<1> QED
  BY <1>2 DEF RowKept

\* Steps that leave the groups alone.
LEMMA SameGroupsEvolve ==
  ASSUME groups' = groups, \A s \in Segments : RowKept(s)
  PROVE  Evolves
<1>1. \A g \in DOMAIN groups : Active(groups[g]) \subseteq Segments
  BY DEF Active, Joined
<1> QED
  BY <1>1 DEF Evolves, OldGroup, Kept

\* Steps that change one group, without taking in anybody.
LEMMA OneGroupEvolves ==
  ASSUME TypeInv, \A s \in Segments : RowKept(s),
         NEW g \in DOMAIN groups, NEW H \in Group, groups' = [groups EXCEPT ![g] = H],
         H.status = "pending" =>
           /\ groups[g].status = "pending" /\ H.source = groups[g].source
           /\ \A s \in Segments \ {H.source} : H.member[s] = groups[g].member[s]
           /\ H.source \in Active(H) => H.source \in Active(groups[g])
  PROVE  Evolves
<1>1. DOMAIN groups' = DOMAIN groups /\ \A h \in DOMAIN groups : groups'[h] = IF h = g THEN H ELSE groups[h]
  BY OneGroupChanges, OldTypes
<1>2. ASSUME NEW h \in DOMAIN groups, h # g, groups[h].status = "pending" PROVE OldGroup(h)
  BY <1>1, <1>2 DEF OldGroup, Kept, Active, Joined
<1>3. ASSUME H.status = "pending" PROVE OldGroup(g)
  <2>1. \A s \in Active(H) : s \in Active(groups[g]) /\ s \in Segments
    BY <1>3 DEF Active, Joined
  <2> QED
    BY <1>1, <1>3, <2>1 DEF OldGroup, Kept
<1> QED
  BY <1>1, <1>2, <1>3 DEF Evolves

LEMMA SaveEvolves ==
  ASSUME Inv, NEW s \in Segments, NEW u \in Editors, NEW x \in Texts, NEW tracked \in BOOLEAN,
         Save(s, u, x, tracked)
  PROVE  Evolves
<1> DEFINE rs == IF tracked THEN Revised(s, seg[s].text, x) ELSE revs[s]
<1> HIDE DEF rs
<1>1. /\ Len(groups) \in Nat /\ DOMAIN groups = 1..Len(groups) /\ DOMAIN groups' = 1..Len(groups')
      /\ Len(groups') \in {Len(groups), Len(groups) + 1}
  BY SaveGroups DEF Inv
<1>2. PICK g :
        /\ IF ActiveGroups(s) = {} THEN g = 0 ELSE g \in ActiveGroups(s)
        /\ \A h \in 1..Len(groups) :
             \/ h # g /\ groups'[h] = groups[h]
             \/ h = g /\ groups'[h] = Left(groups[h], s)
             \/ h = g /\ groups[h].source = s /\ Renewed(groups[h], groups'[h], s, rs)
        /\ Len(groups') = Len(groups) + 1 =>
             Opened(groups'[Len(groups) + 1], s, rs) /\ (g # 0 => groups'[g] = Left(groups[g], s))
  BY SaveGroups DEF rs, Inv
<1>3. ASSUME NEW t \in Segments, t # s PROVE RowKept(t)
  <2>1. revs'[t] = revs[t] /\ seg'[t] = seg[t] /\ hand'[t] = hand[t] /\ reused' = reused
    BY <1>3, OldTypes DEF Save, Put, Inv
  <2> QED
    BY <2>1, RowSame DEF Inv
<1>4. \A h \in 1..Len(groups) : h # 0
  <2>1. ASSUME NEW n \in Nat PROVE \A k \in 1..n : k # 0
    OBVIOUS
  <2> QED
    BY <1>1, <2>1
<1>5. ASSUME NEW h \in DOMAIN groups, h = g PROVE s \in Active(groups[h]) /\ groups[h].status = "pending"
  BY <1>1, <1>2, <1>4, <1>5 DEF ActiveGroups
<1>6. ASSUME NEW h \in DOMAIN groups, h # g, groups[h].status = "pending" PROVE s \notin Active(groups[h])
  BY <1>2, <1>6 DEF Inv, OneOpen, ActiveGroups
<1>7. ASSUME NEW h \in DOMAIN groups, h = g, groups'[h] = Left(groups[h], s)
      PROVE  /\ groups'[h].source = groups[h].source
             /\ groups'[h].status = "pending" => groups[h].source # s
             /\ s \notin Active(groups'[h])
             /\ \A t \in Segments \ {s} : groups'[h].member[t] = groups[h].member[t]
  <2>1. groups[h] \in Group /\ s \in Joined(groups[h])
    BY <1>5, <1>7, OldTypes, GroupElements DEF Inv, Active
  <2>2. LET H == Left(groups[h], s)
        IN /\ H.source = groups[h].source
           /\ H.member[s] = [groups[h].member[s] EXCEPT !.active = FALSE]
           /\ \A t \in Segments \ {s} : H.member[t] = groups[h].member[t]
           /\ H.status = IF groups[h].source = s THEN "detached" ELSE groups[h].status
    BY <2>1, LeftFields
  <2>3. groups[h].member[s] \in Member
    BY <2>1, GroupFields
  <2>4. ~groups'[h].member[s].active
    BY <1>7, <2>2, <2>3 DEF Member
  <2> QED
    BY <1>7, <2>2, <2>4 DEF Active
<1>8. ASSUME NEW h \in DOMAIN groups, groups'[h].status = "pending" PROVE OldGroup(h)
  <2>1. CASE h # g
    <3>1. groups'[h] = groups[h]
      BY <1>1, <1>2, <2>1
    <3> QED
      BY <1>3, <1>6, <1>8, <2>1, <3>1 DEF OldGroup, Kept, Active, Joined
  <2>2. CASE h = g /\ groups'[h] = Left(groups[h], s)
    <3>1. \A t \in Active(groups'[h]) : t \in Segments \ {s} /\ t \in Active(groups[h])
      BY <1>7, <2>2 DEF Active, Joined
    <3> QED
      BY <1>3, <1>5, <1>7, <2>2, <3>1 DEF OldGroup, Kept
  <2>3. CASE h = g /\ groups[h].source = s /\ Renewed(groups[h], groups'[h], s, rs)
    <3>1. groups'[h].source = s /\ \A t \in Segments \ {s} : groups'[h].member[t] = groups[h].member[t]
      BY <2>3 DEF Renewed
    <3>2. \A t \in Active(groups'[h]) : t \in Segments /\ t \in Active(groups[h])
      BY <1>5, <2>3, <3>1 DEF Active, Joined
    <3> QED
      BY <1>3, <1>5, <2>3, <3>1, <3>2 DEF OldGroup, Kept
  <2> QED
    BY <1>1, <1>2, <2>1, <2>2, <2>3
<1>9. ASSUME NEW h \in DOMAIN groups', h \notin DOMAIN groups PROVE h = Len(groups) + 1 /\ Len(groups') = Len(groups) + 1
  <2>1. ASSUME NEW n \in Nat, NEW k \in {n, n + 1}
        PROVE  \A j \in 1..k : j \in 1..n \/ (j = n + 1 /\ k = n + 1)
    OBVIOUS
  <2> QED
    BY <1>1, <1>9, <2>1
<1>10. ASSUME NEW h \in DOMAIN groups', h \notin DOMAIN groups PROVE NewGroup(h)
  <2>1. /\ h = Len(groups) + 1 /\ Opened(groups'[h], s, rs)
        /\ g # 0 => groups'[g] = Left(groups[g], s)
    BY <1>2, <1>9, <1>10
  <2>2. groups'[h].source = s /\ Active(groups'[h]) \subseteq {s}
    BY <2>1 DEF Opened, Active, Joined
  <2>3. ASSUME NEW k \in DOMAIN groups' \ {h}, groups'[k].status = "pending"
        PROVE  s \notin Active(groups'[k])
    <3>1. k \in DOMAIN groups
      BY <1>9, <2>1, <2>3
    <3>2. CASE k = g
      BY <1>1, <1>4, <1>7, <2>1, <3>1, <3>2
    <3>3. CASE k # g
      <4>1. groups'[k] = groups[k]
        BY <1>1, <1>2, <3>1, <3>3
      <4> QED
        BY <1>6, <2>3, <3>1, <3>3, <4>1
    <3> QED
      BY <3>2, <3>3
  <2> QED
    BY <2>2, <2>3 DEF NewGroup
<1> QED
  BY <1>8, <1>10 DEF Evolves

\* The group's text arrives with a revision that leads to it.
LEMMA TakenShows ==
  ASSUME Inv, NEW g, NEW W \in SUBSET Segments, Spreads(g, W), ~Reverting(groups[g]),
         NEW s \in Reached(g, W)
  PROVE  LET m  == SpreadMember(s, g, W)
             rs == SpreadRevs(s, g, W)
         IN m.rev \in DOMAIN rs => rs[m.rev].before = m.before /\ rs[m.rev].after = m.after
<1> DEFINE G == groups[g]
           x == seg[s].text
           k == G.member[s]
           m == SpreadMember(s, g, W)
           rs == SpreadRevs(s, g, W)
           old == revs[s]
<1>1. /\ TypeInv /\ s \in Segments /\ G \in Group /\ G.after \in Texts /\ x \in Texts
      /\ revs \in [Segments -> Seq(Revision)] /\ old \in Seq(Revision) /\ OnePending(old)
      /\ DOMAIN old = 1..Len(old) /\ Len(old) \in Nat
  <2>1. TypeInv /\ s \in Segments /\ G \in Group
    BY WhoIsReached DEF Inv
  <2>2. seg[s] \in Row
    BY <2>1, OldTypes
  <2> QED
    BY <2>1, <2>2, OldTypes, GroupFields, Elements DEF Row
<1>2. rs = Revised(s, x, G.after)
  BY <1>1, SpreadRevsType
<1>3. /\ m.before = (IF s \in Joins(G, W) THEN x ELSE k.before)
      /\ m.after = G.after /\ m.rev = Returned(s, x, G.after)
  BY <1>1, ReachedMember
<1>4. rs \in Seq(Revision) /\ DOMAIN rs = 1..Len(rs) /\ Len(rs) \in Nat
  BY <1>1, SpreadRevsType, Elements
<1>5. CASE s \in Joins(G, W)
  <2>1. x # G.after /\ Anchor(old) = 0
    BY <1>1, <1>5, WhoIsReached DEF Reverting
  <2>2. rs[Returned(s, x, G.after)].before = x /\ rs[Returned(s, x, G.after)].after = G.after
    <3> HIDE DEF x, G, rs
    <3>1. LET new == Revised(s, x, G.after)
              n == Len(revs[s]) + 1
          IN Returned(s, x, G.after) = n /\ new[n].before = x /\ new[n].after = G.after
      BY <1>1, <2>1, RevisedAppends
    <3> QED
      BY <1>2, <3>1
  <2> QED
    BY <1>3, <1>5, <2>2
<1>6. CASE s \notin Joins(G, W)
  <2>1. s \in Follows(G, W) /\ s \in Active(G) /\ Linked(G, s) /\ G.status = "pending" /\ s # G.source
    BY <1>1, <1>6, WhoIsReached DEF Reached
  <2>2. Shown(g, s) /\ Open(s, k.rev)
    BY <2>1 DEF Inv, FollowersInv, Linked, Spreads
  <2>3. old[k.rev].before = k.before /\ k.rev \in 1..Len(old) /\ old[k.rev].status = "pending"
    BY <1>1, <2>2 DEF Shown, Open
  <2>4. Anchor(old) = k.rev
    <3>1. Anchor(old) # 0 => Anchor(old) \in 1..Len(old) /\ old[Anchor(old)].status = "pending"
      BY <1>1, AnchorIsPending
    <3>2. Anchor(old) # 0
      BY <1>1, <2>3, AnchorIsPending
    <3> QED
      BY <1>1, <2>3, <3>1, <3>2 DEF OnePending
  <2>5. k.rev # 0 /\ 0 \notin DOMAIN rs
    <3>1. ASSUME NEW n \in Nat PROVE 0 \notin 1..n
      OBVIOUS
    <3> QED
      BY <1>1, <1>4, <2>3, <3>1
  <2>6. CASE x = G.after
    <3>1. Returned(s, x, G.after) = 0
      BY <2>6 DEF Returned
    <3> QED
      BY <1>3, <2>5, <3>1
  <2>7. CASE x # G.after
    <3>1. /\ Returned(s, x, G.after) \in {0, k.rev}
          /\ Returned(s, x, G.after) = k.rev =>
               rs[k.rev].before = old[k.rev].before /\ rs[k.rev].after = G.after
      <4> HIDE DEF x, G, k, rs
      <4>1. LET new == Revised(s, x, G.after)
                a == Anchor(revs[s])
            IN /\ Returned(s, x, G.after) \in {0, a}
               /\ Returned(s, x, G.after) = a =>
                    new[a].before = revs[s][a].before /\ new[a].after = G.after
        BY <1>1, <2>4, <2>5, <2>7, RevisedMerges
      <4> QED
        BY <1>2, <2>4, <4>1
    <3> QED
      BY <1>3, <1>6, <2>3, <2>5, <3>1
  <2> QED
    BY <2>6, <2>7
<1> QED
  BY <1>5, <1>6

LEMMA SpreadEvolves ==
  ASSUME Inv, NEW g, NEW W \in SUBSET Segments, Spreads(g, W)
  PROVE  Evolves
<1> DEFINE G == groups[g]
<1>1. TypeInv /\ g \in DOMAIN groups /\ reused' = reused
  BY DEF Inv, Spreads, Process
<1>2. PICK H \in Group :
        /\ groups' = [groups EXCEPT ![g] = H] /\ H.source = G.source
        /\ H.status = IF Reverting(G) THEN "reverted" ELSE G.status
        /\ \A s \in Segments : H.member[s] = SpreadMember(s, g, W)
  BY <1>1, SpreadStep
<1>3. DOMAIN groups' = DOMAIN groups /\ \A h \in DOMAIN groups : groups'[h] = IF h = g THEN H ELSE groups[h]
  BY <1>1, <1>2, OneGroupChanges, OldTypes
<1>4. ASSUME NEW s \in Segments \ Reached(g, W) PROVE RowKept(s)
  BY <1>1, SpreadStep, SpreadRevsType, RowSame
<1>5. ASSUME NEW s \in Reached(g, W), NEW h \in DOMAIN groups, h # g, groups[h].status = "pending"
      PROVE  s \notin Active(groups[h])
  <2>1. s \in Segments
    BY <1>1, WhoIsReached
  <2>2. ActiveGroups(s) = {} \/ g \in ActiveGroups(s)
    BY <1>1, WhoIsReached DEF Reached, ActiveGroups
  <2> QED
    BY <1>5, <2>1, <2>2 DEF Inv, OneOpen, ActiveGroups
<1>6. ASSUME NEW h \in DOMAIN groups, h # g, groups[h].status = "pending" PROVE OldGroup(h)
  <2>1. groups'[h] = groups[h]
    BY <1>3, <1>6
  <2>2. \A s \in Active(groups[h]) : s \in Segments \ Reached(g, W)
    BY <1>5, <1>6 DEF Active, Joined
  <2> QED
    BY <1>4, <1>6, <2>1, <2>2 DEF OldGroup, Kept
<1>7. ASSUME H.status = "pending" PROVE OldGroup(g)
  <2>1. ~Reverting(G) /\ G.status = "pending" /\ groups'[g] = H
    BY <1>1, <1>2, <1>3, <1>7
  <2>2. ASSUME NEW s \in Active(H), s \notin Reached(g, W)
        PROVE  s \in Active(G) /\ Kept(g, s)
    <3>1. s \in Segments /\ H.member[s] = SpreadMember(s, g, W) /\ H.member[s].active
      BY <1>2 DEF Active, Joined
    <3>2. H.member[s] = G.member[s]
      BY <1>1, <2>2, <3>1, SpreadMemberType
    <3> QED
      BY <1>4, <2>1, <2>2, <3>1, <3>2 DEF Active, Joined, Kept
  <2>3. ASSUME NEW s \in Active(H), s \in Reached(g, W)
        PROVE  Taken(g, s)
    <3>1. s \in Segments /\ H.member[s] = SpreadMember(s, g, W)
      BY <1>2 DEF Active, Joined
    <3>2. hand'[s] = g /\ seg'[s].version = seg[s].version + 1 /\ revs'[s] = SpreadRevs(s, g, W)
      <4>1. hand'[s] = g /\ seg'[s] = Written(s, G.author, G.after) /\ revs'[s] = SpreadRevs(s, g, W)
        BY <1>1, <2>3, <3>1, SpreadStep
      <4> QED
        BY <4>1 DEF Written
    <3>3. H.member[s].version = seg[s].version + 1
      BY <1>1, <2>3, <3>1, ReachedMember
    <3>4. s \in Active(G) \/ ActiveGroups(s) = {}
      BY <1>1, <2>3, WhoIsReached DEF Reached
    <3>5. LET m == H.member[s]
          IN m.rev \in DOMAIN revs'[s] => revs'[s][m.rev].before = m.before /\ revs'[s][m.rev].after = m.after
      BY <2>1, <2>3, <3>1, <3>2, TakenShows
    <3> QED
      BY <2>1, <3>2, <3>3, <3>4, <3>5 DEF Taken, OpenThen
  <2> QED
    BY <1>1, <1>2, <2>1, <2>2, <2>3 DEF OldGroup
<1> QED
  BY <1>3, <1>6, <1>7 DEF Evolves

\* The other writers of segments change no group.
LEMMA WriterRows ==
  ASSUME Inv, NEW s \in Segments,
         \/ \E u \in Editors, x \in Texts : Translate(s, u, x) \/ Proofread(s, u, x)
         \/ \E u \in Editors, switch \in BOOLEAN : Look(s, u, switch)
         \/ Protect(s)
  PROVE  groups' = groups /\ \A t \in Segments : RowKept(t)
<1>1. TypeInv /\ seg \in [Segments -> Row] /\ revs \in [Segments -> Seq(Revision)] /\ hand \in [Segments -> 0..Len(groups)]
  BY OldTypes DEF Inv
<1>2. \A t \in Segments : ClosedOnly(revs[t], revs[t])
  BY DEF ClosedOnly
<1>3. ASSUME NEW u \in Users \cup {None}, NEW x \in Texts, seg' = Put(s, u, x), reused' = reused,
             \A t \in Segments : ClosedOnly(revs[t], revs'[t]),
             \A t \in Segments \ {s} : revs'[t] = revs[t] /\ hand'[t] = hand[t]
      PROVE  \A t \in Segments : RowKept(t)
  <2>1. seg'[s].version = seg[s].version + 1 /\ \A t \in Segments \ {s} : seg'[t] = seg[t]
    BY <1>1, <1>3 DEF Put, Written
  <2>2. RowKept(s)
    BY <1>1, <1>3, <2>1, RowNewer
  <2>3. \A t \in Segments \ {s} : RowKept(t)
    BY <1>1, <1>3, <2>1, RowSame
  <2> QED
    BY <2>2, <2>3
<1>4. ASSUME NEW u \in Editors, NEW x \in Texts, Translate(s, u, x)
      PROVE  groups' = groups /\ \A t \in Segments : RowKept(t)
  <2>1. /\ seg' = Put(s, u, x) /\ reused' = reused /\ groups' = groups /\ u \in Users
        /\ \A t \in Segments \ {s} : hand'[t] = hand[t]
    BY <1>1, <1>4 DEF Translate, Users
  <2>2. /\ \A t \in Segments : ClosedOnly(revs[t], revs'[t])
        /\ \A t \in Segments \ {s} : revs'[t] = revs[t]
    BY <1>1, <1>4, TranslateRevs
  <2> QED
    BY <1>3, <2>1, <2>2
<1>5. ASSUME NEW u \in Editors, NEW x \in Texts, Proofread(s, u, x)
      PROVE  groups' = groups /\ \A t \in Segments : RowKept(t)
  <2>1. groups' = groups /\ revs' = revs /\ reused' = reused /\ u \in Users
    BY <1>5 DEF Proofread, Users
  <2>2. CASE x = seg[s].text
    <3>1. hand' = hand /\ seg' = [seg EXCEPT ![s].by = u]
      BY <1>5, <2>2 DEF Proofread
    <3>2. [seg[s] EXCEPT !.by = u].version = seg[s].version
      BY <1>1 DEF Row
    <3>3. \A t \in Segments : seg'[t].version = seg[t].version
      BY <1>1, <3>1, <3>2
    <3> QED
      BY <1>1, <2>1, <3>1, <3>3, RowSame
  <2>3. CASE x # seg[s].text
    <3>1. seg' = Put(s, u, x) /\ \A t \in Segments \ {s} : hand'[t] = hand[t]
      BY <1>1, <1>5, <2>3 DEF Proofread
    <3> QED
      BY <1>2, <1>3, <2>1, <3>1
  <2> QED
    BY <2>2, <2>3
<1>6. ASSUME Protect(s)
      PROVE  groups' = groups /\ \A t \in Segments : RowKept(t)
  <2>1. /\ groups' = groups /\ revs' = revs /\ reused' = reused /\ hand' = hand
        /\ seg' = Put(s, seg[s].by, seg[s].text)
    BY <1>6 DEF Protect
  <2>2. seg[s].by \in Users \cup {None} /\ seg[s].text \in Texts
    BY <1>1 DEF Row
  <2> QED
    BY <1>2, <1>3, <2>1, <2>2
<1>7. ASSUME NEW u \in Editors, NEW switch \in BOOLEAN, Look(s, u, switch)
      PROVE  groups' = groups /\ \A t \in Segments : RowKept(t)
  <2>1. UNCHANGED <<seg, revs, groups, hand, reused>>
    BY <1>7 DEF Look
  <2> QED
    BY <1>1, <2>1, RowSame
<1> QED
  BY <1>4, <1>5, <1>6, <1>7

\* A flush changes the version only; where it does not raise it, the segment counts
\* as reused.
LEMMA FlushRows ==
  ASSUME Inv, Flush
  PROVE  groups' = groups /\ \A t \in Segments : RowKept(t)
<1> DEFINE s == touch.seg
<1>1. TypeInv /\ seg \in [Segments -> Row] /\ s \in Segments /\ touch.version \in Nat
  BY OldTypes DEF Inv, Flush, Touch
<1>2. UNCHANGED <<revs, groups, hand>> /\ reused' = reused \cup Stale(s)
  BY DEF Flush
<1>3. \A t \in Segments \ {s} : seg'[t] = seg[t]
  BY <1>1 DEF Flush
<1>4. seg'[s].version \in Nat /\ seg[s].version \in Nat
  BY <1>1, FlushType, OldTypes DEF TypeInv, TypeOK, Row
<1>5. RowKept(s)
  <2>1. CASE seg'[s] = seg[s]
    BY <1>1, <1>2, <2>1, RowSame
  <2>2. CASE seg'[s] # seg[s] /\ seg'[s].version <= seg[s].version
    BY <1>2, <2>2 DEF Stale, RowKept, ClosedOnly
  <2>3. CASE ~(seg'[s].version <= seg[s].version)
    <3>1. seg[s].version <= seg'[s].version /\ seg'[s].version # seg[s].version
      BY <1>4, <2>3
    <3> QED
      BY <1>2, <3>1 DEF RowKept, ClosedOnly
  <2> QED
    BY <2>1, <2>2, <2>3
<1>6. \A t \in Segments \ {s} : RowKept(t)
  BY <1>1, <1>2, <1>3, RowSame
<1> QED
  BY <1>2, <1>5, <1>6

LEMMA AnswerEvolves ==
  ASSUME Inv, NEW u \in Reviewers, NEW W \in SUBSET Segments, Answer(u, W)
  PROVE  Evolves
<1> DEFINE q == request[u]
<1>1. TypeInv /\ q \in Request /\ q # None /\ q.seg \in Segments
  BY OldTypes DEF Inv, Answer, Request
<1>2. /\ reused' = reused \cup Stale(q.seg)
      /\ \/ \E g \in GroupsOf(q.seg, q.rev) : ResolveGroup(g, u, q, W)
         \/ ResolveAlone(u, q) \/ ResolveListed(u, q, W)
         \/ UNCHANGED <<seg, revs, groups, hand>>
  BY DEF Answer
<1>3. TypeInv'
  BY <1>1, AnswerType
<1>4. \A s \in Segments : seg[s].version \in Nat /\ seg'[s].version \in Nat
  BY <1>1, <1>3, OldTypes DEF TypeInv, TypeOK, Row
<1>5. ASSUME NEW g \in DOMAIN groups, ResolveGroup(g, u, q, W) PROVE Evolves
  <2> HIDE DEF q
  <2>1. /\ \A s \in Segments : ClosedOnly(revs[s], revs'[s])
        /\ \A s \in Segments :
             \/ seg'[s] = seg[s] /\ hand'[s] = hand[s]
             \/ seg'[s].version = seg[s].version + 1
    BY <1>1, <1>5, ResolveStep
  <2>2. PICK H \in Group : groups' = [groups EXCEPT ![g] = H] /\ H.status = q.verdict
    BY <1>1, <1>5, ResolveStep
  <2>3. H.status # "pending"
    BY <1>1, <2>2 DEF Request, Verdicts
  <2>4. ASSUME NEW s \in Segments PROVE RowKept(s)
    <3>1. CASE seg'[s] = seg[s] /\ hand'[s] = hand[s]
      BY <1>2, <1>4, <2>1, <3>1 DEF RowKept
    <3>2. CASE seg'[s].version = seg[s].version + 1
      BY <1>1, <1>2, <2>1, <3>2, RowNewer
    <3> QED
      BY <2>1, <3>1, <3>2
  <2> QED
    BY <1>1, <2>2, <2>3, <2>4, OneGroupEvolves
<1>6. ASSUME ResolveAlone(u, q) \/ ResolveListed(u, q, W) PROVE Evolves
  <2>1. /\ \A s \in Segments : ClosedOnly(revs[s], revs'[s])
        /\ \A s \in Segments \ {q.seg} : seg'[s] = seg[s] /\ hand'[s] = hand[s]
        /\ \/ seg'[q.seg].version = seg[q.seg].version + 1
           \/ revs[q.seg][q.rev].status = "pending" /\ q.rev \in DOMAIN revs[q.seg]
              /\ revs'[q.seg][q.rev].status # "pending"
        /\ groups' = groups
    <3>1. q = request[u] /\ request[u] # None
      BY <1>1
    <3>2. TypeInv /\ (ResolveAlone(u, q) \/ ResolveListed(u, q, W))
      BY <1>1, <1>6
    <3> HIDE DEF q
    <3>3. ClosesOne(q)
      BY <3>1, <3>2, AloneStep
    <3> QED
      BY <3>3 DEF ClosesOne
  <2> HIDE DEF q
  <2>2. ASSUME NEW s \in Segments, s # q.seg PROVE RowKept(s)
    BY <1>2, <1>4, <2>1, <2>2 DEF RowKept
  <2>3. CASE seg'[q.seg].version = seg[q.seg].version + 1
    BY <1>1, <1>2, <2>1, <2>2, <2>3, RowNewer, SameGroupsEvolve
  <2>4. CASE /\ revs[q.seg][q.rev].status = "pending" /\ q.rev \in DOMAIN revs[q.seg]
             /\ revs'[q.seg][q.rev].status # "pending"
    <3>1. \A n \in DOMAIN revs'[q.seg] : revs'[q.seg][n].status # "pending"
      BY <1>1, <2>1, <2>4, OldTypes DEF ClosedOnly, OnePending
    <3>2. q.seg \notin reused' => seg[q.seg].version <= seg'[q.seg].version
      <4>1. CASE seg'[q.seg] = seg[q.seg]
        BY <1>1, <1>4, <4>1
      <4>2. CASE seg'[q.seg] # seg[q.seg] /\ seg'[q.seg].version <= seg[q.seg].version
        BY <1>2, <4>2 DEF Stale
      <4>3. CASE ~(seg'[q.seg].version <= seg[q.seg].version)
        BY <1>1, <1>4, <4>3
      <4> QED
        BY <4>1, <4>2, <4>3
    <3>3. RowKept(q.seg)
      BY <1>1, <1>2, <2>1, <3>1, <3>2 DEF RowKept
    <3> QED
      BY <2>1, <2>2, <3>3, SameGroupsEvolve
  <2> QED
    BY <2>1, <2>3, <2>4
<1>7. ASSUME UNCHANGED <<seg, revs, groups, hand>> PROVE Evolves
  BY <1>1, <1>2, <1>7, RowSame, SameGroupsEvolve
<1> QED
  BY <1>2, <1>5, <1>6, <1>7 DEF GroupsOf

\* Every step is of that form.
LEMMA StepEvolves ==
  ASSUME Inv, [Next]_vars
  PROVE  Evolves
<1>1. TypeInv
  BY DEF Inv
<1>2. ASSUME UNCHANGED <<seg, revs, hand, reused>> PROVE \A s \in Segments : RowKept(s)
  BY <1>1, <1>2, RowSame
<1>3. CASE Edit
  <2>1. Switch => groups' = groups /\ UNCHANGED <<seg, revs, hand, reused>>
    BY DEF Switch
  <2> QED
    BY <1>2, <1>3, <2>1, SaveEvolves, WriterRows, FlushRows, SameGroupsEvolve DEF Edit
<1>4. ASSUME NEW g \in DOMAIN groups, Fail(g) PROVE Evolves
  <2>1. PICK tk \in Task : groups' = [groups EXCEPT ![g] = [groups[g] EXCEPT !.task = tk]]
    BY <1>1, <1>4, FailStep
  <2> DEFINE H == [groups[g] EXCEPT !.task = tk]
  <2>2. /\ H \in Group /\ H.source = groups[g].source /\ H.member = groups[g].member
        /\ H.status = groups[g].status
    BY <1>1, OldTypes, GroupElements DEF Group
  <2>3. groups' = [groups EXCEPT ![g] = H] /\ UNCHANGED <<seg, revs, hand, reused>>
    BY <1>4, <2>1 DEF Fail
  <2> HIDE DEF H
  <2> QED
    BY <1>1, <1>2, <2>2, <2>3, OneGroupEvolves DEF Active, Joined
<1>5. ASSUME NEW g \in DOMAIN groups, NEW W \in SUBSET Segments, Process(g, W) PROVE Evolves
  <2>1. CASE SourceChanged(g, W)
    <3> DEFINE tk == [groups[g].task EXCEPT !.status = "cancelled"]
               H == [groups[g] EXCEPT !.task = tk]
    <3>1. groups[g] \in Group /\ groups[g].task \in Task
      BY <1>1, OldTypes, GroupElements, GroupFields
    <3>2. tk \in Task
      BY <3>1 DEF Task
    <3>3. groups' = [groups EXCEPT ![g] = H] /\ UNCHANGED <<seg, revs, hand, reused>>
      <4>1. groups' = [groups EXCEPT ![g].task.status = "cancelled"] /\ UNCHANGED <<seg, revs, hand, reused>>
        BY <1>5, <2>1 DEF Process
      <4> QED
        BY <4>1
    <3> HIDE DEF tk
    <3>4. /\ H \in Group /\ H.source = groups[g].source /\ H.member = groups[g].member
          /\ H.status = groups[g].status
      BY <3>1, <3>2 DEF Group
    <3> HIDE DEF H
    <3> QED
      BY <1>1, <1>2, <3>3, <3>4, OneGroupEvolves DEF Active, Joined
  <2>2. CASE ~SourceChanged(g, W)
    BY <1>5, <2>2, SpreadEvolves DEF Spreads
  <2> QED
    BY <2>1, <2>2
<1>6. ASSUME NEW g \in DOMAIN groups, NEW u \in Editors, Enqueue(g, u) PROVE Evolves
  <2>1. PICK H \in Group :
          /\ groups' = [groups EXCEPT ![g] = H]
          /\ groups[g].status = "pending" /\ H.source = groups[g].source
          /\ \A t \in Segments \ {H.source} : H.member[t] = groups[g].member[t]
          /\ \/ H.member[H.source] = groups[g].member[H.source]
             \/ H.source \in Active(groups[g])
    BY <1>1, <1>6, EnqueueStep
  <2>2. H.source \in Active(H) => H.source \in Active(groups[g])
    BY <2>1 DEF Active, Joined
  <2>3. UNCHANGED <<seg, revs, hand, reused>>
    BY <1>6 DEF Enqueue
  <2> QED
    BY <1>1, <1>2, <2>1, <2>2, <2>3, OneGroupEvolves
<1>7. CASE Resolve
  <2>1. ASSUME NEW u \in Reviewers, NEW s \in Segments, NEW n \in DOMAIN revs[s],
               NEW verdict \in Verdicts, NEW whole \in BOOLEAN, Ask(u, s, n, verdict, whole)
        PROVE  Evolves
    <3>1. UNCHANGED <<seg, revs, groups, hand, reused>>
      BY <2>1 DEF Ask
    <3> QED
      BY <1>2, <3>1, SameGroupsEvolve
  <2> QED
    BY <1>7, <2>1, AnswerEvolves DEF Resolve
<1>8. CASE UNCHANGED vars
  BY <1>2, <1>8, SameGroupsEvolve DEF vars
<1> QED
  BY <1>3, <1>4, <1>5, <1>6, <1>7, <1>8 DEF Next, Attempt

LEMMA InvInductive ==
  /\ Init => Inv
  /\ Inv /\ [Next]_vars => Inv'
<1>1. ASSUME Init PROVE Inv
  <2>1. groups = <<>> /\ DOMAIN groups = {}
    BY <1>1 DEF Init
  <2>2. OneOpen /\ FollowersInv
    BY <2>1 DEF OneOpen, ActiveGroups, FollowersInv
  <2> QED
    BY <1>1, <2>2, TypesInductive DEF Inv
<1>2. ASSUME Inv, [Next]_vars PROVE Inv'
  <2>1. TypeInv'
    BY <1>2, TypesInductive DEF Inv
  <2> QED
    BY <1>2, <2>1, StepEvolves, EvolvesKeeps
<1> QED
  BY <1>1, <1>2

\* A segment never is in two open groups, though a save, a worker and a resolution
\* each look the groups up anew.
THEOREM OneGroupEach == Spec => []OneGroupPerSegment
<1>1. ASSUME Inv, NEW s \in Segments PROVE Cardinality(ActiveGroups(s)) <= 1
  <2>1. CASE ActiveGroups(s) = {}
    <3>1. Cardinality(ActiveGroups(s)) = 0
      BY <2>1, FS_EmptySet
    <3> QED
      BY <3>1
  <2>2. CASE ActiveGroups(s) # {}
    <3>1. PICK g : g \in ActiveGroups(s)
      BY <2>2
    <3>2. ActiveGroups(s) = {g}
      BY <1>1, <3>1 DEF Inv, OneOpen
    <3>3. Cardinality(ActiveGroups(s)) = 1
      BY <3>2, FS_Singleton
    <3> QED
      BY <3>3
  <2> QED
    BY <2>1, <2>2
<1>2. Inv => OneGroupPerSegment
  BY <1>1 DEF OneGroupPerSegment
<1> QED
  BY <1>2, InvInductive, PTL DEF Spec

\* What a reviewer sees of a follower is what the group will do to it: merging and
\* renewing keep revision and member in step.
THEOREM RevisionsAgree == Spec => []RevisionsShowTheGroup
<1>1. Inv => RevisionsShowTheGroup
  BY DEF Inv, FollowersInv, Shown, RevisionsShowTheGroup, Linked
<1> QED
  BY <1>1, InvInductive, PTL DEF Spec

\* A group writes a follower again only if nobody else has written it since, while
\* no stale request has set the version back.
THEOREM IndependentTextKept == Spec => IndependentTextSurvives
<1> DEFINE Survives ==
      \A s \in Segments, g \in DOMAIN groups :
        /\ groups[g].source # s /\ s \in Joined(groups[g]) /\ s \notin reused
        /\ hand'[s] = g /\ seg'[s] # seg[s]
        => hand[s] = g
<1>1. ASSUME Inv, [Next]_vars, NEW s \in Segments, NEW g \in DOMAIN groups,
             groups[g].source # s, s \in Joined(groups[g]), s \notin reused, hand'[s] = g, hand[s] # g
      PROVE  FALSE
  <2>1. TypeInv /\ hand \in [Segments -> 0..Len(groups)] /\ g # 0
    <3>1. TypeInv /\ groups \in Seq(Group)
      BY <1>1, OldTypes DEF Inv
    <3>2. Len(groups) \in Nat /\ g \in 1..Len(groups)
      BY <3>1, GroupElements
    <3>3. ASSUME NEW n \in Nat PROVE 0 \notin 1..n
      OBVIOUS
    <3> QED
      BY <3>1, <3>2, <3>3, OldTypes
  <2>2. ASSUME groups[g].status = "pending", Linked(groups[g], s) PROVE FALSE
    <3>1. s \in Active(groups[g])
      BY <1>1, <2>2 DEF Active, Linked
    <3> QED
      BY <1>1, <2>2, <3>1 DEF Inv, FollowersInv, Trailing, Linked
  <2>3. ASSUME hand' = hand \/ \E t \in Segments : hand' = [hand EXCEPT ![t] = 0] PROVE FALSE
    BY <1>1, <2>1, <2>3
  <2>4. CASE Edit
    BY <2>3, <2>4 DEF Edit, Save, Translate, Proofread, Look, Flush, Protect, Switch
  <2>5. ASSUME NEW h \in DOMAIN groups, Attempt(h) \/ \E u \in Editors : Enqueue(h, u) PROVE FALSE
    <3>1. ~UNCHANGED hand
      BY <2>3
    <3>2. PICK W \in SUBSET Segments : Process(h, W)
      BY <2>5, <3>1 DEF Attempt, Fail, Enqueue
    <3>3. Spreads(h, W)
      BY <3>1, <3>2 DEF Spreads, Process
    <3>4. s \in Reached(h, W) /\ h = g
      BY <1>1, <2>1, <3>3, SpreadStep
    <3>5. s \in Follows(groups[g], W)
      BY <1>1, <2>1, <3>3, <3>4, WhoIsReached DEF Reached
    <3> QED
      BY <2>1, <2>2, <3>3, <3>4, <3>5, WhoIsReached
  <2>6. CASE Resolve
    <3>1. ASSUME NEW u \in Reviewers, NEW W \in SUBSET Segments, Answer(u, W) PROVE FALSE
      <4> DEFINE q == request[u]
      <4>1. q \in Request /\ q.seg \in Segments
        BY <2>1, <3>1, OldTypes DEF Answer, Request
      <4>2. ASSUME NEW h \in DOMAIN groups, ResolveGroup(h, u, q, W) PROVE FALSE
        <5> HIDE DEF q
        <5>1. /\ groups[h].status = "pending"
              /\ \/ hand'[s] = hand[s]
                 \/ Linked(groups[h], s) /\ hand'[s] = h
          BY <2>1, <4>1, <4>2, ResolveStep
        <5> QED
          BY <1>1, <2>2, <5>1
      <4> QED
        BY <2>3, <3>1, <4>1, <4>2 DEF Answer, GroupsOf, ResolveAlone, ResolveListed
    <3> QED
      BY <2>3, <2>6, <3>1 DEF Resolve, Ask
  <2>7. CASE UNCHANGED vars
    BY <2>3, <2>7 DEF vars
  <2> QED
    BY <1>1, <2>4, <2>5, <2>6, <2>7 DEF Next
<1>2. Inv /\ [Next]_vars => [Survives]_vars
  BY <1>1
<1>3. Spec => [][Survives]_vars
  BY <1>2, InvInductive, PTL DEF Spec
<1> QED
  BY <1>3 DEF IndependentTextSurvives
=============================================================================
