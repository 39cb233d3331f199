----------------------------- MODULE ReviewSync -----------------------------
(***************************************************************************)
(* Review synchronisation (app/services/review_sync.py): a manual edit in  *)
(* revision mode opens a group on its segment; when the editor leaves the  *)
(* cell a task is stored, and a worker spreads the text to the segments    *)
(* with the same source that still show the text the edit started from.    *)
(* Each gets a revision and becomes a member of the group; accepting or    *)
(* rejecting one of these revisions resolves all of them.                  *)
(*                                                                         *)
(* Saves, tasks and resolutions take the advisory lock of the project, the *)
(* machines lock the segments they write, and each commits once: such a    *)
(* handler is one step.  The handlers that read before they lock anything  *)
(* are two steps: the resolutions of one revision and of the revisions of  *)
(* a file, and the confirmations and switches of a segment, which flush    *)
(* what they changed.  A file has one segment here, all segments have one  *)
(* source text, and what the permission, workflow and file-lock checks     *)
(* answer is chosen anew each time (W).                                    *)
(***************************************************************************)
EXTENDS Naturals, Sequences, FiniteSets

CONSTANTS
  Segments, Texts,
  Editors,    \* the users who save, confirm and ask for machine texts
  Reviewers,  \* the users who resolve revisions
  Baseline,   \* the text all segments show at first
  None,       \* no member, no request, no user
  MaxSaves,   \* bound: saves of editors
  MaxOthers,  \* bound: other writes and switches
  MaxAsks     \* bound: requests to resolve revisions

Users == Editors \cup Reviewers

ASSUME ReviewSyncAssumption ==
  /\ Baseline \in Texts
  /\ None \notin Users
  /\ {MaxSaves, MaxOthers, MaxAsks} \subseteq Nat

VARIABLES
  seg,      \* text, version and last modifier of each segment
  off,      \* segments with project_sync_disabled
  shielded, \* segments with auto_write_protection
  revs,     \* the manual revisions of each segment, oldest first
  groups,   \* the groups with their members and task, oldest first
  on,       \* review_sync_enabled of the project
  request,  \* the resolution each user has asked for, and what it has read
  touch,    \* a confirmation or switch in flight, and the row it has read
  hand,     \* history: the group that wrote a segment last, 0 for anyone else
  reused,   \* history: segments whose version was once written without growing
  count     \* how many saves, other writes and requests have happened

vars == <<seg, off, shielded, revs, groups, on, request, touch, hand, reused, count>>

-----------------------------------------------------------------------------
Verdicts   == {"accepted", "rejected"}
Row        == [text: Texts, version: Nat, by: Users \cup {None}]
Revision   == [before: Texts, after: Texts, status: Verdicts \cup {"pending", "deleted"}]
Member     == [before: Texts, after: Texts, version: Nat, rev: Nat, active: BOOLEAN]
Task       == [status: {"none", "pending", "completed", "cancelled", "failed"},
               gen: Nat, attempts: Nat]
Group      == [source: Segments, author: Users, before: Texts, after: Texts,
               version: Nat, gen: Nat,
               status: Verdicts \cup {"pending", "detached", "reverted"},
               task: Task, member: [Segments -> Member \cup {None}]]
Request    == [seg: Segments, rev: Nat, verdict: Verdicts, whole: BOOLEAN, seen: Row]
Touch      == [seg: Segments, user: Editors, switch: BOOLEAN, version: Nat,
               by: Users \cup {None}]

\* Every table holds values of its columns, and a member or a request refers to
\* a revision its own segment has or had.
TypeOK ==
  /\ seg \in [Segments -> Row]
  /\ off \subseteq Segments /\ shielded \subseteq Segments
  /\ revs \in [Segments -> Seq(Revision)]
  /\ groups \in Seq(Group)
  /\ on \in BOOLEAN
  /\ request \in [Reviewers -> Request \cup {None}]
  /\ \A g \in DOMAIN groups, s \in Segments :
       groups[g].member[s] # None => groups[g].member[s].rev \in 0..Len(revs[s])
  /\ \A u \in Reviewers : request[u] # None => request[u].rev \in DOMAIN revs[request[u].seg]
  /\ touch \in Touch \cup {None}
  /\ hand \in [Segments -> 0..Len(groups)]
  /\ reused \subseteq Segments
  /\ count \in [save: 0..MaxSaves, other: 0..MaxOthers, ask: 0..MaxAsks]

Init ==
  /\ seg = [s \in Segments |-> [text |-> Baseline, version |-> 1, by |-> None]]
  /\ off = {} /\ shielded = {}
  /\ revs = [s \in Segments |-> <<>>]
  /\ groups = <<>>
  /\ on = TRUE
  /\ request = [u \in Reviewers |-> None]
  /\ touch = None
  /\ hand = [s \in Segments |-> 0]
  /\ reused = {}
  /\ count = [save |-> 0, other |-> 0, ask |-> 0]

-----------------------------------------------------------------------------
(* Revisions. *)

\* The oldest pending revision among rs, 0 if there is none.
Anchor(rs) ==
  LET P == {n \in DOMAIN rs : rs[n].status = "pending"}
  IN IF P = {} THEN 0 ELSE CHOOSE n \in P : \A k \in P : n <= k

\* Mutant: a merge takes over the text before the last edit, too.
RevisedReplacing(s, before, after) ==
  LET rs == revs[s]
      a  == Anchor(rs)
  IN CASE before = after -> rs
       [] before # after /\ a = 0 ->
            Append(rs, [before |-> before, after |-> after, status |-> "pending"])
       [] before # after /\ a # 0 ->
            [rs EXCEPT ![a] = [before |-> before, after |-> after, status |-> "pending"]]

\* create_revision: an edit is merged into the pending revision, which goes
\* when the segment is back where it started.
Revised(s, before, after) ==
  LET rs == revs[s]
      a  == Anchor(rs)
  IN CASE before = after -> rs
       [] before # after /\ a = 0 ->
            Append(rs, [before |-> before, after |-> after, status |-> "pending"])
       [] before # after /\ a # 0 ->
            [rs EXCEPT ![a].after = after,
                       ![a].status = IF rs[a].before = after THEN "deleted" ELSE @]

\* Mutant: the merged revision is taken for a new one.
ReturnedNew(s, before, after) == IF before = after THEN 0 ELSE Len(revs[s]) + 1

\* The revision create_revision returns: none when nothing changed, even if the
\* segment has a pending one.
Returned(s, before, after) == IF before = after THEN 0 ELSE Anchor(Revised(s, before, after))

\* A member's revision exists and is pending (a deleted one is set NULL).
Open(s, n) == n \in DOMAIN revs[s] /\ revs[s][n].status = "pending"

-----------------------------------------------------------------------------
(* Groups. *)

\* The members of a group, former ones included; the groups a segment is in.
Joined(G) == {s \in Segments : G.member[s] # None}
Active(G) == {s \in Joined(G) : G.member[s].active}
ActiveGroups(s) ==
  {g \in DOMAIN groups : groups[g].status = "pending" /\ s \in Active(groups[g])}

Cancelled(t) == IF t.status = "none" THEN t ELSE [t EXCEPT !.status = "cancelled"]

\* Mutant: the task of a detached group is not cancelled.
LeftWithTask(G, s) ==
  [G EXCEPT !.member[s].active = FALSE,
            !.status = IF G.source = s THEN "detached" ELSE @]

\* A member leaves; the group of a source that leaves ends.
Left(G, s) ==
  [G EXCEPT !.member[s].active = FALSE,
            !.status = IF G.source = s THEN "detached" ELSE @,
            !.task = IF G.source = s THEN Cancelled(@) ELSE @]

\* The segment of a member is as the group left it, its revision undecided.
Linked(G, s) ==
  LET m == G.member[s]
  IN /\ m.active
     /\ seg[s].version = m.version
     /\ seg[s].text = m.after
     /\ Open(s, m.rev)

\* record_edit after u gave segment s the text x; rs are its revisions by then,
\* g the group the segment is in, 0 if none.
Recorded(s, u, x, tracked, rs, g) ==
  LET before  == seg[s].text
      version == seg[s].version + 1
      enabled == on /\ tracked /\ s \notin off
      mine    == /\ g # 0
                 /\ enabled
                 /\ groups[g].source = s /\ groups[g].author = u
                 /\ groups[g].member[s].after = before
      rest    == IF g = 0 THEN groups ELSE [groups EXCEPT ![g] = Left(@, s)]
      r       == Anchor(rs)
      row     == [before |-> before, after |-> x, version |-> version, rev |-> r,
                  active |-> TRUE]
  IN CASE mine ->
            [groups EXCEPT ![g] =
               [groups[g] EXCEPT !.gen = @ + 1, !.after = x, !.version = version,
                                 !.task = Cancelled(@),
                                 !.member[s] = [row EXCEPT !.before = groups[g].member[s].before]]]
       [] ~mine /\ enabled /\ before # x /\ r # 0 /\ rs[r].before = before ->
            Append(rest,
              [source |-> s, author |-> u, before |-> before, after |-> x,
               version |-> version, gen |-> 1, status |-> "pending",
               task |-> [status |-> "none", gen |-> 0, attempts |-> 0],
               member |-> [t \in Segments |-> IF t = s THEN row ELSE None]])
       [] OTHER -> rest

-----------------------------------------------------------------------------
(* Writers of segments. *)

Edits    == count.save < MaxSaves /\ count' = [count EXCEPT !.save = @ + 1]
Disturbs == count.other < MaxOthers /\ count' = [count EXCEPT !.other = @ + 1]
Asks     == count.ask < MaxAsks /\ count' = [count EXCEPT !.ask = @ + 1]

Written(s, u, x) == [text |-> x, version |-> seg[s].version + 1, by |-> u]
Put(s, u, x)     == [seg EXCEPT ![s] = Written(s, u, x)]

\* History: segment s, if this step writes it under a version it has had.
Stale(s) == IF seg'[s] # seg[s] /\ seg'[s].version <= seg[s].version THEN {s} ELSE {}

\* An editor's save.  An untracked one, or one with a machine's text (which an
\* automatic-write protection refuses), leaves no revision.
Save(s, u, x, tracked) ==
  LET rs == IF tracked THEN Revised(s, seg[s].text, x) ELSE revs[s]
  IN /\ Edits
     /\ seg' = Put(s, u, x)
     /\ revs' = [revs EXCEPT ![s] = rs]
     /\ \E g \in IF ActiveGroups(s) = {} THEN {0} ELSE ActiveGroups(s) :
           groups' = Recorded(s, u, x, tracked, rs, g)
     /\ hand' = [hand EXCEPT ![s] = 0]
     /\ UNCHANGED <<off, shielded, on, request, touch, reused>>

\* Two services write past record_edit.  A machine translation rejects the
\* revisions it leaves behind.
Translate(s, u, x) ==
  /\ Disturbs
  /\ s \notin shielded
  /\ seg' = Put(s, u, x)
  /\ revs' = [revs EXCEPT ![s] = [n \in DOMAIN @ |->
       IF @[n].status = "pending" /\ @[n].after # x
       THEN [@[n] EXCEPT !.status = "rejected"] ELSE @[n]]]
  /\ hand' = [hand EXCEPT ![s] = 0]
  /\ UNCHANGED <<off, shielded, groups, on, request, touch, reused>>

\* A proofreading does not, and counts no version when it agrees with the text.
Proofread(s, u, x) ==
  /\ Disturbs
  /\ s \notin shielded
  /\ seg' = IF x = seg[s].text THEN [seg EXCEPT ![s].by = u] ELSE Put(s, u, x)
  /\ hand' = IF x = seg[s].text THEN hand ELSE [hand EXCEPT ![s] = 0]
  /\ UNCHANGED <<off, shielded, revs, groups, on, request, touch, reused>>

\* A segment is confirmed or moved in the workflow, which changes its version
\* only, or its synchronisation is switched: the row is read without a lock ...
Look(s, u, switch) ==
  /\ Disturbs
  /\ touch = None
  /\ touch' = [seg |-> s, user |-> u, switch |-> switch,
                version |-> seg[s].version, by |-> seg[s].by]
  /\ UNCHANGED <<seg, off, shielded, revs, groups, on, request, hand, reused>>

\* ... and the columns that differ from it are flushed.
Flush ==
  LET s == touch.seg
  IN /\ touch # None
     /\ seg' = [seg EXCEPT ![s].version = touch.version + 1,
                          ![s].by = IF touch.user = touch.by THEN @ ELSE touch.user]
     /\ off' = IF ~touch.switch THEN off ELSE IF s \in off THEN off \ {s} ELSE off \cup {s}
     /\ reused' = reused \cup Stale(s)
     /\ touch' = None
     /\ UNCHANGED <<shielded, revs, groups, on, request, hand, count>>

\* The protection against automatic writes is set or released.
Protect(s) ==
  /\ Disturbs
  /\ shielded' = IF s \in shielded THEN shielded \ {s} ELSE shielded \cup {s}
  /\ seg' = Put(s, seg[s].by, seg[s].text)
  /\ UNCHANGED <<off, revs, groups, on, request, touch, hand, reused>>

\* The project's switch.
Switch ==
  /\ Disturbs
  /\ on' = ~on
  /\ UNCHANGED <<seg, off, shielded, revs, groups, request, touch, hand, reused>>

-----------------------------------------------------------------------------
(* Tasks. *)

\* The editor has left the cell.  When only the version has moved since, the
\* group is bound to it as a new generation.
Enqueue(g, u) ==
  LET G  == groups[g]
      s  == G.source
      rebound == /\ G.version # seg[s].version
                 /\ seg[s].text = G.after /\ seg[s].by = u
                 /\ g \in ActiveGroups(s)
      H  == IF rebound
            THEN [G EXCEPT !.version = seg[s].version, !.gen = @ + 1,
                           !.member[s].version = seg[s].version]
            ELSE G
      again == H.task.gen # H.gen \/ H.task.status \in {"none", "failed", "cancelled"}
  IN /\ G.author = u
     /\ on /\ s \notin off
     /\ G.status = "pending"
     /\ G.version = seg[s].version \/ rebound
     /\ groups' = [groups EXCEPT ![g] =
          IF again THEN [H EXCEPT !.task = [status |-> "pending", gen |-> H.gen, attempts |-> 0]]
                   ELSE H]
     /\ UNCHANGED <<seg, off, shielded, revs, on, request, touch, hand, reused, count>>

\* What the task was stored for no longer holds.
SourceChanged(g, W) ==
  LET G == groups[g]
      s == G.source
  IN \/ ~on
     \/ G.status # "pending" \/ G.task.gen # G.gen
     \/ seg[s].version # G.version \/ seg[s].text # G.after
     \/ s \in off \/ s \notin W

Reverting(G) == G.before = G.after

\* The other segments an automatic write may touch.
Followers(G, W) == (Segments \ {G.source}) \cap (W \ (off \cup shielded))

\* Mutant: a segment that is in another group joins.
JoinsTwice(G, W) ==
  {s \in Followers(G, W) \ Joined(G) :
     /\ ~Reverting(G)
     /\ seg[s].text = G.before
     /\ Anchor(revs[s]) = 0}

\* Segments without open revision that show the text the edit started from.
Joins(G, W) ==
  {s \in Followers(G, W) \ Joined(G) :
     /\ ~Reverting(G)
     /\ seg[s].text = G.before
     /\ Anchor(revs[s]) = 0
     /\ ActiveGroups(s) = {}}

\* Mutant: the version of a member is not compared.
FollowsText(G, W) ==
  {s \in Followers(G, W) \cap Joined(G) :
     LET m == G.member[s]
     IN m.active /\ seg[s].text = m.after /\ Open(s, m.rev)}

\* Members nobody has edited since the group wrote them.
Follows(G, W) == {s \in Followers(G, W) \cap Joined(G) : Linked(G, s)}

\* process_task: spread the text, or take it back where the author has undone
\* the edit; members that were edited since are dropped.
Process(g, W) ==
  LET G == groups[g]
      J == Joins(G, W)
      F == Follows(G, W)
      D == (Followers(G, W) \cap Joined(G)) \ F
  IN /\ G.task.status = "pending"
     /\ IF SourceChanged(g, W)
        THEN /\ groups' = [groups EXCEPT ![g].task.status = "cancelled"]
             /\ UNCHANGED <<seg, revs, hand>>
        ELSE
          /\ seg' = [s \in Segments |-> IF s \in J \cup F THEN Written(s, G.author, G.after) ELSE seg[s]]
          /\ revs' = [s \in Segments |->
               CASE s \in F /\ Reverting(G) -> [revs[s] EXCEPT ![G.member[s].rev].status = "rejected"]
                 [] s \in J \cup F /\ ~Reverting(G) -> Revised(s, seg[s].text, G.after)
                 [] OTHER -> revs[s]]
          /\ groups' = [groups EXCEPT ![g] =
               [G EXCEPT
                  !.status = IF Reverting(G) THEN "reverted" ELSE @,
                  !.task.status = "completed",
                  !.member = [s \in Segments |->
                    CASE s \in J \cup F ->
                           [before |-> IF s \in J THEN seg[s].text ELSE G.member[s].before,
                            after |-> G.after, version |-> seg[s].version + 1,
                            rev |-> IF Reverting(G) THEN G.member[s].rev
                                    ELSE Returned(s, seg[s].text, G.after),
                            active |-> TRUE]
                      [] s \in D -> [G.member[s] EXCEPT !.active = FALSE]
                      [] OTHER -> G.member[s]]]]
          /\ hand' = [s \in Segments |-> IF s \in J \cup F THEN g ELSE hand[s]]
     /\ UNCHANGED <<off, shielded, on, request, touch, reused, count>>

Attempts == 3

\* An attempt that raises is rolled back and counted.
Fail(g) ==
  /\ groups[g].task.status = "pending"
  /\ groups' = [groups EXCEPT
       ![g].task.attempts = @ + 1,
       ![g].task.status = IF groups[g].task.attempts + 1 >= Attempts THEN "failed" ELSE @]
  /\ UNCHANGED <<seg, off, shielded, revs, on, request, touch, hand, reused, count>>

-----------------------------------------------------------------------------
(* Resolutions. *)

\* A revision is looked up, with its segment when it is resolved alone; a
\* resolution of a whole file takes those that are pending.
Ask(u, s, n, verdict, whole) ==
  /\ Asks
  /\ request[u] = None
  /\ revs[s][n].status # "deleted"
  /\ whole => n = Anchor(revs[s])
  /\ request' = [request EXCEPT ![u] =
       [seg |-> s, rev |-> n, verdict |-> verdict, whole |-> whole, seen |-> seg[s]]]
  /\ UNCHANGED <<seg, off, shielded, revs, groups, on, touch, hand, reused>>

\* The groups that have the revision; the row is picked without an order.
GroupsOf(s, n) ==
  {g \in DOMAIN groups : s \in Active(groups[g]) /\ groups[g].member[s].rev = n}

\* resolve_group: all active members are resolved with the one that was asked for.
ResolveGroup(g, u, q, W) ==
  LET G == groups[g]
      Spared == {s \in Active(G) : Linked(G, s) /\ s # q.seg /\ s \in shielded}
      Done   == {s \in Active(G) \ Spared : Linked(G, s) /\ s \in W \ off}
      Text(s) == IF q.verdict = "rejected" THEN G.member[s].before ELSE G.member[s].after
  IN /\ G.status = "pending"
     /\ seg' = [s \in Segments |-> IF s \in Done THEN Written(s, u, Text(s)) ELSE seg[s]]
     /\ revs' = [s \in Segments |->
          IF s \in Done THEN [revs[s] EXCEPT ![G.member[s].rev].status = q.verdict] ELSE revs[s]]
     /\ groups' = [groups EXCEPT ![g] =
          [G EXCEPT !.status = q.verdict, !.task = Cancelled(@),
                    !.member = [s \in Segments |->
                      CASE s \in Done -> [G.member[s] EXCEPT !.version = @ + 1]
                        [] s \in Active(G) \ (Done \cup Spared) -> [G.member[s] EXCEPT !.active = FALSE]
                        [] OTHER -> G.member[s]]]]
     /\ hand' = [s \in Segments |-> IF s \in Done THEN g ELSE hand[s]]

Verdict(q, r) == IF q.verdict = "rejected" THEN r.before ELSE r.after

\* _resolve_revision without a group: the segment is the row read before the
\* lock was taken, and only the columns that differ from it are written.
ResolveAlone(u, q) ==
  LET s == q.seg
      x == Verdict(q, revs[s][q.rev])
  IN /\ ~q.whole
     /\ revs[s][q.rev].status = "pending"
     /\ seg' = [seg EXCEPT ![s] =
          [text |-> IF x = q.seen.text THEN @.text ELSE x,
           version |-> q.seen.version + 1,
           by |-> IF u = q.seen.by THEN @.by ELSE u]]
     /\ revs' = [revs EXCEPT ![s][q.rev].status = q.verdict]
     /\ hand' = [hand EXCEPT ![s] = 0]
     /\ UNCHANGED groups

\* _batch_resolve_revisions without a group: the revision was pending when the
\* list was read.
ResolveListed(u, q, W) ==
  LET s == q.seg
  IN /\ q.whole
     /\ s \in W
     /\ seg' = Put(s, u, Verdict(q, revs[s][q.rev]))
     /\ revs' = [revs EXCEPT ![s][q.rev].status = q.verdict]
     /\ hand' = [hand EXCEPT ![s] = 0]
     /\ UNCHANGED groups

\* The revision is gone, resolved (409) or not the user's to resolve.
Refused(q, W) ==
  LET r == revs[q.seg][q.rev]
  IN \/ r.status = "deleted"
     \/ ~q.whole /\ r.status # "pending"
     \/ q.whole /\ q.seg \notin W

Answer(u, W) ==
  LET q == request[u]
      L == GroupsOf(q.seg, q.rev)
      Alone == L = {} \/ \E g \in L : groups[g].status # "pending"
      Gone == revs[q.seg][q.rev].status = "deleted"
  IN /\ q # None
     /\ request' = [request EXCEPT ![u] = None]
     /\ \/ ~Gone /\ \E g \in L : ResolveGroup(g, u, q, W)
        \/ ~Gone /\ Alone /\ (ResolveAlone(u, q) \/ ResolveListed(u, q, W))
        \/ (Gone \/ Alone) /\ Refused(q, W) /\ UNCHANGED <<seg, revs, groups, hand>>
     /\ reused' = reused \cup Stale(q.seg)
     /\ UNCHANGED <<off, shielded, on, touch, count>>

-----------------------------------------------------------------------------
Edit ==
  \/ \E s \in Segments, u \in Editors, x \in Texts, tracked \in BOOLEAN : Save(s, u, x, tracked)
  \/ \E s \in Segments, u \in Editors, x \in Texts : Translate(s, u, x) \/ Proofread(s, u, x)
  \/ \E s \in Segments, u \in Editors, switch \in BOOLEAN : Look(s, u, switch)
  \/ Flush
  \/ \E s \in Segments : Protect(s)
  \/ Switch

Attempt(g) == Fail(g) \/ \E W \in SUBSET Segments : Process(g, W)

Resolve ==
  \/ \E u \in Reviewers, s \in Segments : \E n \in DOMAIN revs[s] :
       \E verdict \in Verdicts, whole \in BOOLEAN : Ask(u, s, n, verdict, whole)
  \/ \E u \in Reviewers, W \in SUBSET Segments : Answer(u, W)

Next ==
  \/ Edit
  \/ \E g \in DOMAIN groups : Attempt(g) \/ \E u \in Editors : Enqueue(g, u)
  \/ Resolve

Spec == Init /\ [][Next]_vars

Waiting(g) == g \in DOMAIN groups /\ groups[g].task.status = "pending"

\* The worker loop comes back every 15 seconds (app/main.py).
FairSpec == Spec /\ \A g \in 1..MaxSaves : WF_vars(Waiting(g) /\ Attempt(g))

-----------------------------------------------------------------------------
(* Properties. *)

\* A segment never is in two open groups: the sources of two groups do not take
\* turns writing it, and active_member, which picks any row, finds the only one.
OneGroupPerSegment == \A s \in Segments : Cardinality(ActiveGroups(s)) <= 1

\* A task that waits is for the current round of an open group, whatever saves,
\* detachments and resolutions happened since it was stored.
PendingTaskIsCurrent ==
  \A g \in DOMAIN groups :
    groups[g].task.status = "pending" =>
      groups[g].status = "pending" /\ groups[g].task.gen = groups[g].gen

\* What a reviewer sees of a segment that follows a group is what the group will
\* do: its revision leads from the text the member started from to the one it
\* shows, however often the source was edited again and the two were merged.
RevisionsShowTheGroup ==
  \A g \in DOMAIN groups : \A s \in Active(groups[g]) \ {groups[g].source} :
    groups[g].status = "pending" /\ Linked(groups[g], s) =>
      LET m == groups[g].member[s]
      IN revs[s][m.rev].before = m.before /\ revs[s][m.rev].after = m.after

\* Once a segment has followed a group, the group writes it again only when
\* nobody else has written it in between, be it with the same text.  It goes by
\* the version, and so only while no stale request has set that back.
IndependentTextSurvives ==
  [][\A s \in Segments, g \in DOMAIN groups :
       /\ groups[g].source # s /\ s \in Joined(groups[g]) /\ s \notin reused
       /\ hand'[s] = g /\ seg'[s] # seg[s]
       => hand[s] = g]_vars

\* A stored task is done, cancelled or failed for good after three attempts.
TaskEnds == \A g \in 1..MaxSaves : Waiting(g) ~> ~Waiting(g)

\* Accepting or rejecting any revision of a group takes along the members nobody
\* has edited (scripts/REVIEW_SYNC.md): each keeps its open revision.
LinkedStaysLinked ==
  \A g \in DOMAIN groups : \A s \in Active(groups[g]) \ {groups[g].source} :
    LET m == groups[g].member[s]
    IN /\ groups[g].status = "pending"
       /\ seg[s].version = m.version /\ seg[s].text = m.after
       => Open(s, m.rev)

\* Every change of a text raises the version the next editor must name.
VersionGrows ==
  [][\A s \in Segments : seg'[s] # seg[s] => seg'[s].version > seg[s].version]_vars

\* A revision that was accepted or rejected stays as it was resolved.
ResolvedOnce ==
  [][\A s \in Segments : \A n \in DOMAIN revs[s] :
       revs[s][n].status \in Verdicts => revs'[s][n] = revs[s][n]]_vars
=============================================================================
