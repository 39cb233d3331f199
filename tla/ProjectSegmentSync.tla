------------------------- MODULE ProjectSegmentSync -------------------------
(***************************************************************************)
(* The segments of one repeated source sentence of a project, the requests *)
(* that write them and the convergence of the sync worker                  *)
(* (app/services/project_segment_sync.py, file_record_service.py and the   *)
(* segment endpoints of app/routers/api.py).                               *)
(*                                                                         *)
(* A save locks its row and reads it again before it writes it: one step.  *)
(* Every other endpoint has two, Begin and Commit: it reads its row without *)
(* a lock, and its UPDATE carries the columns whose value it changed with  *)
(* respect to that read, the version included.  The worker holds its rows  *)
(* locked from its read to its commit.                                     *)
(*                                                                         *)
(* Times come from the clocks of several processes and are those of the    *)
(* start of a transaction: no order is assumed between two stamps.         *)
(* The outbox row is reduced to what SyncOutbox shows of it: the claim of a *)
(* convergence is lost as soon as the row is asked again.  A base_version  *)
(* guards nothing here, because some client always holds the one of the    *)
(* row as it was read; a request answered with a conflict changes nothing. *)
(***************************************************************************)
EXTENDS Integers, FiniteSetsExt

CONSTANTS
  Segments,    \* segments with one source hash, over several files: their ids
  Texts,       \* translations
  Users,       \* clients: each has one request in flight
  Operations,  \* the endpoints in use in this instance
  Stamps,      \* values of updated_at and confirmed_at
  None,        \* no text, no segment, no stamp, no request, no work
  MaxVersions  \* bound: sum of the versions of the segments

ASSUME SegmentSyncAssumption ==
  /\ Segments \subseteq Nat /\ IsFiniteSet(Segments)
  /\ Stamps \subseteq Nat /\ Stamps # {}
  /\ None \notin Texts \cup Segments \cup Stamps
  /\ Operations \subseteq {"save", "batch", "confirm", "unconfirm", "disable", "enable",
                           "protect", "release", "blur"}
  /\ MaxVersions \in Nat \ {0}

VARIABLES
  seg,     \* the rows of table segments
  req,     \* the request each user has in flight
  job,     \* what the outbox row of the hash asks for, or None
  work,    \* the convergence in hand, or None
  shown    \* history: the texts each segment has had under each version

vars == <<seg, req, job, work, shown>>

-----------------------------------------------------------------------------
Text    == Texts \cup {None}
Row     == [text: Text, source: {"none", "machine", "manual", "sync"},
            matched: BOOLEAN, status: {"none", "exact", "confirmed"},
            confirmedAt: Stamps \cup {None}, updatedAt: Stamps,
            disabled: BOOLEAN, protected: BOOLEAN, version: 1..MaxVersions,
            origin: Segments \cup {None}]
Request == [op: Operations \ {"save", "protect", "release"}, seg: Segments, snap: Row,
            text: Text, source: {"machine", "manual"}, confirm: BOOLEAN]
Job     == [status: {"pending", "processing"}, kind: {"confirmed"},
            seg: {None}, version: {None}, text: {None}]
           \cup [status: {"pending", "processing"}, kind: {"blur"},
                 seg: Segments, version: 1..MaxVersions, text: Texts]
ASSUME NoJobAssumption == None \notin Job

Work    == [phase: {"claimed", "locked"}, job: Job, rows: SUBSET Segments,
            from: Segments \cup {None}, text: Text]

\* The rows, the requests, the outbox row and the work are what the code takes
\* them for: a blur, and only a blur, names its segment, version and text.
TypeOK ==
  /\ seg \in [Segments -> Row]
  /\ req \in [Users -> Request \cup {None}]
  /\ job \in Job \cup {None}
  /\ work \in Work \cup {None}
  /\ shown \in [Segments -> [1..MaxVersions -> SUBSET Text]]
  /\ \A s \in Segments : seg[s].text \in shown[s][seg[s].version]

\* What an import, a TM match, an LLM run or an earlier convergence leaves.
FreshRow(text, source, origin) ==
  [text |-> text, source |-> source, matched |-> source = "sync",
   status |-> IF source = "sync" THEN "exact" ELSE "none", confirmedAt |-> None,
   updatedAt |-> CHOOSE t \in Stamps : TRUE, disabled |-> FALSE, protected |-> FALSE,
   version |-> 1, origin |-> origin]

Init ==
  /\ seg \in [Segments -> {FreshRow(None, "none", None)}
                \cup {FreshRow(t, "machine", None) : t \in Texts}
                \cup {FreshRow(t, "sync", s) : t \in Texts, s \in Segments}]
  /\ \A s \in Segments : seg[s].origin # s
  /\ req = [u \in Users |-> None]
  /\ job = None
  /\ work = None
  /\ shown = [s \in Segments |-> [v \in 1..MaxVersions |->
                                  IF v = 1 THEN {seg[s].text} ELSE {}]]

-----------------------------------------------------------------------------
(* The database: row locks, the advisory lock of a project, ORM flushes. *)

\* Mutant: SELECT without FOR UPDATE.
RowAlwaysFree(s) == TRUE

\* The worker has locked its rows from WorkerLock to WorkerCommit.
RowFree(s) == (work # None /\ work.phase = "locked") => s \notin work.rows

\* pg_advisory_xact_lock of lock_project: saves, batch updates and changes of
\* protection hold it from their first statement to their commit.
ProjectFree == \A u \in Users : req[u] # None => req[u].op # "batch"

\* Mutant: the flush writes every column it has read.
FlushWholeRow(row, old, new, now) == [new EXCEPT !.updatedAt = now]

\* The UPDATE of a row read as old and left as new: changed columns only.
Flush(row, old, new, now) ==
  [[f \in DOMAIN row |-> IF new[f] # old[f] THEN new[f] ELSE row[f]]
     EXCEPT !.updatedAt = now]

Bounded(rows) ==
  /\ \A s \in Segments : rows[s].version <= MaxVersions
  /\ MapThenSumSet(LAMBDA s : rows[s].version, Segments) <= MaxVersions

Write(s, r) ==
  /\ seg' = [seg EXCEPT ![s] = r]
  /\ Bounded(seg')
  /\ shown' = [shown EXCEPT ![s][r.version] = @ \cup {r.text}]

-----------------------------------------------------------------------------
(* What the handlers compute. *)

\* Mutant: the time of a confirmation is kept when the status goes.
WithStatusKeepingTime(r, status, now) ==
  [r EXCEPT !.status = status,
            !.confirmedAt = IF status = "confirmed" /\ @ = None THEN now ELSE @]

\* apply_segment_status: a first confirmation sets confirmed_at, any other
\* status clears it.
WithStatus(r, status, now) ==
  [r EXCEPT !.status = status,
            !.confirmedAt = IF status # "confirmed" THEN None
                            ELSE IF r.status = "confirmed" /\ @ # None THEN @
                            ELSE now]

\* resolve_unconfirmed_segment_status: the match a row came with, or was given
\* by a convergence, stays known.
Unconfirmed(r) == IF r.matched THEN "exact" ELSE "none"

\* _resolve_status_after_target_update: an edit keeps a confirmation it does
\* not ask for only if the text stays.
StatusAfterEdit(r, text, confirm) ==
  IF confirm \/ (r.status = "confirmed" /\ r.text = text) THEN "confirmed" ELSE Unconfirmed(r)

\* Mutant: an edit forgets the version.
EditedSameVersion(r, text, source, confirm, now) ==
  [WithStatus(r, StatusAfterEdit(r, text, confirm), now) EXCEPT
     !.text = text, !.source = source, !.origin = None]

\* The body shared by update_segment_by_sentence_id and batch_update_segments.
Edited(r, text, source, confirm, now) ==
  [WithStatus(r, StatusAfterEdit(r, text, confirm), now) EXCEPT
     !.text = text, !.source = source, !.origin = None, !.version = @ + 1]

\* automatic_write_allowed: what is not typed by the user leaves protected rows.
MayEdit(r, source) == source # "manual" => ~r.protected

\* _clear_project_synced_segment_fields
Cleared(r) ==
  IF r.protected THEN r
  ELSE [r EXCEPT !.text = None, !.status = "none", !.confirmedAt = None,
                 !.source = "none", !.matched = FALSE, !.origin = None]

\* disable_project_sync_for_segments: nothing is touched if nothing changes.
Disabled(r) ==
  LET off  == [r EXCEPT !.disabled = TRUE]
      next == IF r.source = "sync" THEN Cleared(off) ELSE off
  IN IF next = r THEN r ELSE [next EXCEPT !.version = @ + 1]

-----------------------------------------------------------------------------
(* The outbox, as the segments see it. *)

\* Mutant: a blur is queued without the version it was asked for.
EnqueuedNoVersion(kind, s, version, text) ==
  [status |-> "pending", kind |-> kind, seg |-> s, version |-> None, text |-> text]

\* enqueue_project_segment_sync: the newest trigger takes the row over.  Its
\* segment and version matter to a blur; a confirmation has the source chosen.
Enqueued(kind, s, version, text) ==
  [status |-> "pending", kind |-> kind, seg |-> s, version |-> version, text |-> text]

\* select_segments_for_project_sync, as the request's session sees the row.
EnqueueConfirmed(r) ==
  job' = IF ~r.disabled /\ r.text # None /\ r.status = "confirmed"
         THEN Enqueued("confirmed", None, None, None) ELSE job

-----------------------------------------------------------------------------
(* Requests. *)

\* update_segment: the advisory lock, the row locked and read again.  A
\* suggestion of a machine does not change a protected row, but the row is
\* enqueued again all the same.
Save(s) ==
  /\ "save" \in Operations
  /\ ProjectFree /\ RowFree(s)
  /\ \E text \in Text, source \in {"machine", "manual"}, confirm \in BOOLEAN, now \in Stamps :
       LET r == IF MayEdit(seg[s], source)
                THEN [Edited(seg[s], text, source, confirm, now) EXCEPT !.updatedAt = now]
                ELSE seg[s]
       IN Write(s, r) /\ EnqueueConfirmed(r)
  /\ UNCHANGED <<req, work>>

Begin(u, op, s, text, source, confirm) ==
  /\ op \in Operations
  /\ req[u] = None
  /\ req' = [req EXCEPT ![u] = [op |-> op, seg |-> s, snap |-> seg[s], text |-> text,
                                source |-> source, confirm |-> confirm]]
  /\ UNCHANGED <<seg, job, work, shown>>

\* batch_update: under the advisory lock, the rows read without a row lock.
BeginBatch(u, s) ==
  /\ ProjectFree
  /\ \E text \in Text, source \in {"machine", "manual"}, confirm \in BOOLEAN :
       MayEdit(seg[s], source) /\ Begin(u, "batch", s, text, source, confirm)

\* batch_update_segment_confirmation, update_segment_project_sync and its
\* project-wide forms: no lock at all.  What they skip makes no request.
BeginUnlocked(u, op, s) ==
  /\ CASE op = "confirm"   -> seg[s].status # "confirmed"
       [] op = "unconfirm" -> seg[s].status = "confirmed"
       [] op = "disable"   -> Disabled(seg[s]) # seg[s]
       [] op = "enable"    -> seg[s].disabled
  /\ Begin(u, op, s, None, "manual", FALSE)

\* trigger_segment_project_sync: the client asks for a text it was shown under
\* the version that is still the one of the row.
BeginBlur(u, s) ==
  /\ ~seg[s].disabled /\ seg[s].text # None
  /\ \E seen \in shown[s][seg[s].version] \cap Texts : Begin(u, "blur", s, seen, "manual", FALSE)

\* The row as the request of a user leaves it in its session.
Changed(q, now) ==
  CASE q.op = "batch"     -> Edited(q.snap, q.text, q.source, q.confirm, now)
    [] q.op = "confirm"   -> [WithStatus(q.snap, "confirmed", now) EXCEPT !.version = @ + 1]
    [] q.op = "unconfirm" -> [WithStatus(q.snap, Unconfirmed(q.snap), now)
                                EXCEPT !.version = @ + 1]
    [] q.op = "disable"   -> Disabled(q.snap)
    [] q.op = "enable"    -> [q.snap EXCEPT !.disabled = FALSE, !.version = @ + 1]

\* The flush and the commit of a request that did not lock its row.
CommitUnlocked(u) ==
  /\ req[u] # None /\ req[u].op # "blur"
  /\ RowFree(req[u].seg)
  /\ \E now \in Stamps :
       LET q == req[u]
           r == Changed(q, now)
       IN /\ Write(q.seg, Flush(seg[q.seg], q.snap, r, now))
          /\ IF q.op \in {"batch", "confirm"} THEN EnqueueConfirmed(r) ELSE UNCHANGED job
  /\ req' = [req EXCEPT ![u] = None]
  /\ UNCHANGED work

CommitBlur(u) ==
  /\ req[u] # None /\ req[u].op = "blur"
  /\ job' = Enqueued("blur", req[u].seg, req[u].snap.version, req[u].text)
  /\ req' = [req EXCEPT ![u] = None]
  /\ UNCHANGED <<seg, work, shown>>

\* update_segment_auto_write_protection: advisory lock, row lock, and the
\* expected version compared under both.
Protect(s, op) ==
  /\ op \in Operations \cap {"protect", "release"}
  /\ ProjectFree /\ RowFree(s)
  /\ seg[s].protected # (op = "protect")
  /\ \E now \in Stamps :
       Write(s, [seg[s] EXCEPT !.protected = (op = "protect"), !.version = @ + 1,
                               !.updatedAt = now])
  /\ UNCHANGED <<req, job, work>>

-----------------------------------------------------------------------------
(* The sync worker. *)

Stamp(r) == IF r.status = "confirmed" /\ r.confirmedAt # None THEN r.confirmedAt ELSE r.updatedAt

\* The rank of _build_candidate: confirmed, then newest, then id.
Beats(rows, s, t) ==
  LET a == rows[s]
      b == rows[t]
  IN IF (a.status = "confirmed") # (b.status = "confirmed") THEN a.status = "confirmed"
     ELSE IF Stamp(a) # Stamp(b) THEN Stamp(a) > Stamp(b)
     ELSE s > t

Best(rows, S) == CHOOSE s \in S : \A t \in S \ {s} : Beats(rows, s, t)

\* Mutant: only the source is looked at, not the confirmation.
ReceivableIfMachine(r) ==
  ~r.disabled /\ ~r.protected /\ (r.text # None => r.source # "manual")

\* _is_safe_project_sync_target, with the checks before it
Receivable(r) ==
  ~r.disabled /\ ~r.protected /\ r.status # "confirmed" /\ (r.text # None => r.source # "manual")

WorkerClaim ==
  /\ work = None
  /\ job # None /\ job.status = "pending"
  /\ LET claimed == [job EXCEPT !.status = "processing"] IN
       /\ job' = claimed
       /\ work' = [phase |-> "claimed", job |-> claimed, rows |-> {}, from |-> None,
                   text |-> None]
  /\ UNCHANGED <<seg, req, shown>>

\* Mutant: a blurred segment is spread whatever its version is by now.
BlurSourceAnyVersion(c, able) == IF c.seg \in able THEN c.seg ELSE None

\* sync_project_segments_from_source: the segment in the version that asked.
BlurSource(c, able) ==
  IF c.seg \in able /\ seg[c.seg].version = c.version THEN c.seg ELSE None

\* sync_project_segments_for_hash: the best of at least two rows.
BestSource(rows, able) ==
  IF Cardinality(rows) < 2 \/ able = {} THEN None ELSE Best(seg, able)

\* The SELECT ... FOR UPDATE and the choice of the source.
WorkerLock ==
  /\ work # None /\ work.phase = "claimed"
  /\ LET rows == {s \in Segments : ~seg[s].disabled}
         able == {s \in rows : seg[s].text # None}
         from == IF work.job.kind = "blur" THEN BlurSource(work.job, able)
                 ELSE BestSource(rows, able)
     IN work' = [work EXCEPT !.phase = "locked", !.rows = rows, !.from = from,
                             !.text = IF from = None THEN None ELSE seg[from].text]
  /\ UNCHANGED <<seg, req, job, shown>>

\* One target of _apply_candidate_to_targets.
Received(r, w, now) ==
  IF ~Receivable(r) THEN r
  ELSE IF r.text # w.text
       THEN [r EXCEPT !.text = w.text, !.source = "sync", !.origin = w.from,
                      !.matched = TRUE, !.status = "exact", !.confirmedAt = None,
                      !.version = @ + 1, !.updatedAt = now]
       ELSE IF r.source = "sync" /\ r.origin # w.from
            THEN [r EXCEPT !.origin = w.from, !.version = @ + 1, !.updatedAt = now]
            ELSE r

\* The row is asked again: finalize finds another generation.
ClaimHeld == job # None /\ job.status = "processing"

\* The targets are read again under their lock and written, and the claim is
\* finalised; a superseded claim rolls everything back.
WorkerCommit ==
  /\ work # None /\ work.phase = "locked"
  /\ \E now \in Stamps :
       LET targets == work.rows \ {work.from}
           after   == [s \in Segments |->
                         IF work.from # None /\ s \in targets
                         THEN Received(seg[s], work, now) ELSE seg[s]]
       IN IF ClaimHeld
          THEN /\ Bounded(after)
               /\ seg' = after
               /\ shown' = [s \in Segments |->
                              [shown[s] EXCEPT ![after[s].version] = @ \cup {after[s].text}]]
               /\ job' = None
          ELSE UNCHANGED <<seg, shown, job>>
  /\ work' = None
  /\ UNCHANGED req

\* An exception rolls back, and the row waits for another attempt.
WorkerFails ==
  /\ work # None
  /\ work' = None
  /\ job' = IF ClaimHeld THEN [job EXCEPT !.status = "pending"] ELSE job
  /\ UNCHANGED <<seg, req, shown>>

-----------------------------------------------------------------------------
Next ==
  \/ \E s \in Segments : Save(s) \/ \E op \in {"protect", "release"} : Protect(s, op)
  \/ \E u \in Users, s \in Segments :
       \/ BeginBatch(u, s)
       \/ \E op \in {"confirm", "unconfirm", "disable", "enable"} : BeginUnlocked(u, op, s)
       \/ BeginBlur(u, s)
  \/ \E u \in Users : CommitUnlocked(u) \/ CommitBlur(u)
  \/ WorkerClaim \/ WorkerLock \/ WorkerCommit \/ WorkerFails

Spec == Init /\ [][Next]_vars
-----------------------------------------------------------------------------
(* Properties. *)

HumanWork(r) == r.text # None /\ (r.source = "manual" \/ r.status = "confirmed" \/ r.protected)

\* A step of the save of a segment, or the commit of a batch that edits it.
EditCommitted(s) ==
  \/ req' = req /\ work' = work
  \/ \E u \in Users : req[u] # None /\ req'[u] = None /\ req[u].seg = s /\ req[u].op = "batch"

\* A text that somebody typed, confirmed or protected goes away only by an
\* edit of that segment, whatever converges, confirms or toggles meanwhile.
HumanTextStays ==
  [][\A s \in Segments : HumanWork(seg[s]) /\ seg'[s].text # seg[s].text
       => EditCommitted(s)]_vars

\* A version number stands for one text of its segment: what base_version,
\* expected_version and source_version are compared for.
VersionNamesOneText ==
  \A s \in Segments : \A v \in 1..MaxVersions : Cardinality(shown[s][v]) <= 1

\* A blur spreads the text its client saw, or nothing.
BlurSpreadsWhatWasSeen ==
  work # None => (work.phase = "locked" /\ work.job.kind = "blur" /\ work.from # None
                    => work.text = work.job.text)

\* Once a convergence is committed, every segment it may write has the text of
\* the segment that wins by then, though requests ran while it did.
ConvergenceAgrees ==
  [][work # None /\ work' = None /\ job # None /\ job' = None
     => LET able == {s \in work.rows : seg'[s].text # None} IN
        work.job.kind = "confirmed" /\ Cardinality(work.rows) >= 2 /\ able # {}
        => \A s \in work.rows : Receivable(seg'[s]) => seg'[s].text = seg'[Best(seg', able)].text]_vars

\* Protection and participation change only where they are asked for: no stale
\* flush takes them back.
SettingsStay ==
  [][\A s \in Segments :
       /\ seg'[s].protected # seg[s].protected => req' = req /\ work' = work
       /\ seg'[s].disabled # seg[s].disabled
            => \E u \in Users : req[u] # None /\ req'[u] = None /\ req[u].seg = s
                               /\ req[u].op \in {"disable", "enable"}]_vars

\* A confirmed row has the time of its confirmation, which ranks it, and a row
\* that is not confirmed has none.
ConfirmationHasTime ==
  \A s \in Segments : seg[s].status = "confirmed" <=> seg[s].confirmedAt # None
=============================================================================
