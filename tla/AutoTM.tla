-------------------------------- MODULE AutoTM --------------------------------
(***************************************************************************)
(* Auto-TM (app/services/auto_tm_sync.py): a confirmation stores a row of  *)
(* the auto-TM outbox with its own commit; passes work the rows off in     *)
(* batches, write the texts to the translation memory and register the     *)
(* files that use it to be matched again; the same pass then matches a     *)
(* file that is due.  Edits of the memory register and match at once.      *)
(*                                                                         *)
(* All segments here have one source text and so share one entry of the    *)
(* memory; the one file has one unconfirmed segment, whose match is what   *)
(* the rematch refreshes.  A transaction is one step from its last read    *)
(* that matters to its commit; what it has read before is kept apart.      *)
(***************************************************************************)
EXTENDS Naturals, FiniteSets

CONSTANTS
  Segments, Texts,
  Users,       \* confirmations in flight
  Slots,       \* threads that can run a pass
  Backends,    \* ways to run a pass: "thread", or "arq" with its one job
  Batch,       \* AUTO_TM_BATCH_SIZE
  MaxBatches,  \* auto_tm_outbox_max_batches_per_run
  MaxAttempts, \* claims after which a failure is final (3)
  None,        \* no text, no request, no match
  MaxConfirms, MaxEdits, MaxFaults, MaxCrashes \* bounds

VARIABLES
  backend,
  row,     \* the outbox row of each segment
  age,     \* the rank of each row by created_at, 0 before it exists
  tm,      \* the text of the memory's entry
  queue,   \* the rematch row of the file
  open,    \* the match of the unconfirmed segment, and its version
  request, \* the confirmation of each user, and the rows it has read
  wake,    \* passes that were dispatched and have not started
  slot,    \* the pass each thread is in
  arrived, \* history: the text of each row that last reached the memory
  raced,   \* history: rows that were stored again while a pass had them
  missed,  \* history: a change of the memory the rematch cannot know of
  count    \* how many confirmations, edits, faults and crashes have happened

vars == <<backend, row, age, tm, queue, open, request, wake, slot, arrived, raced, missed, count>>

-----------------------------------------------------------------------------
Row     == [status: {"none", "pending", "processing", "completed", "failed"},
            text: Texts \cup {None}, attempts: Nat]
NoRow   == [status |-> "none", text |-> None, attempts |-> 0]
Queue   == [status: {"none", "pending", "running"}, waiting: BOOLEAN]
Request == [at: {"commit", "tell"}, rows: SUBSET Segments, text: Texts, seen: [Segments -> Row]]
Match   == [text: Texts \cup {None}, version: Nat, waiting: BOOLEAN]
Pass    == [at: {"idle", "claim", "load", "write", "embed", "look", "mark", "apply", "notify"},
            kind: {"job", "thread"}, batches: 0..MaxBatches, rows: SUBSET Segments,
            read: [Segments -> Texts \cup {None}], match: Match \cup {None}]
Idle    == [at |-> "idle", kind |-> "thread", batches |-> 0, rows |-> {},
            read |-> [s \in Segments |-> None], match |-> None]

ASSUME AutoTMAssumption ==
  /\ Backends \subseteq {"thread", "arq"}
  /\ {Batch, MaxBatches, MaxAttempts} \subseteq Nat \ {0}
  /\ None \notin Texts \cup Request \cup Match
  /\ {MaxConfirms, MaxEdits, MaxFaults, MaxCrashes} \subseteq Nat
  /\ IsFiniteSet(Segments)

\* A row is ranked when it exists, and given up only when it was claimed
\* MaxAttempts times.
RowsOK ==
  /\ row \in [Segments -> Row]
  /\ age \in [Segments -> 0..Cardinality(Segments)]
  /\ \A s \in Segments : /\ row[s].status = "none" <=> age[s] = 0
                         /\ row[s].status = "failed" => row[s].attempts >= MaxAttempts

\* A pass has rows from their claim to their end, and a match while it applies it.
PassOK(p) ==
  /\ p.at \in {"load", "write", "embed"} <=> p.rows # {}
  /\ p.at = "apply" <=> p.match # None

\* Every variable holds values of its columns; RowsOK and PassOK hold.
TypeOK ==
  /\ RowsOK
  /\ slot \in [Slots -> Pass] /\ \A w \in Slots : PassOK(slot[w])
  /\ request \in [Users -> Request \cup {None}]
  /\ backend \in Backends
  /\ tm \in Texts \cup {None}
  /\ queue \in Queue
  /\ open \in [text: Texts \cup {None}, version: Nat]
  /\ wake \in Nat
  /\ arrived \in [Segments -> Texts \cup {None}]
  /\ raced \subseteq Segments /\ missed \in BOOLEAN
  /\ count \in [confirm: 0..MaxConfirms, edit: 0..MaxEdits, fault: 0..MaxFaults, crash: 0..MaxCrashes]

Init ==
  /\ backend \in Backends
  /\ row = [s \in Segments |-> NoRow]
  /\ age = [s \in Segments |-> 0]
  /\ tm = None
  /\ queue = [status |-> "none", waiting |-> FALSE]
  /\ open = [text |-> None, version |-> 1]
  /\ request = [u \in Users |-> None]
  /\ wake = 0
  /\ slot = [w \in Slots |-> Idle]
  /\ arrived = [s \in Segments |-> None]
  /\ raced = {} /\ missed = FALSE
  /\ count = [confirm |-> 0, edit |-> 0, fault |-> 0, crash |-> 0]

Confirms == count.confirm < MaxConfirms /\ count' = [count EXCEPT !.confirm = @ + 1]
Edits    == count.edit < MaxEdits /\ count' = [count EXCEPT !.edit = @ + 1]
Faults   == count.fault < MaxFaults /\ count' = [count EXCEPT !.fault = @ + 1]
Crashes  == count.crash < MaxCrashes /\ count' = [count EXCEPT !.crash = @ + 1]

Held(s)      == \E w \in Slots : s \in slot[w].rows
Matching(w)  == \E v \in Slots \ {w} : slot[v].at = "apply"
Goto(w, l)   == slot' = [slot EXCEPT ![w].at = l]
Finish(w)    == slot' = [slot EXCEPT ![w] = Idle]

-----------------------------------------------------------------------------
(* Confirmations. *)

\* enqueue_confirmed_segments_for_auto_tm reads the rows without a lock.
Confirm(u, S, x) ==
  /\ Confirms
  /\ request[u] = None
  /\ request' = [request EXCEPT ![u] =
       [at |-> "commit", rows |-> S, text |-> x,
        seen |-> [s \in Segments |-> IF s \in S THEN row[s] ELSE NoRow]]]
  /\ UNCHANGED <<backend, row, age, tm, queue, open, wake, slot, arrived, raced, missed>>

\* Mutant: a row that was worked off is not pending again.
StoredQuietly(s, q) ==
  [row[s] EXCEPT !.text = IF q.text = q.seen[s].text THEN @ ELSE q.text,
                 !.status = IF q.seen[s].status \in {"pending", "completed"} THEN @ ELSE "pending"]

\* The commit writes the columns that differ from what was read.
Stored(s, q) ==
  [row[s] EXCEPT !.text = IF q.text = q.seen[s].text THEN @ ELSE q.text,
                 !.status = IF q.seen[s].status = "pending" THEN @ ELSE "pending"]

\* A second row of a segment violates the unique constraint: the request fails.
Collides(q) == \E s \in q.rows : q.seen[s].status = "none" /\ row[s].status # "none"

Commit(u) ==
  LET q   == request[u]
      new == {s \in q.rows : row[s].status = "none"}
  IN /\ q # None /\ q.at = "commit"
     /\ IF Collides(q)
        THEN /\ request' = [request EXCEPT ![u] = None]
             /\ UNCHANGED <<row, age, raced>>
        ELSE /\ row' = [s \in Segments |-> IF s \in q.rows THEN Stored(s, q) ELSE row[s]]
             /\ \E rank \in [new -> 1..Cardinality(Segments)] :
                  /\ \A s \in new, r \in Segments : rank[s] > age[r]
                  /\ \A s, r \in new : s # r => rank[s] # rank[r]
                  /\ age' = [s \in Segments |-> IF s \in new THEN rank[s] ELSE age[s]]
             /\ raced' = raced \cup {s \in q.rows :
                  row[s].status = "processing" \/ Held(s) \/ row[s].status # q.seen[s].status}
             /\ request' = [request EXCEPT ![u].at = "tell"]
     /\ UNCHANGED <<backend, tm, queue, open, wake, slot, arrived, missed, count>>

\* arq has at most one job with the id of the pass, queued or running: another
\* is dropped, and taken for dispatched.
Taken == backend = "arq" /\ (wake > 0 \/ \E w \in Slots : slot[w].kind = "job")

\* The background task of the response.
Tell(u) ==
  /\ request[u] # None /\ request[u].at = "tell"
  /\ wake' = IF Taken THEN wake ELSE wake + 1
  /\ request' = [request EXCEPT ![u] = None]
  /\ UNCHANGED <<backend, row, age, tm, queue, open, slot, arrived, raced, missed, count>>

-----------------------------------------------------------------------------
(* A pass works off the outbox. *)

Start(w) ==
  /\ wake > 0 /\ slot[w].at = "idle"
  /\ wake' = wake - 1
  /\ slot' = [slot EXCEPT ![w] = [Idle EXCEPT !.at = "claim",
                            !.kind = IF backend = "arq" THEN "job" ELSE "thread"]]
  /\ UNCHANGED <<backend, row, age, tm, queue, open, request, arrived, raced, missed, count>>

\* The oldest pending rows, at most a batch of them.
Due ==
  LET P == {s \in Segments : row[s].status = "pending"}
  IN {s \in P : Cardinality({t \in P : age[t] < age[s]}) < Batch}

\* process_auto_tm_outbox up to its first commit.
Claim(w) ==
  /\ slot[w].at = "claim"
  /\ IF Due = {} THEN Goto(w, "look")
                 ELSE slot' = [slot EXCEPT ![w].at = "load", ![w].rows = Due]
  /\ row' = [s \in Segments |-> IF s \in Due
       THEN [row[s] EXCEPT !.status = "processing", !.attempts = @ + 1] ELSE row[s]]
  /\ raced' = {s \in raced : s \notin Due \/ Held(s)}
  /\ UNCHANGED <<backend, age, tm, queue, open, request, wake, arrived, missed, count>>

\* The commit has expired the rows: they are read again.
Load(w) ==
  /\ slot[w].at = "load"
  /\ slot' = [slot EXCEPT ![w].at = "write",
       ![w].read = [s \in Segments |-> IF s \in slot[w].rows THEN row[s].text ELSE None]]
  /\ UNCHANGED <<backend, row, age, tm, queue, open, request, wake, arrived, raced, missed, count>>

\* _upsert_rematch_queue.
Registered == [status |-> "pending", waiting |-> TRUE]

\* batch_upsert_tm_entries: of a batch the newest row wins.
Newest(S, s) == s \in S /\ \A r \in S : age[r] <= age[s]

\* The texts reach the memory and the rows are completed, whatever was stored
\* in them since.
Write(w) ==
  LET S == slot[w].rows
  IN /\ slot[w].at = "write"
     /\ \E s \in Segments : Newest(S, s) /\ tm' = slot[w].read[s]
     /\ arrived' = [s \in Segments |-> IF s \in S THEN slot[w].read[s] ELSE arrived[s]]
     /\ row' = [s \in Segments |-> IF s \in S THEN [row[s] EXCEPT !.status = "completed"] ELSE row[s]]
     /\ queue' = Registered
     /\ missed' = Matching(w)
     /\ Goto(w, "embed")
     /\ UNCHANGED <<backend, age, open, request, wake, raced, count>>

\* A full batch is followed by another, up to the limit of a pass.
More(w) == Cardinality(slot[w].rows) = Batch /\ slot[w].batches + 1 < MaxBatches

\* The embeddings are stored on their own; the pass goes on.
Embed(w) ==
  /\ slot[w].at = "embed"
  /\ slot' = [slot EXCEPT ![w] = [Idle EXCEPT
       !.at = IF More(w) THEN "claim" ELSE "look", !.kind = slot[w].kind,
       !.batches = IF More(w) THEN slot[w].batches + 1 ELSE 0]]
  /\ UNCHANGED <<backend, row, age, tm, queue, open, request, wake, arrived, raced, missed, count>>

\* Mutant: off by one.
GivenUpEarly(s) == row[s].attempts + 1 >= MaxAttempts

GivenUp(s) == row[s].attempts >= MaxAttempts

\* An exception, even one raised after the commit, puts the whole batch back, or
\* gives up rows that were claimed often enough; the pass claims no more.
Fail(w) ==
  LET S == slot[w].rows
  IN /\ slot[w].at \in {"write", "embed"}
     /\ Faults
     /\ row' = [s \in Segments |-> IF s \in S
          THEN [row[s] EXCEPT !.status = IF GivenUp(s) THEN "failed" ELSE "pending"]
          ELSE row[s]]
     /\ slot' = [slot EXCEPT ![w] = [Idle EXCEPT !.at = "look", !.kind = slot[w].kind]]
     /\ UNCHANGED <<backend, age, tm, queue, open, request, wake, arrived, raced, missed>>

-----------------------------------------------------------------------------
(* It then matches the file again, if that is due. *)

\* Due are files with enough entries, or whose first one is old enough.
Look(w, due) ==
  /\ slot[w].at = "look"
  /\ due => queue.status = "pending" /\ queue.waiting
  /\ IF due THEN Goto(w, "mark") ELSE Finish(w)
  /\ UNCHANGED <<backend, row, age, tm, queue, open, request, wake, arrived, raced, missed, count>>

Read(w, waiting) ==
  slot' = [slot EXCEPT ![w].at = "apply",
             ![w].match = [text |-> tm, version |-> open.version, waiting |-> waiting]]

\* The commit that marks the file has expired its row: it is read again, and
\* then the memory and the segments.
Mark(w) ==
  /\ slot[w].at = "mark"
  /\ queue' = [queue EXCEPT !.status = "running"]
  /\ Read(w, queue.waiting)
  /\ UNCHANGED <<backend, row, age, tm, open, request, wake, arrived, raced, missed, count>>

\* refresh_unconfirmed_segment_matches: a segment that has moved on is skipped.
\* What was registered for the file is reset, be it newer than the match.
Apply(w) ==
  LET m == slot[w].match
  IN /\ slot[w].at = "apply"
     /\ open' = IF open.version = m.version /\ open.text # m.text
                THEN [text |-> m.text, version |-> open.version + 1] ELSE open
     /\ queue' = [status |-> "pending", waiting |-> queue.waiting /\ ~m.waiting]
     /\ Finish(w)
     /\ UNCHANGED <<backend, row, age, tm, request, wake, arrived, raced, missed, count>>

\* Mutant: a match that failed counts as done.
PutBackEmpty == [status |-> "pending", waiting |-> FALSE]

PutBack == [queue EXCEPT !.status = "pending"]

FailMatch(w) ==
  /\ slot[w].at = "apply"
  /\ Faults
  /\ queue' = PutBack
  /\ Finish(w)
  /\ UNCHANGED <<backend, row, age, tm, open, request, wake, arrived, raced, missed>>

-----------------------------------------------------------------------------
(* Other writers. *)

\* Somebody edits the entry of the memory ...
Edit(w, x) ==
  /\ Edits
  /\ slot[w].at = "idle"
  /\ tm' = x
  /\ missed' = TRUE
  /\ slot' = [slot EXCEPT ![w].at = "notify"]
  /\ UNCHANGED <<backend, row, age, queue, open, request, wake, arrived, raced>>

\* ... and the request matches at once.  The registration is not flushed before
\* the rematch looks for files: one that has no row yet, or whose row is
\* running, is not found, and without a commit the registration is gone.
Notify(w) ==
  /\ slot[w].at = "notify"
  /\ IF queue.status = "pending"
     THEN /\ queue' = [status |-> "running", waiting |-> TRUE]
          /\ Read(w, TRUE)
          /\ missed' = Matching(w)
     ELSE /\ Finish(w)
          /\ UNCHANGED <<queue, missed>>
  /\ UNCHANGED <<backend, row, age, tm, open, request, wake, arrived, raced, count>>

\* Somebody saves the unconfirmed segment.
Touch ==
  /\ Edits
  /\ open' = [open EXCEPT !.version = @ + 1]
  /\ missed' = (missed \/ \E w \in Slots : slot[w].at = "apply")
  /\ UNCHANGED <<backend, row, age, tm, queue, request, wake, slot, arrived, raced>>

\* A process dies with the pass; arq starts its job again.
Crash(w) ==
  /\ slot[w].at # "idle"
  /\ Crashes
  /\ wake' = IF slot[w].kind = "job" THEN wake + 1 ELSE wake
  /\ Finish(w)
  /\ UNCHANGED <<backend, row, age, tm, queue, open, request, arrived, raced, missed>>

\* A process dies after the commit of a confirmation.
Hush(u) ==
  /\ request[u] # None
  /\ Crashes
  /\ request' = [request EXCEPT ![u] = None]
  /\ UNCHANGED <<backend, row, age, tm, queue, open, wake, slot, arrived, raced, missed>>

\* arq ends a job after 300 seconds, but its thread goes on.
Outlive(w) ==
  /\ slot[w].at # "idle" /\ slot[w].kind = "job"
  /\ Crashes
  /\ slot' = [slot EXCEPT ![w].kind = "thread"]
  /\ UNCHANGED <<backend, row, age, tm, queue, open, request, wake, arrived, raced, missed>>

-----------------------------------------------------------------------------
PassStep(w) ==
  \/ Claim(w) \/ Load(w) \/ Write(w) \/ Embed(w) \/ (\E due \in BOOLEAN : Look(w, due))
  \/ Mark(w) \/ Apply(w) \/ Notify(w)

Requests(u) ==
  \/ \E S \in {{s} : s \in Segments} \cup {Segments}, x \in Texts : Confirm(u, S, x)
  \/ Commit(u) \/ Tell(u)

Next ==
  \/ \E u \in Users : Requests(u) \/ Hush(u)
  \/ \E w \in Slots : Start(w) \/ PassStep(w) \/ Fail(w) \/ FailMatch(w) \/ Crash(w) \/ Outlive(w)
  \/ \E w \in Slots, x \in Texts : Edit(w, x)
  \/ Touch

Spec == Init /\ [][Next]_vars

FairSpec ==
  /\ Spec
  /\ \A u \in Users : WF_vars(Tell(u))
  /\ WF_vars(\E w \in Slots : Start(w))
  /\ \A w \in Slots : WF_vars(PassStep(w))

-----------------------------------------------------------------------------
(* Properties. *)

\* A row that says completed has its text in the memory (or had it there until
\* another segment with the same source came), unless it was stored again while
\* a pass had it or between the read and the commit of a confirmation.
CompletedArrived ==
  \A s \in Segments :
    row[s].status = "completed" /\ s \notin raced => arrived[s] = row[s].text

\* A match that is older than the memory is registered, through failures and
\* crashes of the passes, unless the memory or the segment was changed while
\* another pass was matching, or an edit found no row to register in.
StaleMatchIsRegistered == open.text # tm /\ ~missed => queue.waiting

\* With threads, each confirmation has a pass of its own: what is pending is
\* worked off, as long as nothing fails.
PendingServed ==
  \A s \in Segments :
    (backend = "thread" /\ row[s].status = "pending")
      ~> (row[s].status # "pending" \/ count.fault > 0 \/ count.crash > 0)

\* The same without the exceptions: what is confirmed reaches the memory, what
\* is in the memory the matches, and one job serves as well as many.
EveryCompletedArrived ==
  \A s \in Segments : row[s].status = "completed" => arrived[s] = row[s].text
NothingMissed ==
  open.text # tm => queue.waiting \/ \E w \in Slots : slot[w].at \in {"apply", "notify"}
EveryPendingServed ==
  \A s \in Segments : row[s].status = "pending" ~> row[s].status # "pending"
=============================================================================
