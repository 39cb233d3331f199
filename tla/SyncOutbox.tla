----------------------------- MODULE SyncOutbox -----------------------------
(***************************************************************************)
(* The project-sync outbox (app/services/project_sync_outbox.py): business *)
(* transactions upsert one row per repeated source sentence (a "key":      *)
(* project, language pair, source_hash); a request's background task wakes *)
(* a worker, and workers claim rows in batches under a lease, run one      *)
(* convergence per row and finalise it under the claim filter.             *)
(*                                                                         *)
(* The segments themselves are abstracted to a count: content[k] is the    *)
(* number of confirmed saves committed for key k, converged[k] the count   *)
(* the last committed convergence of k has seen.  ProjectSegmentSync opens *)
(* that box.                                                               *)
(***************************************************************************)
EXTENDS Integers, FiniteSets

CONSTANTS
  Keys,         \* rows of the outbox: one per repeated source sentence
  Workers,      \* slots of the segment-sync worker pool (and local threads)
  BatchSize,    \* PROJECT_SYNC_OUTBOX_BATCH_SIZE
  MaxBatches,   \* PROJECT_SYNC_OUTBOX_MAX_BATCHES_PER_RUN
  MaxAttempts,  \* PROJECT_SYNC_OUTBOX_MAX_ATTEMPTS
  BlurEnabled,  \* the project is in PROJECT_SYNC_BLUR_PROJECT_IDS
  NoClaim,      \* not a claim: the worker is between two items
  MaxGen,       \* bound: enqueues per key
  MaxFaults,    \* bound: exceptions raised by convergences
  MaxCrashes    \* bound: processes killed

ASSUME SyncOutboxAssumption ==
  /\ BatchSize \in Nat \ {0}
  /\ MaxBatches \in Nat \ {0}
  /\ MaxAttempts \in Nat \ {0}
  /\ BlurEnabled \in BOOLEAN
  /\ NoClaim \notin [key: Keys, id: Nat, gen: Nat, kind: {"confirmed", "blur"}]
  /\ MaxGen \in Nat /\ MaxFaults \in Nat /\ MaxCrashes \in Nat

VARIABLES
  row,          \* the outbox table
  content,      \* confirmed saves committed, per key
  converged,    \* history: content seen by the last committed convergence
  strikes,      \* history: exceptions raised for the row's current generation
  pc,           \* where each worker is in run_project_sync_outbox_once
  todo,         \* claims of its batch not yet processed
  cur,          \* the claim being processed
  seen,         \* content its convergence has read
  tried,        \* attempt_count its exception handler has read
  batches,      \* batches it has claimed in this run
  full,         \* whether its last batch was a full one
  toDispatch,   \* committed requests whose background task has not run
  jobs,         \* project_segment_sync_job entries waiting in the queue
  faults, crashes

tableVars  == <<row, content, converged, strikes>>
workerVars == <<pc, todo, cur, seen, tried, batches, full>>
queueVars  == <<toDispatch, jobs>>
budgetVars == <<faults, crashes>>
vars == <<tableVars, workerVars, queueVars, budgetVars>>

-----------------------------------------------------------------------------
Status == {"absent", "pending", "processing", "completed", "failed"}
Kind   == {"confirmed", "blur"}
Row    == [status: Status, id: Nat, gen: Nat, kind: Kind,
           attempts: Nat, expired: BOOLEAN]
Claim  == [key: Keys, id: Nat, gen: Nat, kind: Kind]
PC     == {"idle", "claim", "next", "check", "sync", "finalize",
           "caught", "record", "prune"}
Busy   == {"check", "sync", "finalize", "caught", "record"}

TypeOK ==
  /\ row \in [Keys -> Row]
  /\ content \in [Keys -> Nat]
  /\ converged \in [Keys -> Nat]
  /\ strikes \in [Keys -> Nat]
  /\ pc \in [Workers -> PC]
  /\ todo \in [Workers -> SUBSET Claim]
  /\ cur \in [Workers -> Claim \cup {NoClaim}]
  /\ \A w \in Workers : pc[w] \in Busy => cur[w] \in Claim
  /\ seen \in [Workers -> Nat]
  /\ tried \in [Workers -> Nat]
  /\ batches \in [Workers -> Nat]
  /\ full \in [Workers -> BOOLEAN]
  /\ toDispatch \in Nat /\ jobs \in Nat
  /\ faults \in Nat /\ crashes \in Nat

Init ==
  /\ row = [k \in Keys |-> [status |-> "absent", id |-> 0, gen |-> 0,
                            kind |-> "confirmed", attempts |-> 0, expired |-> FALSE]]
  /\ content = [k \in Keys |-> 0]
  /\ converged = [k \in Keys |-> 0]
  /\ strikes = [k \in Keys |-> 0]
  /\ pc = [w \in Workers |-> "idle"]
  /\ todo = [w \in Workers |-> {}]
  /\ cur = [w \in Workers |-> NoClaim]
  /\ seen = [w \in Workers |-> 0]
  /\ tried = [w \in Workers |-> 0]
  /\ batches = [w \in Workers |-> 0]
  /\ full = [w \in Workers |-> FALSE]
  /\ toDispatch = 0 /\ jobs = 0
  /\ faults = 0 /\ crashes = 0

-----------------------------------------------------------------------------
\* What a worker writes to a row: a status and an attempt count.  Every such
\* write sets updated_at, and so renews the lease.
Marked(r, status, attempts) ==
  [status |-> status, id |-> r.id, gen |-> r.gen, kind |-> r.kind,
   attempts |-> attempts, expired |-> FALSE]

(***************************************************************************)
(* Producers: enqueue_project_segment_sync, in the business transaction.   *)
(***************************************************************************)

\* Mutant: the upsert forgets to move the generation on.
UpsertedSameGeneration(r, kind) ==
  LET new == r.status = "absent" IN
  [status |-> "pending", id |-> IF new THEN r.id + 1 ELSE r.id,
   gen |-> IF new THEN 1 ELSE r.gen, kind |-> kind,
   attempts |-> 0, expired |-> FALSE]

\* Mutant: the upsert forgets to reset attempt_count.
UpsertedKeepingAttempts(r, kind) ==
  LET new == r.status = "absent" IN
  [status |-> "pending", id |-> IF new THEN r.id + 1 ELSE r.id,
   gen |-> IF new THEN 1 ELSE r.gen + 1, kind |-> kind,
   attempts |-> r.attempts, expired |-> FALSE]

\* The upsert: a new row starts at generation 1, an existing one is reset to
\* pending with the next generation and the newest trigger.
Upserted(r, kind) ==
  LET new == r.status = "absent" IN
  [status |-> "pending", id |-> IF new THEN r.id + 1 ELSE r.id,
   gen |-> IF new THEN 1 ELSE r.gen + 1, kind |-> kind,
   attempts |-> 0, expired |-> FALSE]

\* Bound: a row is enqueued at most MaxGen times, its re-insertions included.
WithinBound(k) == row[k].id + row[k].gen <= MaxGen

\* One committed save or batch confirmation of segments whose source hashes
\* are K: the segments and the outbox rows change in one transaction, then
\* one background task is owed for the whole request.
SaveConfirmed(K) ==
  /\ \A k \in K : WithinBound(k)
  /\ content' = [k \in Keys |-> content[k] + IF k \in K THEN 1 ELSE 0]
  /\ row' = [k \in Keys |-> IF k \in K THEN Upserted(row[k], "confirmed") ELSE row[k]]
  /\ toDispatch' = toDispatch + 1
  /\ strikes' = [k \in Keys |-> IF k \in K THEN 0 ELSE strikes[k]]
  /\ UNCHANGED <<converged, workerVars, jobs, budgetVars>>

\* trigger_segment_project_sync: an unconfirmed segment of key k lost focus.
\* Nothing is confirmed, but the row is taken over by the blur trigger.
Blur(k) ==
  /\ BlurEnabled
  /\ WithinBound(k)
  /\ row' = [row EXCEPT ![k] = Upserted(@, "blur")]
  /\ toDispatch' = toDispatch + 1
  /\ strikes' = [strikes EXCEPT ![k] = 0]
  /\ UNCHANGED <<content, converged, workerVars, jobs, budgetVars>>

\* Mutant: a dispatch nobody is owed.
DispatchUnasked ==
  /\ toDispatch' = toDispatch - 1
  /\ jobs' = jobs + 1
  /\ jobs < MaxGen
  /\ UNCHANGED <<tableVars, workerVars, budgetVars>>

\* The request's background task: put a job in the queue, or run the worker
\* function in a local thread, which takes a slot just the same.
Dispatch ==
  /\ toDispatch > 0
  /\ toDispatch' = toDispatch - 1
  /\ jobs' = jobs + 1
  /\ UNCHANGED <<tableVars, workerVars, budgetVars>>

\* The API process dies between the commit and its background tasks.
ApiCrash ==
  /\ toDispatch > 0
  /\ crashes < MaxCrashes
  /\ crashes' = crashes + 1
  /\ toDispatch' = 0
  /\ UNCHANGED <<tableVars, workerVars, jobs, faults>>

-----------------------------------------------------------------------------
(***************************************************************************)
(* The worker: run_project_sync_outbox_once.                               *)
(***************************************************************************)

StartRun(w) ==
  /\ pc[w] = "idle"
  /\ jobs > 0
  /\ jobs' = jobs - 1
  /\ pc' = [pc EXCEPT ![w] = "claim"]
  /\ batches' = [batches EXCEPT ![w] = 0]
  /\ UNCHANGED <<tableVars, todo, cur, seen, tried, full, toDispatch, budgetVars>>

\* Five minutes pass since a row was claimed (it may still be in hand: the
\* worker does not renew the lease while it works through its batch).
LeaseExpires(k) ==
  /\ row[k].status = "processing"
  /\ ~row[k].expired
  /\ row' = [row EXCEPT ![k].expired = TRUE]
  /\ UNCHANGED <<content, converged, strikes, workerVars, queueVars, budgetVars>>

Claimable == {k \in Keys : \/ row[k].status = "pending"
                           \/ row[k].status = "processing" /\ row[k].expired}

\* A blur row whose source segment was deleted since is handled as a hash sync.
ClaimKinds(k) == IF row[k].kind = "blur" THEN Kind ELSE {"confirmed"}

\* _claim_project_sync_outbox_rows: one short transaction takes a full batch
\* of claimable rows, or all there are.  Which ones come first is left open.
ClaimBatch(w) ==
  /\ pc[w] = "claim"
  /\ \E S \in SUBSET Claimable :
       /\ Cardinality(S) <= BatchSize
       /\ S # Claimable => Cardinality(S) = BatchSize
       /\ row' = [k \in Keys |-> IF k \in S
                    THEN Marked(row[k], "processing", row[k].attempts) ELSE row[k]]
       /\ \E kinds \in [S -> Kind] :
            /\ \A k \in S : kinds[k] \in ClaimKinds(k)
            /\ todo' = [todo EXCEPT ![w] =
                 {[key |-> k, id |-> row[k].id, gen |-> row[k].gen, kind |-> kinds[k]] : k \in S}]
       /\ full' = [full EXCEPT ![w] = (Cardinality(S) = BatchSize)]
       /\ batches' = [batches EXCEPT ![w] = @ + 1]
       /\ pc' = [pc EXCEPT ![w] = "next"]
  /\ UNCHANGED <<content, converged, strikes, cur, seen, tried, queueVars, budgetVars>>

\* Mutant: the run ends after its first batch.
NextItemOneBatch(w) ==
  /\ pc[w] = "next"
  /\ \/ \E c \in todo[w] :
          /\ cur' = [cur EXCEPT ![w] = c]
          /\ todo' = [todo EXCEPT ![w] = @ \ {c}]
          /\ pc' = [pc EXCEPT ![w] = "check"]
     \/ /\ todo[w] = {}
        /\ pc' = [pc EXCEPT ![w] = "prune"]
        /\ UNCHANGED <<cur, todo>>
  /\ UNCHANGED <<tableVars, seen, tried, batches, full, queueVars, budgetVars>>

\* The loops: the next claim of the batch, the next batch after a full one,
\* or the end of the run.
NextItem(w) ==
  /\ pc[w] = "next"
  /\ \/ \E c \in todo[w] :
          /\ cur' = [cur EXCEPT ![w] = c]
          /\ todo' = [todo EXCEPT ![w] = @ \ {c}]
          /\ pc' = [pc EXCEPT ![w] = "check"]
     \/ /\ todo[w] = {}
        /\ pc' = [pc EXCEPT ![w] = IF full[w] /\ batches[w] < MaxBatches
                                   THEN "claim" ELSE "prune"]
        /\ UNCHANGED <<cur, todo>>
  /\ UNCHANGED <<tableVars, seen, tried, batches, full, queueVars, budgetVars>>

\* Mutant: the filter forgets the generation.
HoldsAnyGeneration(c) ==
  /\ row[c.key].status = "processing"
  /\ row[c.key].id = c.id

\* _claim_filter: same row, still processing, same generation.  It does not
\* compare claimed_at, so a reclaimed row still matches the first claim.
Holds(c) ==
  /\ row[c.key].status = "processing"
  /\ row[c.key].id = c.id
  /\ row[c.key].gen = c.gen

ItemDone(w) ==
  /\ pc' = [pc EXCEPT ![w] = "next"]
  /\ cur' = [cur EXCEPT ![w] = NoClaim]
  /\ seen' = [seen EXCEPT ![w] = 0]
  /\ tried' = [tried EXCEPT ![w] = 0]
  /\ UNCHANGED <<todo, batches, full>>

\* The first look at the filter, before any work: a superseded claim is skipped.
CheckClaim(w) ==
  /\ pc[w] = "check"
  /\ IF Holds(cur[w])
     THEN /\ pc' = [pc EXCEPT ![w] = "sync"]
          /\ UNCHANGED <<todo, cur, seen, tried, batches, full>>
     ELSE ItemDone(w)
  /\ UNCHANGED <<tableVars, queueVars, budgetVars>>

\* The convergence reads the segments and writes their siblings inside the
\* savepoint.  A save may commit after the read: it holds no row in common
\* when its segment was disabled or carried another hash at that time.
Converge(w) ==
  /\ pc[w] = "sync"
  /\ seen' = [seen EXCEPT ![w] = content[cur[w].key]]
  /\ pc' = [pc EXCEPT ![w] = "finalize"]
  /\ UNCHANGED <<tableVars, todo, cur, tried, batches, full, queueVars, budgetVars>>

\* Mutant: a convergence whose claim was superseded is committed all the same.
FinalizeKeepingLateWork(w) ==
  LET c == cur[w] IN
  /\ pc[w] = "finalize"
  /\ row' = IF Holds(c) THEN [row EXCEPT ![c.key] = Marked(@, "completed", @.attempts)]
            ELSE row
  /\ converged' = [converged EXCEPT ![c.key] =
                     IF c.kind = "confirmed" THEN seen[w] ELSE @]
  /\ ItemDone(w)
  /\ UNCHANGED <<content, strikes, queueVars, budgetVars>>

\* The filtered update to "completed" commits the convergence with it; when
\* it matches no row, the savepoint and everything written in it roll back.
Finalize(w) ==
  LET c == cur[w] IN
  /\ pc[w] = "finalize"
  /\ IF Holds(c)
     THEN /\ row' = [row EXCEPT ![c.key] = Marked(@, "completed", @.attempts)]
          /\ converged' = [converged EXCEPT ![c.key] =
                             IF c.kind = "confirmed" THEN seen[w] ELSE @]
     ELSE UNCHANGED <<row, converged>>
  /\ ItemDone(w)
  /\ UNCHANGED <<content, strikes, queueVars, budgetVars>>

\* Any exception up to the commit rolls the savepoint back.
ConvergeFails(w) ==
  /\ pc[w] \in {"sync", "finalize"}
  /\ faults < MaxFaults
  /\ faults' = faults + 1
  /\ pc' = [pc EXCEPT ![w] = "caught"]
  /\ seen' = [seen EXCEPT ![w] = 0]
  /\ LET c == cur[w] IN
       strikes' = IF row[c.key].id = c.id /\ row[c.key].gen = c.gen
                  THEN [strikes EXCEPT ![c.key] = @ + 1] ELSE strikes
  /\ UNCHANGED <<row, content, converged, todo, cur, tried, batches, full, queueVars, crashes>>

\* The handler reads attempt_count under the filter (none reads as 0) ...
ReadAttempts(w) ==
  /\ pc[w] = "caught"
  /\ tried' = [tried EXCEPT ![w] = IF Holds(cur[w]) THEN row[cur[w].key].attempts ELSE 0]
  /\ pc' = [pc EXCEPT ![w] = "record"]
  /\ UNCHANGED <<tableVars, todo, cur, seen, batches, full, queueVars, budgetVars>>

\* Mutant: the handler writes its count whatever became of the row.
RecordFailureUnfiltered(w) ==
  LET c == cur[w]
      attempt == tried[w] + 1
  IN
  /\ pc[w] = "record"
  /\ row' = [row EXCEPT ![c.key] = Marked(@,
               IF attempt >= MaxAttempts THEN "failed" ELSE "pending", attempt)]
  /\ ItemDone(w)
  /\ UNCHANGED <<content, converged, strikes, queueVars, budgetVars>>

\* ... and writes the next count back under the filter.
RecordFailure(w) ==
  LET c == cur[w]
      attempt == tried[w] + 1
  IN
  /\ pc[w] = "record"
  /\ row' = IF Holds(c)
            THEN [row EXCEPT ![c.key] = Marked(@,
                    IF attempt >= MaxAttempts THEN "failed" ELSE "pending", attempt)]
            ELSE row
  /\ ItemDone(w)
  /\ UNCHANGED <<content, converged, strikes, queueVars, budgetVars>>

\* _prune_completed_outbox_rows deletes completed rows past their retention,
\* and the run ends.  A later enqueue inserts a row with a new id.
PruneAndEnd(w) ==
  /\ pc[w] = "prune"
  /\ \E old \in SUBSET {k \in Keys : row[k].status = "completed"} :
       row' = [k \in Keys |-> IF k \in old
                 THEN [Marked(row[k], "absent", 0) EXCEPT !.gen = 0]
                 ELSE row[k]]
  /\ pc' = [pc EXCEPT ![w] = "idle"]
  /\ batches' = [batches EXCEPT ![w] = 0]
  /\ full' = [full EXCEPT ![w] = FALSE]
  /\ UNCHANGED <<content, converged, strikes, todo, cur, seen, tried, queueVars, budgetVars>>

\* The worker process is killed: its claims are forgotten, its rows stay in
\* "processing".  The queue may or may not hand the job out again.
WorkerCrash(w) ==
  /\ pc[w] # "idle"
  /\ crashes < MaxCrashes
  /\ crashes' = crashes + 1
  /\ jobs' \in {jobs, jobs + 1}
  /\ pc' = [pc EXCEPT ![w] = "idle"]
  /\ todo' = [todo EXCEPT ![w] = {}]
  /\ cur' = [cur EXCEPT ![w] = NoClaim]
  /\ seen' = [seen EXCEPT ![w] = 0]
  /\ tried' = [tried EXCEPT ![w] = 0]
  /\ batches' = [batches EXCEPT ![w] = 0]
  /\ full' = [full EXCEPT ![w] = FALSE]
  /\ UNCHANGED <<tableVars, toDispatch, faults>>

-----------------------------------------------------------------------------
WorkerStep(w) ==
  \/ StartRun(w) \/ ClaimBatch(w) \/ NextItem(w) \/ CheckClaim(w) \/ Converge(w)
  \/ Finalize(w) \/ ReadAttempts(w) \/ RecordFailure(w) \/ PruneAndEnd(w)

Next ==
  \/ \E K \in SUBSET Keys \ {{}} : SaveConfirmed(K)
  \/ \E k \in Keys : Blur(k) \/ LeaseExpires(k)
  \/ Dispatch \/ ApiCrash
  \/ \E w \in Workers : WorkerStep(w) \/ ConvergeFails(w) \/ WorkerCrash(w)

Spec == Init /\ [][Next]_vars

\* A request's background task runs, and a worker that has work goes on.
\* Users, faults and crashes are not obliged to act, and neither is the clock.
Fairness == WF_vars(Dispatch) /\ \A w \in Workers : WF_vars(WorkerStep(w))

FairSpec == Spec /\ Fairness

-----------------------------------------------------------------------------
(***************************************************************************)
(* Properties.                                                             *)
(***************************************************************************)

\* A row that is completed (or was, and is pruned) owes nothing: the last
\* committed convergence saw every confirmed save of the key, whatever was
\* saved, reclaimed or retried while it ran.
NoLostConfirmation ==
  \A k \in Keys : row[k].status \in {"completed", "absent"} => converged[k] = content[k]

\* A row is given up only after MaxAttempts exceptions of its own generation:
\* a late failure of superseded work never counts against newer work, and
\* two handlers of one row never count an exception twice.
FailureIsEarned ==
  \A k \in Keys : /\ row[k].attempts <= strikes[k]
                  /\ row[k].status = "failed" => strikes[k] >= MaxAttempts

\* Why NoLostConfirmation holds.  A claim never runs ahead of its row, and a
\* convergence whose claim is still current has missed no save: a save after
\* the claim would have moved the row to another generation or another id.
Held(w) == todo[w] \cup (IF pc[w] \in Busy THEN {cur[w]} ELSE {})

Current(c) == /\ row[c.key].status # "absent"
              /\ c.id = row[c.key].id
              /\ c.gen = row[c.key].gen

ClaimsTrailRows ==
  \A w \in Workers : \A c \in Held(w) :
    /\ c.id <= row[c.key].id
    /\ row[c.key].status # "absent" /\ c.id = row[c.key].id => c.gen <= row[c.key].gen

CurrentWorkIsFresh ==
  \A w \in Workers :
    pc[w] = "finalize" /\ Current(cur[w]) => seen[w] = content[cur[w].key]

OnlyConfirmedKinds ==
  /\ \A k \in Keys : row[k].kind = "confirmed"
  /\ \A w \in Workers : \A c \in Held(w) : c.kind = "confirmed"

OutboxInv ==
  /\ ClaimsTrailRows
  /\ CurrentWorkIsFresh
  /\ ~BlurEnabled => OnlyConfirmedKinds /\ NoLostConfirmation

\* A row that asks for a convergence does not ask for ever: some worker takes it
\* and completes it or gives it up.
EventuallySettled ==
  \A k \in Keys : row[k].status \in {"pending", "processing"}
                    ~> row[k].status \notin {"pending", "processing"}

\* The protocol keeps the promise of SyncPromise.
Due(r) == CASE r.status \in {"pending", "processing"} -> "due"
            [] r.status = "completed" -> "met"
            [] r.status = "failed" -> "dropped"
            [] OTHER -> "none"

Promise == INSTANCE SyncPromise
             WITH want <- content, got <- converged, due <- [k \in Keys |-> Due(row[k])]

KeepsPromise == Promise!Spec
=============================================================================
