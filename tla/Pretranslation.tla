--------------------------- MODULE Pretranslation ---------------------------
(***************************************************************************)
(* Pretranslation runs (app/routers/api.py): a request creates a run and,  *)
(* file by file, takes the operation lock and adds a task; a job works the *)
(* tasks off in threads, converges the files it completed and announces    *)
(* the result.  Meanwhile tasks are cancelled, watched (a poll of the      *)
(* project page gives up on tasks without heartbeat) and looked up.        *)
(*                                                                         *)
(* The lock of a file is that of FileOperationLock.  Its token is the task *)
(* it was issued for: each task acquires once, and after the commit of the *)
(* run the rows of the files are expired, so that each acquisition decides *)
(* on the current row.                                                     *)
(***************************************************************************)
EXTENDS Naturals, FiniteSets

CONSTANTS
  Runs,
  Wanted,       \* the files each run is asked to translate
  Stages,       \* how many of the stages bindings, TM and LLM a task has
  None,         \* no task, no file, no request
  MaxCancels,   \* bound: cancel requests
  MaxSilences,  \* bound: timeouts of tasks that are being worked on or wait
  MaxCrashes    \* bound: processes that die

Files  == UNION {Wanted[r] : r \in Runs}
Tasks  == {t \in Runs \X Files : t[2] \in Wanted[t[1]]}
Run(t) == t[1]
File(t) == t[2]
TasksOf(r) == {t \in Tasks : Run(t) = r}
Active == {"queued", "running", "canceling"}

ASSUME PretranslationAssumption ==
  /\ Stages \in Nat \ {0}
  /\ None \notin Tasks /\ None \notin Files
  /\ None \notin [task: Tasks, seen: Active, at: {"write", "release", "refresh"}]
  /\ {MaxCancels, MaxSilences, MaxCrashes} \subseteq Nat

VARIABLES
  run,       \* the status column of each run, "none" before it exists
  task,      \* status and cancel_requested of each task
  lock,      \* the lock columns of each file
  quiet,     \* active tasks without heartbeat for lock timeout + 60 s
  maker,     \* the request that creates each run
  job,       \* the background job of each run
  at, stage, \* the thread of each task, and how many stages it has entered
  request,   \* the cancel request in flight
  silent,    \* history: tasks whose lock or heartbeat has timed out
  late,      \* history: stages a task entered after its cancellation
  faults     \* how many cancellations, timeouts and crashes have happened

vars == <<run, task, lock, quiet, maker, job, at, stage, request, silent, late, faults>>
work == <<job, at, stage>>

-----------------------------------------------------------------------------
Terminal == {"completed", "failed", "canceled"}
Free     == [token |-> None, stale |-> FALSE]
Thread   == {"idle", "begin", "check", "enter", "work", "release", "done", "lost"} \cup Terminal

TypeOK ==
  /\ run \in [Runs -> Active \cup Terminal \cup {"none"}]
  /\ task \in [Tasks -> [status: Active \cup Terminal \cup {"none"}, cancel: BOOLEAN]]
  /\ lock \in [Files -> [token: Tasks \cup {None}, stale: BOOLEAN]]
  /\ quiet \subseteq Tasks /\ silent \subseteq Tasks
  /\ maker \in [Runs -> [at: {"idle", "making", "made"}, todo: SUBSET Files, got: Files \cup {None}]]
  /\ \A r \in Runs : maker[r].todo \subseteq Wanted[r] /\ maker[r].got \in Wanted[r] \cup {None}
  /\ job \in [Runs -> {"none", "queued", "files", "finish", "amiss", "done", "lost"}]
  /\ at \in [Tasks -> Thread] /\ stage \in [Tasks -> 0..Stages]
  /\ request \in [task: Tasks, seen: Active, at: {"write", "release", "refresh"}] \cup {None}
  /\ late \in [Tasks -> 0..Stages]
  /\ faults \in [cancels: 0..MaxCancels, silences: 0..MaxSilences, crashes: 0..MaxCrashes]

Init ==
  /\ run = [r \in Runs |-> "none"]
  /\ task = [t \in Tasks |-> [status |-> "none", cancel |-> FALSE]]
  /\ lock = [f \in Files |-> Free]
  /\ quiet = {} /\ silent = {}
  /\ maker = [r \in Runs |-> [at |-> "idle", todo |-> {}, got |-> None]]
  /\ job = [r \in Runs |-> "none"]
  /\ at = [t \in Tasks |-> "idle"]
  /\ stage = [t \in Tasks |-> 0]
  /\ request = None
  /\ late = [t \in Tasks |-> 0]
  /\ faults = [cancels |-> 0, silences |-> 0, crashes |-> 0]

\* _refresh_pretranslation_run_status: the status of run r when its tasks are
\* tk; final is finalize_if_terminal.
Refreshed(r, tk, final) ==
  LET made == {t \in TasksOf(r) : tk[t].status # "none"}
      All(statuses) == \A t \in made : tk[t].status \in statuses
  IN IF ~All(Terminal) THEN "running"
     ELSE IF ~final THEN (IF run[r] \in Terminal THEN run[r] ELSE "running")
     ELSE IF ~All(Terminal \ {"failed"}) THEN "failed"
     ELSE IF made # {} /\ All({"canceled"}) THEN "canceled"
     ELSE "completed"

\* release_file_operation_lock with the token of task t: a stale lock is
\* cleared whoever it belongs to; another's is left alone (409, logged).
Released(t) == IF lock[File(t)].stale \/ lock[File(t)].token = t THEN Free ELSE lock[File(t)]

\* ensure_file_record_write_allowed with that token: refused under the live
\* lock of another, otherwise a stale lock is cleared and its own renewed.
Refused(t) == lock[File(t)].token \notin {t, None} /\ ~lock[File(t)].stale
Touched(t) == IF lock[File(t)].stale THEN Free ELSE lock[File(t)]

-----------------------------------------------------------------------------
(* create_pretranslation_run. *)

\* Files with an active task are left out; when nothing else is left, the
\* request answers with the run that has them.
CreateRun(r) ==
  LET busy  == {File(t) : t \in {u \in Tasks : task[u].status \in Active}}
      start == Wanted[r] \ busy
  IN /\ maker[r].at = "idle"
     /\ start # {}
     /\ run' = [run EXCEPT ![r] = "queued"]
     /\ maker' = [maker EXCEPT ![r] = [at |-> "making", todo |-> start, got |-> None]]
     /\ UNCHANGED <<task, lock, quiet, work, request, silent, late, faults>>

\* Mutant: the lock is taken without looking at it.
AcquireUnchecked(r, f) ==
  /\ maker[r].at = "making" /\ f \in maker[r].todo /\ maker[r].got = None
  /\ lock' = [lock EXCEPT ![f] = [token |-> <<r, f>>, stale |-> FALSE]]
  /\ maker' = [maker EXCEPT ![r].got = f]
  /\ UNCHANGED <<run, task, quiet, work, request, silent, late, faults>>

\* acquire_file_operation_lock commits for itself.  A refusal (409) ends the
\* request: what it has made so far stays, and no job is dispatched.
Acquire(r, f) ==
  /\ maker[r].at = "making" /\ f \in maker[r].todo /\ maker[r].got = None
  /\ IF lock[f].token # None /\ ~lock[f].stale
     THEN /\ maker' = [maker EXCEPT ![r] = [at |-> "made", todo |-> {}, got |-> None]]
          /\ UNCHANGED lock
     ELSE /\ lock' = [lock EXCEPT ![f] = [token |-> <<r, f>>, stale |-> FALSE]]
          /\ maker' = [maker EXCEPT ![r].got = f]
  /\ UNCHANGED <<run, task, quiet, work, request, silent, late, faults>>

AddTask(r) ==
  /\ maker[r].got # None
  /\ task' = [task EXCEPT ![<<r, maker[r].got>>].status = "queued"]
  /\ maker' = [maker EXCEPT ![r].todo = @ \ {maker[r].got}, ![r].got = None]
  /\ UNCHANGED <<run, lock, quiet, work, request, silent, late, faults>>

\* The background task of the response dispatches the job.
Dispatch(r) ==
  /\ maker[r].at = "making" /\ maker[r].todo = {}
  /\ maker' = [maker EXCEPT ![r].at = "made"]
  /\ run' = [run EXCEPT ![r] = Refreshed(r, task, TRUE)]
  /\ job' = [job EXCEPT ![r] = "queued"]
  /\ UNCHANGED <<task, lock, quiet, at, stage, request, silent, late, faults>>

\* _run_pretranslation_run up to its first commit.
JobStart(r) ==
  /\ job[r] = "queued"
  /\ job' = [job EXCEPT ![r] = "files"]
  /\ run' = [run EXCEPT ![r] = Refreshed(r, task, TRUE)]
  /\ UNCHANGED <<task, lock, quiet, maker, at, stage, request, silent, late, faults>>

-----------------------------------------------------------------------------
(* _run_pretranslation_task: the thread of a task. *)

Goto(t, place) == at' = [at EXCEPT ![t] = place]

\* Mutant: the run is announced as soon as its last task has ended.
UpdateAndFinish(t, status) ==
  /\ task' = [task EXCEPT ![t].status = status]
  /\ run' = [run EXCEPT ![Run(t)] = Refreshed(Run(t), task', TRUE)]

\* _update_pretranslation_task: the status is written over whatever it was.
Update(t, status) ==
  /\ task' = [task EXCEPT ![t].status = status]
  /\ run' = [run EXCEPT ![Run(t)] = Refreshed(Run(t), task', FALSE)]

\* _touch_pretranslation_task_heartbeat; the thread goes on at place.  The
\* refusal of the lock takes the heartbeat back and fails the task.
Heartbeat(t, place) ==
  IF Refused(t)
  THEN /\ Goto(t, "failed")
       /\ UNCHANGED <<lock, quiet>>
  ELSE /\ Goto(t, place)
       /\ lock' = [lock EXCEPT ![File(t)] = Touched(t)]
       /\ quiet' = quiet \ {t}

Start(t) ==
  /\ job[Run(t)] = "files" /\ at[t] = "idle" /\ task[t].status # "none"
  /\ Goto(t, IF task[t].cancel \/ task[t].status = "canceled" THEN "canceled" ELSE "begin")
  /\ UNCHANGED <<run, task, lock, quiet, maker, job, stage, request, silent, late, faults>>

Begin(t) ==
  /\ at[t] = "begin"
  /\ Update(t, "running")
  /\ Heartbeat(t, "check")
  /\ UNCHANGED <<maker, job, stage, request, silent, late, faults>>

\* Mutant: the cancellation is looked for in the status alone.
CheckStatus(t) ==
  /\ at[t] = "check"
  /\ Goto(t, IF task[t].status \in {"canceled", "canceling"} THEN "canceled"
             ELSE IF stage[t] = Stages THEN "completed" ELSE "enter")
  /\ UNCHANGED <<run, task, lock, quiet, maker, job, stage, request, silent, late, faults>>

\* Mutant: one stage too many.
CheckOver(t) ==
  /\ at[t] = "check"
  /\ Goto(t, IF task[t].cancel \/ task[t].status = "canceled" THEN "canceled"
             ELSE IF stage[t] > Stages THEN "completed" ELSE "enter")
  /\ UNCHANGED <<run, task, lock, quiet, maker, job, stage, request, silent, late, faults>>

\* _pretranslation_task_cancel_requested, before each stage and after the last.
Check(t) ==
  /\ at[t] = "check"
  /\ Goto(t, IF task[t].cancel \/ task[t].status = "canceled" THEN "canceled"
             ELSE IF stage[t] = Stages THEN "completed" ELSE "enter")
  /\ UNCHANGED <<run, task, lock, quiet, maker, job, stage, request, silent, late, faults>>

\* The head of a stage: status, heartbeat, and the write check with the token.
Enter(t) ==
  /\ at[t] = "enter"
  /\ Update(t, "running")
  /\ Heartbeat(t, "work")
  /\ stage' = [stage EXCEPT ![t] = @ + 1]
  /\ late' = [late EXCEPT ![t] = @ + (IF task[t].cancel THEN 1 ELSE 0)]
  /\ UNCHANGED <<maker, job, request, silent, faults>>

\* Between two answers of the model: counters, then the heartbeat.
Beat(t) ==
  /\ at[t] = "work"
  /\ run' = [run EXCEPT ![Run(t)] = Refreshed(Run(t), task, FALSE)]
  /\ Heartbeat(t, "work")
  /\ UNCHANGED <<task, maker, job, stage, request, silent, late, faults>>

\* The stage ends, in good order or with an exception.
Work(t) ==
  /\ at[t] = "work"
  /\ \E place \in {"check", "failed"} : Goto(t, place)
  /\ UNCHANGED <<run, task, lock, quiet, maker, job, stage, request, silent, late, faults>>

\* Mutant: the release is not in the finally block.
EndOnly(t) ==
  /\ at[t] \in Terminal
  /\ Update(t, at[t])
  /\ Goto(t, IF at[t] = "completed" THEN "release" ELSE "done")
  /\ UNCHANGED <<lock, quiet, maker, job, stage, request, silent, late, faults>>

End(t) ==
  /\ at[t] \in Terminal
  /\ Update(t, at[t])
  /\ Goto(t, "release")
  /\ UNCHANGED <<lock, quiet, maker, job, stage, request, silent, late, faults>>

\* _release_pretranslation_task_lock, in the finally block.
Release(t) ==
  /\ at[t] = "release"
  /\ lock' = [lock EXCEPT ![File(t)] = Released(t)]
  /\ Goto(t, "done")
  /\ UNCHANGED <<run, task, quiet, maker, job, stage, request, silent, late, faults>>

ThreadStep(t) == Start(t) \/ Begin(t) \/ Check(t) \/ Enter(t) \/ Work(t) \/ End(t) \/ Release(t)

-----------------------------------------------------------------------------
(* The end of the job. *)

Made(r)      == {t \in TasksOf(r) : task[t].status # "none"}
Completed(r) == {t \in TasksOf(r) : task[t].status = "completed"}

\* _converge_pretranslation_run_llm_segments commits the translations shared
\* by the completed files, or raises when there are two of them to work on.
Converge(r) ==
  /\ job[r] = "files"
  /\ \A t \in Made(r) : at[t] = "done"
  /\ \E next \in {"finish"} \cup (IF Cardinality(Completed(r)) < 2 THEN {} ELSE {"amiss"}) :
       job' = [job EXCEPT ![r] = next]
  /\ UNCHANGED <<run, task, lock, quiet, maker, at, stage, request, silent, late, faults>>

Finish(r) ==
  /\ job[r] \in {"finish", "amiss"}
  /\ run' = [run EXCEPT ![r] = IF job[r] = "amiss" THEN "failed" ELSE Refreshed(r, task, TRUE)]
  /\ job' = [job EXCEPT ![r] = "done"]
  /\ UNCHANGED <<task, lock, quiet, maker, at, stage, request, silent, late, faults>>

-----------------------------------------------------------------------------
(* cancel_pretranslation_task: the row is read without a lock. *)

CancelRead(t) ==
  /\ request = None /\ faults.cancels < MaxCancels
  /\ task[t].status \in Active
  /\ request' = [task |-> t, seen |-> task[t].status, at |-> "write"]
  /\ faults' = [faults EXCEPT !.cancels = @ + 1]
  /\ UNCHANGED <<run, task, lock, quiet, maker, work, silent, late>>

\* The status is written over what it has become; a row read as canceling has
\* no column to flush.
Canceled(t, seen) ==
  [cancel |-> TRUE,
   status |-> CASE seen = "queued"    -> "canceled"
                [] seen = "running"   -> "canceling"
                [] seen = "canceling" -> task[t].status]

CancelWrite ==
  /\ request # None /\ request.at = "write"
  /\ task' = [task EXCEPT ![request.task] = Canceled(request.task, request.seen)]
  /\ request' = [request EXCEPT !.at = IF request.seen = "queued" THEN "release" ELSE "refresh"]
  /\ UNCHANGED <<run, lock, quiet, maker, work, silent, late, faults>>

CancelRelease ==
  /\ request # None /\ request.at = "release"
  /\ lock' = [lock EXCEPT ![File(request.task)] = Released(request.task)]
  /\ request' = [request EXCEPT !.at = "refresh"]
  /\ UNCHANGED <<run, task, quiet, maker, work, silent, late, faults>>

CancelRefresh ==
  LET r == Run(request.task)
  IN /\ request # None /\ request.at = "refresh"
     /\ run' = [run EXCEPT ![r] = Refreshed(r, task, TRUE)]
     /\ request' = None
     /\ UNCHANGED <<task, lock, quiet, maker, work, silent, late, faults>>

CancelStep == CancelWrite \/ CancelRelease \/ CancelRefresh

-----------------------------------------------------------------------------
(* Those who watch, and time. *)

\* _finalize_stale_pretranslation_tasks, on each poll of the project page: the
\* active tasks that are quiet, and how each ends.  Their locks are committed
\* one by one, the rest together; a poll is one step here.
Gone    == {t \in quiet : task[t].status \in Active}
Fate(t) == IF task[t].cancel \/ task[t].status = "canceling" THEN "canceled" ELSE "failed"

GiveUp ==
  /\ Gone # {}
  /\ task' = [t \in Tasks |-> IF t \in Gone THEN [task[t] EXCEPT !.status = Fate(t)] ELSE task[t]]
  /\ lock' = [f \in Files |->
       IF \E t \in Gone : File(t) = f /\ Released(t) = Free THEN Free ELSE lock[f]]
  /\ quiet' = quiet \ Gone
  /\ UNCHANGED <<maker, work, request, silent, late, faults>>

\* Mutant: the runs of the tasks are not looked at.
PollTasks == GiveUp /\ UNCHANGED run

Poll ==
  /\ GiveUp
  /\ run' = [r \in Runs |-> IF Gone \cap TasksOf(r) = {} THEN run[r] ELSE Refreshed(r, task', TRUE)]

\* get_pretranslation_run, which the dialog polls.
GetRun(r) ==
  /\ run[r] # "none"
  /\ run' = [run EXCEPT ![r] = Refreshed(r, task, FALSE)]
  /\ UNCHANGED <<task, lock, quiet, maker, work, request, silent, late, faults>>

\* Any other request on the file clears a stale lock.
Sweep(f) ==
  /\ lock[f].stale
  /\ lock' = [lock EXCEPT ![f] = Free]
  /\ UNCHANGED <<run, task, quiet, maker, work, request, silent, late, faults>>

\* Nobody works on task t, nor will.
Abandoned(t) ==
  \/ at[t] \in {"done", "lost"}
  \/ at[t] = "idle" /\ maker[Run(t)].at = "made" /\ job[Run(t)] \in {"none", "lost"}

\* Time runs out on what somebody works on only MaxSilences times.
Spend(t) ==
  /\ Abandoned(t) \/ faults.silences < MaxSilences
  /\ silent' = silent \cup {t}
  /\ faults' = IF Abandoned(t) THEN faults ELSE [faults EXCEPT !.silences = @ + 1]

\* FILE_OPERATION_LOCK_TIMEOUT_SECONDS without a write or heartbeat.
Expire(f) ==
  /\ lock[f].token # None /\ ~lock[f].stale
  /\ Spend(lock[f].token)
  /\ lock' = [lock EXCEPT ![f].stale = TRUE]
  /\ UNCHANGED <<run, task, quiet, maker, work, request, late>>

\* A minute more without a heartbeat of the task, or since it was queued.
GoQuiet(t) ==
  /\ task[t].status \in Active /\ t \notin quiet
  /\ Spend(t)
  /\ quiet' = quiet \cup {t}
  /\ UNCHANGED <<run, task, lock, maker, work, request, late>>

\* The process of the request, or of the job, dies.
Crash(r) ==
  /\ faults.crashes < MaxCrashes
  /\ faults' = [faults EXCEPT !.crashes = @ + 1]
  /\ \/ /\ maker[r].at = "making"
        /\ maker' = [maker EXCEPT ![r] = [at |-> "made", todo |-> {}, got |-> None]]
        /\ UNCHANGED work
     \/ /\ job[r] \notin {"none", "done", "lost"}
        /\ job' = [job EXCEPT ![r] = "lost"]
        /\ at' = [t \in Tasks |-> IF Run(t) = r /\ at[t] # "done" THEN "lost" ELSE at[t]]
        /\ UNCHANGED <<maker, stage>>
  /\ UNCHANGED <<run, task, lock, quiet, request, silent, late>>

-----------------------------------------------------------------------------
MakerStep(r) == (\E f \in Files : Acquire(r, f)) \/ AddTask(r) \/ Dispatch(r)
JobStep(r)   == JobStart(r) \/ Converge(r) \/ Finish(r)

Next ==
  \/ \E r \in Runs : CreateRun(r) \/ MakerStep(r) \/ JobStep(r) \/ GetRun(r) \/ Crash(r)
  \/ \E t \in Tasks : ThreadStep(t) \/ Beat(t) \/ CancelRead(t) \/ GoQuiet(t)
  \/ CancelStep
  \/ Poll
  \/ \E f \in Files : Sweep(f) \/ Expire(f)

Spec == Init /\ [][Next]_vars

\* Requests and jobs run to their end; the project page stays open and polls;
\* time passes for the tasks nobody works on.
Fairness ==
  /\ \A r \in Runs : WF_vars(MakerStep(r)) /\ WF_vars(JobStep(r))
  /\ \A t \in Tasks : WF_vars(ThreadStep(t)) /\ WF_vars(GoQuiet(t) /\ Abandoned(t))
  /\ WF_vars(CancelStep) /\ WF_vars(Poll)

FairSpec == Spec /\ Fairness

-----------------------------------------------------------------------------
\* A task that works on a file, was not cancelled and never timed out holds
\* the lock of the file: no cancellation, poll, release or acquisition meant
\* for another task takes it away (the tokens of
\* file_operation_lock_service.py, the skipping of active files in
\* create_pretranslation_run).
WorkerKeepsFile ==
  \A t \in Tasks :
    at[t] = "work" /\ ~task[t].cancel /\ t \notin silent =>
      lock[File(t)] = [token |-> t, stale |-> FALSE]

\* Unless a process has died, a lock has somebody who will release it: its
\* task is active (a poll ends it once it is silent), its thread or job has
\* yet to come to its release, or a request is between its two commits.
LockHasOwner ==
  \A f \in Files :
    LET t == lock[f].token
    IN t # None /\ faults.crashes = 0 =>
         \/ task[t].status \in Active
         \/ at[t] # "done" /\ ~Abandoned(t)
         \/ maker[Run(t)].got = f
         \/ request # None /\ request.task = t /\ request.at = "release"

\* However a cancellation falls between the checks and the writes of the
\* thread, the task enters at most one more stage: cancel_requested survives
\* the "running" that the thread writes over "canceling".
CancelHonoured == \A t \in Tasks : late[t] <= 1

\* A run whose files are still to be converged (api.py:2717, two files
\* completed) has not been announced as ended (the comment at api.py:2171).
\* The code breaks it when a task of the run is cancelled or given up.
FinalMeansConverged ==
  \A r \in Runs :
    job[r] = "files" /\ Cardinality(Completed(r)) >= 2 => run[r] \notin Terminal

\* The same where no task of the run was cancelled or timed out: no other
\* refresh of the run, of the job, of its threads or of a reader, is early.
FinalMeansConvergedUndisturbed ==
  \A r \in Runs :
    /\ job[r] = "files" /\ Cardinality(Completed(r)) >= 2
    /\ \A t \in TasksOf(r) : ~task[t].cancel /\ t \notin silent
    => run[r] \notin Terminal

\* Once a run has a task, all its tasks end for good, and so does the run,
\* though cancellations, silences, refused locks, late writes and crashes may
\* bring it back to running in between.  Only the run of a job that died need
\* not: a poll ends a run by its silent tasks, and one that died while
\* converging has none.
RunSettles ==
  \A r \in Runs :
    Made(r) # {} ~> [](/\ \A t \in Made(r) : task[t].status \in Terminal
                       /\ run[r] \in Terminal \/ job[r] = "lost")
=============================================================================
