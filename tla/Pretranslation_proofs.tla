----------------------- MODULE Pretranslation_proofs ------------------------
(***************************************************************************)
(* What Pretranslation keeps for any set of runs, files and stages and any *)
(* number of cancellations, timeouts and crashes: an undisturbed task      *)
(* holds the lock of its file, a cancelled one enters at most one more     *)
(* stage, every lock has an owner, and an undisturbed run converges before *)
(* it ends.                                                                *)
(***************************************************************************)
EXTENDS Pretranslation, FiniteSetTheorems, TLAPS

\* A task holds its lock from the acquisition until its thread has ended: a
\* request between two commits, a task that waits, a thread at any place.
Held(t) ==
  /\ at[t] \notin {"done", "lost"}
  /\ task[t].status # "none" \/ maker[Run(t)].got = File(t)

HeldLockStands ==
  \A t \in Tasks :
    Held(t) /\ ~task[t].cancel /\ t \notin silent =>
      lock[File(t)] = [token |-> t, stale |-> FALSE]

\* Who may take a lock away has a reason to: the task is silent or cancelled.
ReasonToRelease ==
  /\ quiet \subseteq silent
  /\ request # None => task[request.task].status # "none"
  /\ request # None /\ request.at # "write" => task[request.task].cancel
  /\ \A t \in Tasks : at[t] \notin {"idle", "lost"} => task[t].status # "none"

\* A thread that has entered a stage after its cancellation is past the last
\* check that lets it enter another; no check lets it enter one too many.
NoSecondChance ==
  \A t \in Tasks :
    /\ late[t] <= 1
    /\ late[t] = 1 => task[t].cancel /\ at[t] # "enter"
    /\ at[t] = "enter" => stage[t] # Stages

\* A request makes its tasks before it dispatches the job, and no thread
\* starts before the job.
RunsInOrder ==
  \A r \in Runs :
    /\ maker[r].got # None => maker[r].at = "making" /\ maker[r].got \in maker[r].todo
    /\ maker[r].at # "made" => job[r] = "none"
    /\ job[r] \in {"none", "queued"} => \A t \in TasksOf(r) : at[t] = "idle"

\* Who will release the lock of task t.  A task whose thread has not started
\* has only its status and the requests: the maker may never get to the job.
Owned(t) ==
  \/ task[t].status \in Active
  \/ at[t] \notin {"idle", "done", "lost"}
  \/ maker[Run(t)].got = File(t)
  \/ request # None /\ request.task = t /\ request.at = "release"

LocksOwned ==
  \A f \in Files : lock[f].token # None =>
    /\ File(lock[f].token) = f
    /\ faults.crashes = 0 => Owned(lock[f].token)

\* A task that was not cancelled and did not time out waits for its thread.
WaitsForThread ==
  \A t \in Tasks :
    at[t] = "idle" /\ ~task[t].cancel /\ t \notin silent => task[t].status \in {"none", "queued"}

\* A run of which no task was cancelled or timed out is open from the start
\* of its job to its convergence.
Undisturbed(r) == \A t \in TasksOf(r) : ~task[t].cancel /\ t \notin silent

OpenUntilConverged ==
  \A r \in Runs :
    Undisturbed(r) /\ job[r] = "files" /\ Made(r) # {} => run[r] \notin Terminal

Inv ==
  /\ TypeOK /\ HeldLockStands /\ ReasonToRelease /\ NoSecondChance
  /\ RunsInOrder /\ LocksOwned /\ WaitsForThread /\ OpenUntilConverged

-----------------------------------------------------------------------------
\* A task is a run and a file of it.
LEMMA TaskParts ==
  /\ \A t \in Tasks : Run(t) \in Runs /\ File(t) \in Files /\ t = <<Run(t), File(t)>>
  /\ \A r \in Runs : \A f \in Wanted[r] : <<r, f>> \in Tasks /\ f \in Files
  /\ \A r \in Runs : \A f : Run(<<r, f>>) = r /\ File(<<r, f>>) = f
BY DEF Tasks, Files, Run, File

\* The value for none is neither a task nor a file.
LEMMA NoneApart == None \notin Tasks /\ None \notin Files
BY PretranslationAssumption

\* A refreshed run has a status.
LEMMA RefreshedType ==
  ASSUME NEW r, NEW tk, NEW final
  PROVE  Refreshed(r, tk, final) \in Active \cup Terminal
BY DEF Refreshed, Active, Terminal

LEMMA InitInv == Init => Inv
<1> SUFFICES ASSUME Init PROVE Inv
  OBVIOUS
<1>1. TypeOK
  BY PretranslationAssumption DEF Init, TypeOK, Free, Thread, Active
<1>2. HeldLockStands
  BY TaskParts, PretranslationAssumption DEF Init, HeldLockStands, Held
<1>3. ReasonToRelease
  BY DEF Init, ReasonToRelease
<1>4. NoSecondChance
  BY DEF Init, NoSecondChance
<1>5. RunsInOrder
  BY DEF Init, RunsInOrder, TasksOf
<1>6. LocksOwned
  BY DEF Init, LocksOwned, Free
<1>7. WaitsForThread /\ OpenUntilConverged
  BY DEF Init, WaitsForThread, OpenUntilConverged
<1> QED
  BY <1>1, <1>2, <1>3, <1>4, <1>5, <1>6, <1>7 DEF Inv

\* Whatever the lock answers to a heartbeat, lock and thread stay well typed.
LEMMA HeartbeatType ==
  ASSUME TypeOK, NEW t \in Tasks, NEW place \in Thread, Heartbeat(t, place)
  PROVE  /\ lock' \in [Files -> [token: Tasks \cup {None}, stale: BOOLEAN]]
         /\ at' \in [Tasks -> Thread]
         /\ quiet' \subseteq Tasks
<1>1. Touched(t) \in [token: Tasks \cup {None}, stale: BOOLEAN]
  BY TaskParts DEF Touched, TypeOK, Free
<1>2. /\ at \in [Tasks -> Thread] /\ quiet \subseteq Tasks
      /\ lock \in [Files -> [token: Tasks \cup {None}, stale: BOOLEAN]]
  BY DEF TypeOK
<1>3. "failed" \in Thread
  BY DEF Thread, Terminal
<1>4. CASE Refused(t)
  BY <1>2, <1>3, <1>4 DEF Heartbeat, Goto
<1>5. CASE ~Refused(t)
  BY <1>1, <1>2, <1>5 DEF Heartbeat, Goto
<1> QED
  BY <1>4, <1>5

\* The counters of stages need more than their type.
LEMMA TypeStep ==
  ASSUME TypeOK, NoSecondChance, [Next]_vars
  PROVE  TypeOK'
<1>1. ASSUME NEW r \in Runs, CreateRun(r)
     PROVE  TypeOK'
  BY <1>1, TaskParts, RefreshedType, PretranslationAssumption
     DEF CreateRun, TypeOK, work, Active, Terminal, Free, Thread
<1>2. ASSUME NEW r \in Runs, NEW f \in Files, Acquire(r, f)
     PROVE  TypeOK'
  <2> DEFINE Making == [at: {"idle", "making", "made"}, todo: SUBSET Files, got: Files \cup {None}]
  <2>1. <<r, f>> \in Tasks /\ f \in Wanted[r]
    BY <1>2, TaskParts DEF Acquire, TypeOK
  <2>2. maker \in [Runs -> Making] /\ lock \in [Files -> [token: Tasks \cup {None}, stale: BOOLEAN]]
    BY DEF TypeOK
  <2>3. \A q \in Runs : maker[q].todo \subseteq Wanted[q] /\ maker[q].got \in Wanted[q] \cup {None}
    BY DEF TypeOK
  <2>4. CASE maker' = [maker EXCEPT ![r] = [at |-> "made", todo |-> {}, got |-> None]] /\ UNCHANGED lock
    <3>1. maker' \in [Runs -> Making]
      BY <2>2, <2>4
    <3>2. \A q \in Runs : maker'[q].todo \subseteq Wanted[q] /\ maker'[q].got \in Wanted[q] \cup {None}
      BY <2>2, <2>3, <2>4
    <3>3. QED
      BY <1>2, <2>4, <3>1, <3>2 DEF Acquire, TypeOK, work
  <2>5. CASE lock' = [lock EXCEPT ![f] = [token |-> <<r, f>>, stale |-> FALSE]] /\ maker' = [maker EXCEPT ![r].got = f]
    <3>1. maker' \in [Runs -> Making]
      BY <2>2, <2>5
    <3>2. \A q \in Runs : maker'[q].todo \subseteq Wanted[q] /\ maker'[q].got \in Wanted[q] \cup {None}
      BY <2>1, <2>2, <2>3, <2>5
    <3>3. lock' \in [Files -> [token: Tasks \cup {None}, stale: BOOLEAN]]
      BY <2>1, <2>2, <2>5
    <3>4. QED
      BY <1>2, <3>1, <3>2, <3>3 DEF Acquire, TypeOK, work
  <2>6. QED
    BY <1>2, <2>4, <2>5 DEF Acquire
<1>3. ASSUME NEW r \in Runs, AddTask(r)
     PROVE  TypeOK'
  <2> DEFINE t == <<r, maker[r].got>>
  <2>1. maker \in [Runs -> [at: {"idle", "making", "made"}, todo: SUBSET Files, got: Files \cup {None}]]
    BY DEF TypeOK
  <2>2. t \in Tasks
    BY <1>3, TaskParts DEF AddTask, TypeOK
  <2>3. task' \in [Tasks -> [status: Active \cup Terminal \cup {"none"}, cancel: BOOLEAN]]
    <3>1. task \in [Tasks -> [status: Active \cup Terminal \cup {"none"}, cancel: BOOLEAN]]
      BY DEF TypeOK
    <3>2. task' = [task EXCEPT ![t].status = "queued"]
      BY <1>3 DEF AddTask
    <3> HIDE DEF t
    <3>3. QED
      BY <3>1, <3>2 DEF Active
  <2>4. maker' \in [Runs -> [at: {"idle", "making", "made"}, todo: SUBSET Files, got: Files \cup {None}]]
    BY <1>3, <2>1 DEF AddTask
  <2>5. \A q \in Runs : maker'[q].todo \subseteq Wanted[q] /\ maker'[q].got \in Wanted[q] \cup {None}
    <3>1. \A q \in Runs : maker[q].todo \subseteq Wanted[q] /\ maker[q].got \in Wanted[q] \cup {None}
      BY DEF TypeOK
    <3>2. QED
      BY <1>3, <2>1, <3>1 DEF AddTask
  <2>6. QED
    BY <1>3, <2>3, <2>4, <2>5 DEF AddTask, TypeOK, work
<1>4. ASSUME NEW r \in Runs, Dispatch(r)
     PROVE  TypeOK'
  <2>1. run' \in [Runs -> Active \cup Terminal \cup {"none"}]
    BY <1>4, RefreshedType DEF Dispatch, TypeOK
  <2>2. maker' \in [Runs -> [at: {"idle", "making", "made"}, todo: SUBSET Files, got: Files \cup {None}]]
    BY <1>4 DEF Dispatch, TypeOK
  <2>3. \A q \in Runs : maker'[q].todo \subseteq Wanted[q] /\ maker'[q].got \in Wanted[q] \cup {None}
    BY <1>4 DEF Dispatch, TypeOK
  <2>4. job' \in [Runs -> {"none", "queued", "files", "finish", "amiss", "done", "lost"}]
    BY <1>4 DEF Dispatch, TypeOK
  <2>5. QED
    BY <1>4, <2>1, <2>2, <2>3, <2>4 DEF Dispatch, TypeOK
<1>5. ASSUME NEW r \in Runs, JobStart(r)
     PROVE  TypeOK'
  BY <1>5, TaskParts, RefreshedType, PretranslationAssumption
     DEF JobStart, TypeOK, work, Active, Terminal, Free, Thread
<1>6. ASSUME NEW t \in Tasks, Start(t)
     PROVE  TypeOK'
  BY <1>6, TaskParts, RefreshedType, PretranslationAssumption
     DEF Start, Goto, TypeOK, work, Active, Terminal, Free, Thread
<1>7. ASSUME NEW t \in Tasks, Begin(t)
     PROVE  TypeOK'
  <2>1. run' \in [Runs -> Active \cup Terminal \cup {"none"}]
    BY <1>7, RefreshedType, TaskParts DEF Begin, Update, TypeOK
  <2>2. task' \in [Tasks -> [status: Active \cup Terminal \cup {"none"}, cancel: BOOLEAN]]
    BY <1>7 DEF Begin, Update, TypeOK, Active
  <2>3. lock' \in [Files -> [token: Tasks \cup {None}, stale: BOOLEAN]] /\ at' \in [Tasks -> Thread] /\ quiet' \subseteq Tasks
    BY <1>7, HeartbeatType DEF Begin, Thread
  <2>4. QED
    BY <1>7, <2>1, <2>2, <2>3 DEF Begin, TypeOK
<1>8. ASSUME NEW t \in Tasks, Check(t)
     PROVE  TypeOK'
  BY <1>8, TaskParts, RefreshedType, PretranslationAssumption
     DEF Check, Goto, TypeOK, work, Active, Terminal, Free, Thread
<1>9. ASSUME NEW t \in Tasks, Enter(t)
     PROVE  TypeOK'
  <2>1. run' \in [Runs -> Active \cup Terminal \cup {"none"}]
    BY <1>9, RefreshedType, TaskParts DEF Enter, Update, TypeOK
  <2>2. task' \in [Tasks -> [status: Active \cup Terminal \cup {"none"}, cancel: BOOLEAN]]
    BY <1>9 DEF Enter, Update, TypeOK, Active
  <2>3. lock' \in [Files -> [token: Tasks \cup {None}, stale: BOOLEAN]] /\ at' \in [Tasks -> Thread] /\ quiet' \subseteq Tasks
    BY <1>9, HeartbeatType DEF Enter, Thread
  <2> stage[t] \in 0..Stages /\ stage[t] # Stages /\ late[t] \in 0..Stages /\ late[t] <= 1 /\ late[t] # 1
    <3>1. at[t] = "enter"
      BY <1>9 DEF Enter
    <3>2. QED
      BY <3>1 DEF TypeOK, NoSecondChance
  <2>4. stage' \in [Tasks -> 0..Stages]
    <3>1. stage[t] + 1 \in 0..Stages
      BY PretranslationAssumption
    <3>2. QED
      BY <1>9, <3>1 DEF Enter, TypeOK
  <2>5. late' \in [Tasks -> 0..Stages]
    <3>1. late[t] = 0
      BY PretranslationAssumption
    <3>2. {0, 1} \subseteq 0..Stages
      BY PretranslationAssumption
    <3>3. QED
      BY <1>9, <3>1, <3>2 DEF Enter, TypeOK
  <2>6. QED
    BY <1>9, <2>1, <2>2, <2>3, <2>4, <2>5 DEF Enter, TypeOK
<1>10. ASSUME NEW t \in Tasks, Beat(t)
     PROVE  TypeOK'
  <2>1. run' \in [Runs -> Active \cup Terminal \cup {"none"}]
    BY <1>10, RefreshedType, TaskParts DEF Beat, TypeOK
  <2>2. lock' \in [Files -> [token: Tasks \cup {None}, stale: BOOLEAN]] /\ at' \in [Tasks -> Thread] /\ quiet' \subseteq Tasks
    BY <1>10, HeartbeatType DEF Beat, Thread
  <2>3. QED
    BY <1>10, <2>1, <2>2 DEF Beat, TypeOK
<1>11. ASSUME NEW t \in Tasks, Work(t)
     PROVE  TypeOK'
  BY <1>11, TaskParts, RefreshedType, PretranslationAssumption
     DEF Work, Goto, TypeOK, work, Active, Terminal, Free, Thread
<1>12. ASSUME NEW t \in Tasks, End(t)
     PROVE  TypeOK'
  <2>1. run' \in [Runs -> Active \cup Terminal \cup {"none"}]
    BY <1>12, RefreshedType, TaskParts DEF End, Update, TypeOK
  <2>2. task' \in [Tasks -> [status: Active \cup Terminal \cup {"none"}, cancel: BOOLEAN]]
    BY <1>12 DEF End, Update, TypeOK, Terminal
  <2>3. at' \in [Tasks -> Thread]
    BY <1>12 DEF End, Goto, Thread, TypeOK
  <2>4. QED
    BY <1>12, <2>1, <2>2, <2>3 DEF End, TypeOK
<1>13. ASSUME NEW t \in Tasks, Release(t)
     PROVE  TypeOK'
  BY <1>13, TaskParts, RefreshedType, PretranslationAssumption
     DEF Release, Goto, Released, TypeOK, work, Active, Terminal, Free, Thread
<1>14. ASSUME NEW r \in Runs, Converge(r)
     PROVE  TypeOK'
  BY <1>14, TaskParts, RefreshedType, PretranslationAssumption
     DEF Converge, TypeOK, work, Active, Terminal, Free, Thread
<1>15. ASSUME NEW r \in Runs, Finish(r)
     PROVE  TypeOK'
  BY <1>15, TaskParts, RefreshedType, PretranslationAssumption
     DEF Finish, TypeOK, work, Active, Terminal, Free, Thread
<1>16. ASSUME NEW t \in Tasks, CancelRead(t)
     PROVE  TypeOK'
  <2>1. faults.cancels + 1 \in 0..MaxCancels
    BY <1>16, PretranslationAssumption DEF CancelRead, TypeOK
  <2>2. faults' \in [cancels: 0..MaxCancels, silences: 0..MaxSilences, crashes: 0..MaxCrashes]
    BY <1>16, <2>1 DEF CancelRead, TypeOK
  <2>3. QED
    BY <1>16, <2>2 DEF CancelRead, TypeOK, work
<1>17. ASSUME CancelWrite
     PROVE  TypeOK'
  <2>1. /\ request \in [task: Tasks, seen: Active, at: {"write", "release", "refresh"}]
        /\ task \in [Tasks -> [status: Active \cup Terminal \cup {"none"}, cancel: BOOLEAN]]
    BY <1>17 DEF CancelWrite, TypeOK
  <2>2. Canceled(request.task, request.seen) \in [status: Active \cup Terminal \cup {"none"}, cancel: BOOLEAN]
    BY <2>1 DEF Canceled, Active, Terminal
  <2>3. task' \in [Tasks -> [status: Active \cup Terminal \cup {"none"}, cancel: BOOLEAN]]
    BY <1>17, <2>1, <2>2 DEF CancelWrite
  <2>4. request' \in [task: Tasks, seen: Active, at: {"write", "release", "refresh"}]
    BY <1>17, <2>1 DEF CancelWrite
  <2>5. QED
    BY <1>17, <2>3, <2>4 DEF CancelWrite, TypeOK, work
<1>18. ASSUME CancelRelease
     PROVE  TypeOK'
  BY <1>18, TaskParts, RefreshedType, PretranslationAssumption
     DEF CancelRelease, Released, TypeOK, work, Active, Terminal, Free, Thread
<1>19. ASSUME CancelRefresh
     PROVE  TypeOK'
  BY <1>19, TaskParts, RefreshedType, PretranslationAssumption
     DEF CancelRefresh, TypeOK, work, Active, Terminal, Free, Thread
<1>20. ASSUME Poll
     PROVE  TypeOK'
  <2>1. run' \in [Runs -> Active \cup Terminal \cup {"none"}]
    BY <1>20, RefreshedType DEF Poll, TypeOK
  <2>2. task' \in [Tasks -> [status: Active \cup Terminal \cup {"none"}, cancel: BOOLEAN]]
    BY <1>20 DEF Poll, GiveUp, Fate, TypeOK, Terminal
  <2>3. lock' \in [Files -> [token: Tasks \cup {None}, stale: BOOLEAN]]
    BY <1>20 DEF Poll, GiveUp, Free, TypeOK
  <2>4. QED
    BY <1>20, <2>1, <2>2, <2>3 DEF Poll, GiveUp, TypeOK, work
<1>21. ASSUME NEW r \in Runs, GetRun(r)
     PROVE  TypeOK'
  BY <1>21, TaskParts, RefreshedType, PretranslationAssumption
     DEF GetRun, TypeOK, work, Active, Terminal, Free, Thread
<1>22. ASSUME NEW f \in Files, Sweep(f)
     PROVE  TypeOK'
  BY <1>22, TaskParts, RefreshedType, PretranslationAssumption
     DEF Sweep, TypeOK, work, Active, Terminal, Free, Thread
<1>23. ASSUME NEW f \in Files, Expire(f)
     PROVE  TypeOK'
  <2>1. lock[f].token \in Tasks
    BY <1>23 DEF Expire, TypeOK
  <2>2. faults' \in [cancels: 0..MaxCancels, silences: 0..MaxSilences, crashes: 0..MaxCrashes]
    <3>1. \/ faults' = faults
          \/ faults.silences < MaxSilences /\ faults' = [faults EXCEPT !.silences = @ + 1]
      BY <1>23 DEF Expire, Spend
    <3>2. /\ faults \in [cancels: 0..MaxCancels, silences: 0..MaxSilences, crashes: 0..MaxCrashes]
          /\ MaxSilences \in Nat
      BY PretranslationAssumption DEF TypeOK
    <3> QED
      BY <3>1, <3>2
  <2>3. lock' \in [Files -> [token: Tasks \cup {None}, stale: BOOLEAN]]
    <3>1. lock' = [lock EXCEPT ![f].stale = TRUE]
      BY <1>23 DEF Expire
    <3>2. lock \in [Files -> [token: Tasks \cup {None}, stale: BOOLEAN]]
      BY DEF TypeOK
    <3> QED
      BY <3>1, <3>2
  <2>4. silent' \subseteq Tasks
    BY <1>23, <2>1 DEF Expire, Spend, TypeOK
  <2>5. UNCHANGED <<run, task, quiet, maker, job, at, stage, request, late>>
    BY <1>23 DEF Expire, work
  <2>6. QED
    BY <2>2, <2>3, <2>4, <2>5 DEF TypeOK
<1>24. ASSUME NEW t \in Tasks, GoQuiet(t)
     PROVE  TypeOK'
  <2>1. faults' \in [cancels: 0..MaxCancels, silences: 0..MaxSilences, crashes: 0..MaxCrashes]
    BY <1>24, PretranslationAssumption DEF GoQuiet, Spend, TypeOK
  <2>2. QED
    BY <1>24, <2>1 DEF GoQuiet, Spend, TypeOK, work
<1>25. ASSUME NEW r \in Runs, Crash(r)
     PROVE  TypeOK'
  <2>1. faults' \in [cancels: 0..MaxCancels, silences: 0..MaxSilences, crashes: 0..MaxCrashes]
    BY <1>25, PretranslationAssumption DEF Crash, TypeOK
  <2>2. maker' \in [Runs -> [at: {"idle", "making", "made"}, todo: SUBSET Files, got: Files \cup {None}]]
    BY <1>25 DEF Crash, TypeOK
  <2>3. \A q \in Runs : maker'[q].todo \subseteq Wanted[q] /\ maker'[q].got \in Wanted[q] \cup {None}
    BY <1>25 DEF Crash, TypeOK
  <2>4. job' \in [Runs -> {"none", "queued", "files", "finish", "amiss", "done", "lost"}]
    BY <1>25 DEF Crash, TypeOK, work
  <2>5. at' \in [Tasks -> Thread]
    BY <1>25 DEF Crash, TypeOK, Thread, work
  <2>6. QED
    BY <1>25, <2>1, <2>2, <2>3, <2>4, <2>5 DEF Crash, TypeOK, work
<1>26. CASE UNCHANGED vars
  BY <1>26 DEF TypeOK, work, Active, Terminal, Free, Thread, vars, work
<1> QED
  BY <1>1, <1>2, <1>3, <1>4, <1>5, <1>6, <1>7, <1>8, <1>9, <1>10, <1>11, <1>12, <1>13, <1>14, <1>15, <1>16, <1>17, <1>18, <1>19, <1>20, <1>21, <1>22, <1>23, <1>24, <1>25, <1>26
     DEF Next, MakerStep, JobStep, ThreadStep, CancelStep

\* After a cancellation only a check that ran before it leads into a stage.
LEMMA ChanceStep ==
  ASSUME TypeOK, NoSecondChance, [Next]_vars
  PROVE  NoSecondChance'
<1>1. ASSUME NEW r \in Runs, AddTask(r)
     PROVE  NoSecondChance'
  BY <1>1 DEF AddTask, TypeOK, NoSecondChance, work
<1>2. ASSUME NEW t \in Tasks, Start(t)
     PROVE  NoSecondChance'
  BY <1>2 DEF Start, Goto, TypeOK, NoSecondChance, work
<1>3. ASSUME NEW t \in Tasks, Begin(t)
     PROVE  NoSecondChance'
  BY <1>3
     DEF Begin, Heartbeat, Refused, Touched, Update, Goto, TypeOK, NoSecondChance,
         work
<1>4. ASSUME NEW t \in Tasks, Check(t)
     PROVE  NoSecondChance'
  BY <1>4 DEF Check, Goto, TypeOK, NoSecondChance, work
<1>5. ASSUME NEW t \in Tasks, Enter(t)
     PROVE  NoSecondChance'
  BY <1>5
     DEF Enter, Heartbeat, Refused, Touched, Update, Goto, TypeOK, NoSecondChance,
         work
<1>6. ASSUME NEW t \in Tasks, Beat(t)
     PROVE  NoSecondChance'
  BY <1>6 DEF Beat, Heartbeat, Refused, Touched, Goto, TypeOK, NoSecondChance, work
<1>7. ASSUME NEW t \in Tasks, Work(t)
     PROVE  NoSecondChance'
  BY <1>7 DEF Work, Goto, TypeOK, NoSecondChance, work
<1>8. ASSUME NEW t \in Tasks, End(t)
     PROVE  NoSecondChance'
  BY <1>8 DEF End, Update, Goto, TypeOK, NoSecondChance, work
<1>9. ASSUME NEW t \in Tasks, Release(t)
     PROVE  NoSecondChance'
  BY <1>9 DEF Release, Goto, Released, TypeOK, NoSecondChance, work
<1>10. ASSUME CancelWrite
     PROVE  NoSecondChance'
  BY <1>10 DEF CancelWrite, Canceled, TypeOK, NoSecondChance, work
<1>11. ASSUME Poll
     PROVE  NoSecondChance'
  BY <1>11 DEF Poll, Released, GiveUp, Gone, Fate, TypeOK, NoSecondChance, work
<1>12. ASSUME NEW r \in Runs, Crash(r)
     PROVE  NoSecondChance'
  BY <1>12 DEF Crash, TypeOK, NoSecondChance, work
<1>13. CASE UNCHANGED <<task, at, stage, late>>
  BY <1>13 DEF TypeOK, NoSecondChance, work
<1> QED
  BY <1>1, <1>2, <1>3, <1>4, <1>5, <1>6, <1>7, <1>8, <1>9, <1>10, <1>11, <1>12, <1>13
  DEF Next, MakerStep, JobStep, ThreadStep, CancelStep, vars, work, CreateRun, Acquire, Dispatch, JobStart, Converge, Finish, CancelRead, CancelRelease, CancelRefresh, GetRun, Sweep, Expire, Spend, GoQuiet

\* Silence and cancellation are remembered.
LEMMA ReasonStep ==
  ASSUME TypeOK, ReasonToRelease, [Next]_vars
  PROVE  ReasonToRelease'
<1>1. ASSUME NEW r \in Runs, AddTask(r)
     PROVE  ReasonToRelease'
  <2> DEFINE t0 == <<r, maker[r].got>>
  <2>1. task \in [Tasks -> [status: Active \cup Terminal \cup {"none"}, cancel: BOOLEAN]] /\ task' = [task EXCEPT ![t0].status = "queued"]
    BY <1>1 DEF TypeOK, AddTask
  <2> HIDE DEF t0
  <2>2. \A t \in Tasks : task'[t].cancel = task[t].cancel /\ (task[t].status # "none" => task'[t].status # "none")
    BY <2>1
  <2>3. request # None => request.task \in Tasks
    BY DEF TypeOK
  <2>4. QED
    BY <1>1, <2>2, <2>3 DEF AddTask, ReasonToRelease, work
<1>2. ASSUME NEW t \in Tasks, Start(t)
     PROVE  ReasonToRelease'
  BY <1>2, NoneApart, TaskParts
     DEF Start, Goto, TypeOK, ReasonToRelease, work, Active, Terminal
<1>3. ASSUME NEW t \in Tasks, Begin(t)
     PROVE  ReasonToRelease'
  <2>1. quiet' \subseteq quiet /\ UNCHANGED <<silent, request>>
    BY <1>3 DEF Begin, Heartbeat
  <2>2. /\ task \in [Tasks -> [status: Active \cup Terminal \cup {"none"}, cancel: BOOLEAN]]
        /\ at \in [Tasks -> Thread]
    BY DEF TypeOK
  <2>3. task' = [task EXCEPT ![t].status = "running"] /\ \E place : at' = [at EXCEPT ![t] = place]
    BY <1>3 DEF Begin, Update, Heartbeat, Goto
  <2>4. /\ \A u \in Tasks : task'[u].cancel = task[u].cancel
        /\ \A u \in Tasks : task[u].status # "none" => task'[u].status # "none"
        /\ \A u \in Tasks \ {t} : at'[u] = at[u]
        /\ task'[t].status # "none"
    BY <2>2, <2>3
  <2>5. request # None => request.task \in Tasks
    BY DEF TypeOK
  <2> QED
    BY <2>1, <2>4, <2>5 DEF ReasonToRelease
<1>4. ASSUME NEW t \in Tasks, Check(t)
     PROVE  ReasonToRelease'
  BY <1>4, NoneApart, TaskParts
     DEF Check, Goto, TypeOK, ReasonToRelease, work, Active, Terminal
<1>5. ASSUME NEW t \in Tasks, Enter(t)
     PROVE  ReasonToRelease'
  <2>1. quiet' \subseteq quiet /\ UNCHANGED <<silent, request>>
    BY <1>5 DEF Enter, Heartbeat
  <2>2. /\ task \in [Tasks -> [status: Active \cup Terminal \cup {"none"}, cancel: BOOLEAN]]
        /\ at \in [Tasks -> Thread]
    BY DEF TypeOK
  <2>3. task' = [task EXCEPT ![t].status = "running"] /\ \E place : at' = [at EXCEPT ![t] = place]
    BY <1>5 DEF Enter, Update, Heartbeat, Goto
  <2>4. /\ \A u \in Tasks : task'[u].cancel = task[u].cancel
        /\ \A u \in Tasks : task[u].status # "none" => task'[u].status # "none"
        /\ \A u \in Tasks \ {t} : at'[u] = at[u]
        /\ task'[t].status # "none"
    BY <2>2, <2>3
  <2>5. request # None => request.task \in Tasks
    BY DEF TypeOK
  <2> QED
    BY <2>1, <2>4, <2>5 DEF ReasonToRelease
<1>6. ASSUME NEW t \in Tasks, Beat(t)
     PROVE  ReasonToRelease'
  <2>1. quiet' \subseteq quiet /\ UNCHANGED <<silent, request, task>>
    BY <1>6 DEF Beat, Heartbeat
  <2>2. at \in [Tasks -> Thread] /\ at[t] = "work"
    BY <1>6 DEF Beat, TypeOK
  <2>3. \E place : at' = [at EXCEPT ![t] = place]
    BY <1>6 DEF Beat, Heartbeat, Goto
  <2>4. \A u \in Tasks : u = t \/ at'[u] = at[u]
    BY <2>2, <2>3
  <2> QED
    BY <2>1, <2>2, <2>4 DEF ReasonToRelease
<1>7. ASSUME NEW t \in Tasks, Work(t)
     PROVE  ReasonToRelease'
  BY <1>7, NoneApart, TaskParts
     DEF Work, Goto, TypeOK, ReasonToRelease, work, Active, Terminal
<1>8. ASSUME NEW t \in Tasks, End(t)
     PROVE  ReasonToRelease'
  <2>1. UNCHANGED <<quiet, silent, request>>
    BY <1>8 DEF End
  <2>2. /\ task \in [Tasks -> [status: Active \cup Terminal \cup {"none"}, cancel: BOOLEAN]]
        /\ at \in [Tasks -> Thread]
    BY DEF TypeOK
  <2>3. /\ task' = [task EXCEPT ![t].status = at[t]] /\ at' = [at EXCEPT ![t] = "release"]
        /\ at[t] # "none"
    BY <1>8 DEF End, Update, Goto, Terminal
  <2>4. /\ \A u \in Tasks : task'[u].cancel = task[u].cancel
        /\ \A u \in Tasks : task[u].status # "none" => task'[u].status # "none"
        /\ \A u \in Tasks \ {t} : at'[u] = at[u]
        /\ task'[t].status # "none"
    BY <2>2, <2>3
  <2>5. request # None => request.task \in Tasks
    BY DEF TypeOK
  <2> QED
    BY <2>1, <2>4, <2>5 DEF ReasonToRelease
<1>9. ASSUME NEW t \in Tasks, Release(t)
     PROVE  ReasonToRelease'
  BY <1>9, NoneApart, TaskParts
     DEF Release, Goto, Released, TypeOK, ReasonToRelease, work, Active, Terminal
<1>10. ASSUME NEW t \in Tasks, CancelRead(t)
     PROVE  ReasonToRelease'
  BY <1>10, NoneApart, TaskParts
     DEF CancelRead, TypeOK, ReasonToRelease, work, Active, Terminal
<1>11. ASSUME CancelWrite
     PROVE  ReasonToRelease'
  BY <1>11, NoneApart, TaskParts
     DEF CancelWrite, Canceled, TypeOK, ReasonToRelease, work, Active, Terminal
<1>12. ASSUME CancelRelease
     PROVE  ReasonToRelease'
  BY <1>12, NoneApart, TaskParts
     DEF CancelRelease, Released, TypeOK, ReasonToRelease, work, Active, Terminal
<1>13. ASSUME CancelRefresh
     PROVE  ReasonToRelease'
  BY <1>13, NoneApart, TaskParts
     DEF CancelRefresh, TypeOK, ReasonToRelease, work, Active, Terminal
<1>14. ASSUME Poll
     PROVE  ReasonToRelease'
  BY <1>14, NoneApart, TaskParts
     DEF Poll, Released, GiveUp, Gone, Fate, TypeOK, ReasonToRelease, work, Active,
         Terminal
<1>15. ASSUME NEW f \in Files, Expire(f)
     PROVE  ReasonToRelease'
  BY <1>15, NoneApart, TaskParts
     DEF Expire, Spend, TypeOK, ReasonToRelease, work, Active, Terminal
<1>16. ASSUME NEW t \in Tasks, GoQuiet(t)
     PROVE  ReasonToRelease'
  BY <1>16, NoneApart, TaskParts
     DEF GoQuiet, Spend, TypeOK, ReasonToRelease, work, Active, Terminal
<1>17. ASSUME NEW r \in Runs, Crash(r)
     PROVE  ReasonToRelease'
  BY <1>17, NoneApart, TaskParts
     DEF Crash, TypeOK, ReasonToRelease, work, Active, Terminal
<1>18. CASE UNCHANGED <<quiet, silent, task, at, request>>
  BY <1>18 DEF TypeOK, ReasonToRelease, work, Active, Terminal
<1> QED
  BY <1>1, <1>2, <1>3, <1>4, <1>5, <1>6, <1>7, <1>8, <1>9, <1>10, <1>11, <1>12, <1>13, <1>14, <1>15, <1>16, <1>17, <1>18
  DEF Next, MakerStep, JobStep, ThreadStep, CancelStep, vars, work, CreateRun, Acquire, Dispatch, JobStart, Converge, Finish, GetRun, Sweep

\* No step takes the lock of an undisturbed task.
LEMMA HeldStep ==
  ASSUME TypeOK, ReasonToRelease, HeldLockStands, [Next]_vars
  PROVE  HeldLockStands'
<1>1. ASSUME NEW r \in Runs, CreateRun(r)
     PROVE  HeldLockStands'
  BY <1>1, NoneApart, TaskParts
     DEF CreateRun, TypeOK, ReasonToRelease, HeldLockStands, Held, work
<1>2. ASSUME NEW r \in Runs, NEW f \in Files, Acquire(r, f)
     PROVE  HeldLockStands'
  <2> SUFFICES ASSUME NEW u \in Tasks, Held(u)', ~task'[u].cancel, u \notin silent'
               PROVE  lock'[File(u)] = [token |-> u, stale |-> FALSE]
    BY DEF HeldLockStands
  <2>0. UNCHANGED <<task, at, silent>>
    BY <1>2 DEF Acquire, work
  <2>1. CASE Held(u)
    <3>1. lock[File(u)] = [token |-> u, stale |-> FALSE] /\ lock[File(u)].token # None /\ ~lock[File(u)].stale
      BY <2>0, <2>1, NoneApart DEF HeldLockStands
    <3>2. CASE f = File(u)
      BY <1>2, <3>1, <3>2 DEF Acquire
    <3>3. CASE f # File(u)
      <4>1. lock \in [Files -> [token: Tasks \cup {None}, stale: BOOLEAN]]
        BY DEF TypeOK
      <4>2. lock' = lock \/ lock' = [lock EXCEPT ![f] = [token |-> <<r, f>>, stale |-> FALSE]]
        BY <1>2 DEF Acquire
      <4>3. QED
        BY <3>1, <3>3, <4>1, <4>2, TaskParts
    <3>4. QED
      BY <3>2, <3>3
  <2>2. CASE ~Held(u)
    <3>1. maker'[Run(u)].got = File(u) /\ maker[Run(u)].got # File(u)
      BY <2>0, <2>2 DEF Held
    <3>2. maker' = [maker EXCEPT ![r].got = f] /\ lock' = [lock EXCEPT ![f] = [token |-> <<r, f>>, stale |-> FALSE]]
      <4>1. CASE maker' = [maker EXCEPT ![r] = [at |-> "made", todo |-> {}, got |-> None]]
        BY <3>1, <4>1, TaskParts, NoneApart DEF TypeOK
      <4> QED
        BY <1>2, <4>1 DEF Acquire
    <3>3. u = <<r, f>> /\ File(u) = f
      BY <3>1, <3>2, TaskParts DEF TypeOK
    <3>4. QED
      BY <3>2, <3>3 DEF TypeOK
  <2>3. QED
    BY <2>1, <2>2
<1>3. ASSUME NEW r \in Runs, AddTask(r)
     PROVE  HeldLockStands'
  <2> SUFFICES ASSUME NEW u \in Tasks, Held(u)', ~task'[u].cancel, u \notin silent'
               PROVE  lock[File(u)] = [token |-> u, stale |-> FALSE]
    BY <1>3 DEF HeldLockStands, AddTask
  <2> DEFINE t0 == <<r, maker[r].got>>
  <2>1. task \in [Tasks -> [status: Active \cup Terminal \cup {"none"}, cancel: BOOLEAN]] /\ task' = [task EXCEPT ![t0].status = "queued"]
    BY <1>3 DEF TypeOK, AddTask
  <2>2. Run(t0) = r /\ File(t0) = maker[r].got
    BY TaskParts
  <2> HIDE DEF t0
  <2>3. task[u].cancel = task'[u].cancel /\ (u # t0 => task'[u] = task[u])
    BY <2>1
  <2>4. maker'[Run(u)].got = File(u) => maker[Run(u)].got = File(u)
    BY <1>3, TaskParts, NoneApart DEF TypeOK, AddTask
  <2>5. Held(u)
    BY <1>3, <2>2, <2>3, <2>4 DEF Held, AddTask, work
  <2>6. QED
    BY <1>3, <2>3, <2>5 DEF AddTask, HeldLockStands
<1>4. ASSUME NEW r \in Runs, Dispatch(r)
     PROVE  HeldLockStands'
  BY <1>4, NoneApart, TaskParts
     DEF Dispatch, TypeOK, ReasonToRelease, HeldLockStands, Held, work
<1>5. ASSUME NEW t \in Tasks, Start(t)
     PROVE  HeldLockStands'
  BY <1>5, NoneApart, TaskParts
     DEF Start, Goto, TypeOK, ReasonToRelease, HeldLockStands, Held, work
<1>6. ASSUME NEW t \in Tasks, Begin(t)
     PROVE  HeldLockStands'
  BY <1>6, NoneApart, TaskParts
     DEF Begin, Heartbeat, Refused, Touched, Update, Goto, TypeOK, ReasonToRelease,
         HeldLockStands, Held, work
<1>7. ASSUME NEW t \in Tasks, Check(t)
     PROVE  HeldLockStands'
  BY <1>7, NoneApart, TaskParts
     DEF Check, Goto, TypeOK, ReasonToRelease, HeldLockStands, Held, work
<1>8. ASSUME NEW t \in Tasks, Enter(t)
     PROVE  HeldLockStands'
  BY <1>8, NoneApart, TaskParts
     DEF Enter, Heartbeat, Refused, Touched, Update, Goto, TypeOK, ReasonToRelease,
         HeldLockStands, Held, work
<1>9. ASSUME NEW t \in Tasks, Beat(t)
     PROVE  HeldLockStands'
  <2> SUFFICES ASSUME NEW u \in Tasks, Held(u)', ~task'[u].cancel, u \notin silent'
               PROVE  lock'[File(u)] = [token |-> u, stale |-> FALSE]
    BY DEF HeldLockStands
  <2>1. /\ UNCHANGED <<task, maker, silent>> /\ at[t] = "work"
        /\ \A v \in Tasks \ {t} : at'[v] = at[v]
    BY <1>9 DEF Beat, Heartbeat, Goto, TypeOK
  <2>2. Held(u)
    BY <2>1 DEF Held
  <2>3. lock[File(u)] = [token |-> u, stale |-> FALSE]
    BY <2>1, <2>2 DEF HeldLockStands
  <2>4. lock'[File(u)] = lock[File(u)]
    <3>1. CASE Refused(t)
      BY <1>9, <3>1 DEF Beat, Heartbeat
    <3>2. CASE ~Refused(t)
      <4>1. lock' = [lock EXCEPT ![File(t)] = Touched(t)] /\ lock \in [Files -> [token: Tasks \cup {None}, stale: BOOLEAN]]
        BY <1>9, <3>2 DEF Beat, Heartbeat, TypeOK
      <4>2. File(u) = File(t) => Touched(t) = lock[File(t)]
        BY <2>3 DEF Touched
      <4> QED
        BY <4>1, <4>2, TaskParts
    <3> QED
      BY <3>1, <3>2
  <2> QED
    BY <2>3, <2>4
<1>10. ASSUME NEW t \in Tasks, Work(t)
     PROVE  HeldLockStands'
  BY <1>10, NoneApart, TaskParts
     DEF Work, Goto, TypeOK, ReasonToRelease, HeldLockStands, Held, work
<1>11. ASSUME NEW t \in Tasks, End(t)
     PROVE  HeldLockStands'
  <2> SUFFICES ASSUME NEW u \in Tasks, Held(u)', ~task'[u].cancel, u \notin silent'
               PROVE  lock[File(u)] = [token |-> u, stale |-> FALSE]
    BY <1>11 DEF HeldLockStands, End
  <2>1. task[u].cancel = task'[u].cancel
    BY <1>11 DEF End, Update, TypeOK
  <2>2. Held(u)
    BY <1>11 DEF End, Update, Goto, TypeOK, Held, ReasonToRelease, Terminal
  <2>3. QED
    BY <1>11, <2>1, <2>2 DEF End, HeldLockStands
<1>12. ASSUME NEW t \in Tasks, Release(t)
     PROVE  HeldLockStands'
  BY <1>12, NoneApart, TaskParts
     DEF Release, Goto, Released, TypeOK, ReasonToRelease, HeldLockStands, Held,
         work
<1>13. ASSUME CancelWrite
     PROVE  HeldLockStands'
  BY <1>13, NoneApart, TaskParts
     DEF CancelWrite, Canceled, TypeOK, ReasonToRelease, HeldLockStands, Held, work
<1>14. ASSUME CancelRelease
     PROVE  HeldLockStands'
  BY <1>14, NoneApart, TaskParts
     DEF CancelRelease, Released, TypeOK, ReasonToRelease, HeldLockStands, Held,
         work
<1>15. ASSUME Poll
     PROVE  HeldLockStands'
  BY <1>15, NoneApart, TaskParts
     DEF Poll, Released, GiveUp, Gone, Fate, TypeOK, ReasonToRelease,
         HeldLockStands, Held, work
<1>16. ASSUME NEW f \in Files, Sweep(f)
     PROVE  HeldLockStands'
  BY <1>16, NoneApart, TaskParts
     DEF Sweep, TypeOK, ReasonToRelease, HeldLockStands, Held, work
<1>17. ASSUME NEW f \in Files, Expire(f)
     PROVE  HeldLockStands'
  BY <1>17, NoneApart, TaskParts
     DEF Expire, Spend, TypeOK, ReasonToRelease, HeldLockStands, Held, work
<1>18. ASSUME NEW t \in Tasks, GoQuiet(t)
     PROVE  HeldLockStands'
  BY <1>18, NoneApart, TaskParts
     DEF GoQuiet, Spend, TypeOK, ReasonToRelease, HeldLockStands, Held, work
<1>19. ASSUME NEW r \in Runs, Crash(r)
     PROVE  HeldLockStands'
  BY <1>19, NoneApart, TaskParts
     DEF Crash, TypeOK, ReasonToRelease, HeldLockStands, Held, work
<1>20. CASE UNCHANGED <<lock, task, at, silent, maker>>
  BY <1>20 DEF TypeOK, ReasonToRelease, HeldLockStands, Held, work
<1> QED
  BY <1>1, <1>2, <1>3, <1>4, <1>5, <1>6, <1>7, <1>8, <1>9, <1>10, <1>11, <1>12, <1>13, <1>14, <1>15, <1>16, <1>17, <1>18, <1>19, <1>20
  DEF Next, MakerStep, JobStep, ThreadStep, CancelStep, vars, work, JobStart, Converge, Finish, CancelRead, CancelRefresh, GetRun

\* No request makes tasks once it has dispatched, no thread runs before that.
LEMMA OrderStep ==
  ASSUME TypeOK, RunsInOrder, [Next]_vars
  PROVE  RunsInOrder'
<1>1. ASSUME NEW r \in Runs, CreateRun(r)
     PROVE  RunsInOrder'
  BY <1>1, NoneApart, TaskParts
     DEF CreateRun, TypeOK, RunsInOrder, TasksOf, work, Active, Terminal
<1>2. ASSUME NEW r \in Runs, NEW f \in Files, Acquire(r, f)
     PROVE  RunsInOrder'
  <2>1. maker \in [Runs -> [at: {"idle", "making", "made"}, todo: SUBSET Files, got: Files \cup {None}]]
    BY DEF TypeOK
  <2>2. \A q \in Runs : maker'[q].got # None => maker'[q].at = "making" /\ maker'[q].got \in maker'[q].todo
    BY <1>2, <2>1 DEF Acquire, RunsInOrder
  <2>3. \A q \in Runs : maker'[q].at # "made" => maker[q].at # "made"
    BY <1>2, <2>1 DEF Acquire
  <2> QED
    BY <1>2, <2>2, <2>3 DEF Acquire, RunsInOrder, work
<1>3. ASSUME NEW r \in Runs, AddTask(r)
     PROVE  RunsInOrder'
  BY <1>3, NoneApart, TaskParts
     DEF AddTask, TypeOK, RunsInOrder, TasksOf, work, Active, Terminal
<1>4. ASSUME NEW r \in Runs, Dispatch(r)
     PROVE  RunsInOrder'
  BY <1>4, NoneApart, TaskParts
     DEF Dispatch, TypeOK, RunsInOrder, TasksOf, work, Active, Terminal
<1>5. ASSUME NEW r \in Runs, JobStart(r)
     PROVE  RunsInOrder'
  BY <1>5, NoneApart, TaskParts
     DEF JobStart, TypeOK, RunsInOrder, TasksOf, work, Active, Terminal
<1>6. ASSUME NEW t \in Tasks, Start(t)
     PROVE  RunsInOrder'
  BY <1>6, NoneApart, TaskParts
     DEF Start, Goto, TypeOK, RunsInOrder, TasksOf, work, Active, Terminal
<1>7. ASSUME NEW t \in Tasks, Begin(t)
     PROVE  RunsInOrder'
  BY <1>7, NoneApart, TaskParts
     DEF Begin, Heartbeat, Goto, Update, Touched, Refused, TypeOK, RunsInOrder, TasksOf, work, Active, Terminal
<1>8. ASSUME NEW t \in Tasks, Check(t)
     PROVE  RunsInOrder'
  BY <1>8, NoneApart, TaskParts
     DEF Check, Goto, TypeOK, RunsInOrder, TasksOf, work, Active, Terminal
<1>9. ASSUME NEW t \in Tasks, Enter(t)
     PROVE  RunsInOrder'
  BY <1>9, NoneApart, TaskParts
     DEF Enter, Heartbeat, Goto, Update, Touched, Refused, TypeOK, RunsInOrder, TasksOf, work, Active, Terminal
<1>10. ASSUME NEW t \in Tasks, Beat(t)
     PROVE  RunsInOrder'
  BY <1>10, NoneApart, TaskParts
     DEF Beat, Heartbeat, Goto, Touched, Refused, TypeOK, RunsInOrder, TasksOf, work, Active, Terminal
<1>11. ASSUME NEW t \in Tasks, Work(t)
     PROVE  RunsInOrder'
  BY <1>11, NoneApart, TaskParts
     DEF Work, Goto, TypeOK, RunsInOrder, TasksOf, work, Active, Terminal
<1>12. ASSUME NEW t \in Tasks, End(t)
     PROVE  RunsInOrder'
  BY <1>12, NoneApart, TaskParts
     DEF End, Goto, Update, TypeOK, RunsInOrder, TasksOf, work, Active, Terminal
<1>13. ASSUME NEW t \in Tasks, Release(t)
     PROVE  RunsInOrder'
  BY <1>13, NoneApart, TaskParts
     DEF Release, Goto, Released, TypeOK, RunsInOrder, TasksOf, work, Active, Terminal
<1>14. ASSUME NEW r \in Runs, Converge(r)
     PROVE  RunsInOrder'
  BY <1>14, NoneApart, TaskParts
     DEF Converge, TypeOK, RunsInOrder, TasksOf, work, Active, Terminal
<1>15. ASSUME NEW r \in Runs, Finish(r)
     PROVE  RunsInOrder'
  BY <1>15, NoneApart, TaskParts
     DEF Finish, TypeOK, RunsInOrder, TasksOf, work, Active, Terminal
<1>16. ASSUME NEW r \in Runs, Crash(r)
     PROVE  RunsInOrder'
  BY <1>16, NoneApart, TaskParts
     DEF Crash, TypeOK, RunsInOrder, TasksOf, work, Active, Terminal
<1>17. CASE UNCHANGED <<maker, job, at>>
  BY <1>17 DEF RunsInOrder
<1> QED
  BY <1>1, <1>2, <1>3, <1>4, <1>5, <1>6, <1>7, <1>8, <1>9, <1>10, <1>11, <1>12, <1>13, <1>14, <1>15, <1>16, <1>17
     DEF Next, MakerStep, JobStep, ThreadStep, CancelStep, vars, work, GiveUp, CancelRead, CancelWrite, CancelRelease, CancelRefresh, Poll, GetRun, Sweep, Expire, GoQuiet, Spend

\* Locks that were only cleared are owned if none of the rest lost its owner.
LEMMA KeptLocksOwned ==
  ASSUME TypeOK, LocksOwned, faults'.crashes = faults.crashes,
         \A f \in Files : lock'[f].token \in {None, lock[f].token},
         \A f \in Files : \A u \in Tasks : lock'[f].token = u /\ File(u) = f /\ Owned(u) => Owned(u)'
  PROVE  LocksOwned'
<1> SUFFICES ASSUME NEW f \in Files, lock'[f].token # None
             PROVE  File(lock'[f].token) = f /\ (faults'.crashes = 0 => (Owned(lock[f].token))')
  BY DEF LocksOwned
<1> DEFINE u == lock[f].token
<1>1. lock'[f].token = u /\ u \in Tasks
  BY DEF TypeOK
<1>2. File(u) = f /\ (faults.crashes = 0 => Owned(u))
  BY <1>1 DEF LocksOwned
<1> QED
  BY <1>1, <1>2 DEF Owned

\* Who lets a lock be hands it to somebody else who will release it.
LEMMA OwnedStep ==
  ASSUME TypeOK, RunsInOrder, LocksOwned, [Next]_vars
  PROVE  LocksOwned'
<1>1. ASSUME NEW r \in Runs, CreateRun(r)
     PROVE  LocksOwned'
  BY <1>1, NoneApart, TaskParts
     DEF CreateRun, TypeOK, RunsInOrder, LocksOwned, Owned, work, Active, Terminal, Free
<1>2. ASSUME NEW r \in Runs, NEW f \in Files, Acquire(r, f)
     PROVE  LocksOwned'
  <2>0. /\ lock \in [Files -> [token: Tasks \cup {None}, stale: BOOLEAN]]
        /\ maker \in [Runs -> [at: {"idle", "making", "made"}, todo: SUBSET Files, got: Files \cup {None}]]
    BY DEF TypeOK
  <2>1. maker[r].got = None /\ UNCHANGED <<task, at, request, faults>>
    BY <1>2 DEF Acquire, work
  <2>2. \A u \in Tasks : Owned(u) => Owned(u)'
    <3> SUFFICES ASSUME NEW u \in Tasks, Owned(u)
                 PROVE  Owned(u)'
      OBVIOUS
    <3>1. maker[Run(u)].got = File(u) => Run(u) # r
      BY <2>1, TaskParts, NoneApart
    <3>2. Run(u) # r => maker'[Run(u)] = maker[Run(u)]
      BY <1>2, <2>0, TaskParts DEF Acquire
    <3> QED
      BY <2>1, <3>1, <3>2 DEF Owned
  <2>3. CASE UNCHANGED lock
    BY <2>1, <2>2, <2>3, KeptLocksOwned
  <2>4. CASE lock' = [lock EXCEPT ![f] = [token |-> <<r, f>>, stale |-> FALSE]] /\ maker' = [maker EXCEPT ![r].got = f]
    <3> SUFFICES ASSUME NEW g \in Files, lock'[g].token # None
                 PROVE  File(lock'[g].token) = g /\ (faults'.crashes = 0 => (Owned(lock[g].token))')
      BY DEF LocksOwned
    <3>1. CASE g = f
      <4>1. lock'[g].token = <<r, f>> /\ maker'[r].got = f
        BY <2>0, <2>4, <3>1
      <4> QED
        BY <3>1, <4>1, TaskParts DEF Owned
    <3>2. CASE g # f
      <4>1. lock'[g] = lock[g] /\ lock[g].token \in Tasks
        BY <2>0, <2>4, <3>2
      <4> DEFINE u == lock[g].token
      <4>2. File(u) = g /\ (faults.crashes = 0 => Owned(u))
        BY <4>1 DEF LocksOwned
      <4> QED
        BY <2>1, <2>2, <4>1, <4>2 DEF Owned
    <3> QED
      BY <3>1, <3>2
  <2> QED
    BY <1>2, <2>3, <2>4 DEF Acquire
<1>3. ASSUME NEW r \in Runs, AddTask(r)
     PROVE  LocksOwned'
  BY <1>3, NoneApart, TaskParts
     DEF AddTask, TypeOK, RunsInOrder, LocksOwned, Owned, work, Active, Terminal, Free
<1>4. ASSUME NEW r \in Runs, Dispatch(r)
     PROVE  LocksOwned'
  BY <1>4, NoneApart, TaskParts
     DEF Dispatch, TypeOK, RunsInOrder, LocksOwned, Owned, work, Active, Terminal, Free
<1>5. ASSUME NEW t \in Tasks, Start(t)
     PROVE  LocksOwned'
  BY <1>5, NoneApart, TaskParts
     DEF Start, Goto, TypeOK, RunsInOrder, LocksOwned, Owned, work, Active, Terminal, Free
<1>6. ASSUME NEW t \in Tasks, Begin(t)
     PROVE  LocksOwned'
  <2>0. lock \in [Files -> [token: Tasks \cup {None}, stale: BOOLEAN]]
    BY DEF TypeOK
  <2>5. at \in [Tasks -> Thread] /\ task \in [Tasks -> [status: Active \cup Terminal \cup {"none"}, cancel: BOOLEAN]]
    BY DEF TypeOK
  <2>1. \A f \in Files : lock'[f].token \in {None, lock[f].token}
    BY <1>6, <2>0, TaskParts DEF Begin, Heartbeat, Touched, Free
  <2>2. \/ at' = [at EXCEPT ![t] = "check"]
        \/ at' = [at EXCEPT ![t] = "failed"]
    BY <1>6 DEF Begin, Heartbeat, Goto
  <2>3. task' = [task EXCEPT ![t].status = "running"] /\ UNCHANGED <<maker, request>> /\ UNCHANGED faults.crashes
    BY <1>6 DEF Begin, Update
  <2>4. \A f \in Files : \A u \in Tasks : lock'[f].token = u /\ File(u) = f /\ Owned(u) => Owned(u)'
    BY <2>2, <2>3, <2>5 DEF Owned, Active
  <2> QED
    BY <2>1, <2>3, <2>4, KeptLocksOwned
<1>7. ASSUME NEW t \in Tasks, Check(t)
     PROVE  LocksOwned'
  BY <1>7, NoneApart, TaskParts
     DEF Check, Goto, TypeOK, RunsInOrder, LocksOwned, Owned, work, Active, Terminal, Free
<1>8. ASSUME NEW t \in Tasks, Enter(t)
     PROVE  LocksOwned'
  <2>0. lock \in [Files -> [token: Tasks \cup {None}, stale: BOOLEAN]]
    BY DEF TypeOK
  <2>5. at \in [Tasks -> Thread] /\ task \in [Tasks -> [status: Active \cup Terminal \cup {"none"}, cancel: BOOLEAN]]
    BY DEF TypeOK
  <2>1. \A f \in Files : lock'[f].token \in {None, lock[f].token}
    BY <1>8, <2>0, TaskParts DEF Enter, Heartbeat, Touched, Free
  <2>2. \/ at' = [at EXCEPT ![t] = "work"]
        \/ at' = [at EXCEPT ![t] = "failed"]
    BY <1>8 DEF Enter, Heartbeat, Goto
  <2>3. task' = [task EXCEPT ![t].status = "running"] /\ UNCHANGED <<maker, request>> /\ UNCHANGED faults.crashes
    BY <1>8 DEF Enter, Update
  <2>4. \A f \in Files : \A u \in Tasks : lock'[f].token = u /\ File(u) = f /\ Owned(u) => Owned(u)'
    BY <2>2, <2>3, <2>5 DEF Owned, Active
  <2> QED
    BY <2>1, <2>3, <2>4, KeptLocksOwned
<1>9. ASSUME NEW t \in Tasks, Beat(t)
     PROVE  LocksOwned'
  <2>0. lock \in [Files -> [token: Tasks \cup {None}, stale: BOOLEAN]]
    BY DEF TypeOK
  <2>5. at \in [Tasks -> Thread] /\ task \in [Tasks -> [status: Active \cup Terminal \cup {"none"}, cancel: BOOLEAN]]
    BY DEF TypeOK
  <2>1. \A f \in Files : lock'[f].token \in {None, lock[f].token}
    BY <1>9, <2>0, TaskParts DEF Beat, Heartbeat, Touched, Free
  <2>2. \/ at' = [at EXCEPT ![t] = "work"]
        \/ at' = [at EXCEPT ![t] = "failed"]
    BY <1>9 DEF Beat, Heartbeat, Goto
  <2>3. task' = task /\ UNCHANGED <<maker, request>> /\ UNCHANGED faults.crashes
    BY <1>9 DEF Beat
  <2>4. \A f \in Files : \A u \in Tasks : lock'[f].token = u /\ File(u) = f /\ Owned(u) => Owned(u)'
    BY <2>2, <2>3, <2>5 DEF Owned, Active
  <2> QED
    BY <2>1, <2>3, <2>4, KeptLocksOwned
<1>10. ASSUME NEW t \in Tasks, Work(t)
     PROVE  LocksOwned'
  BY <1>10, NoneApart, TaskParts
     DEF Work, Goto, TypeOK, RunsInOrder, LocksOwned, Owned, work, Active, Terminal, Free
<1>11. ASSUME NEW t \in Tasks, End(t)
     PROVE  LocksOwned'
  BY <1>11, NoneApart, TaskParts
     DEF End, Goto, Update, TypeOK, RunsInOrder, LocksOwned, Owned, work, Active, Terminal, Free
<1>12. ASSUME NEW t \in Tasks, Release(t)
     PROVE  LocksOwned'
  BY <1>12, NoneApart, TaskParts
     DEF Release, Goto, Released, TypeOK, RunsInOrder, LocksOwned, Owned, work, Active, Terminal, Free
<1>13. ASSUME NEW t \in Tasks, CancelRead(t)
     PROVE  LocksOwned'
  BY <1>13, NoneApart, TaskParts
     DEF CancelRead, TypeOK, RunsInOrder, LocksOwned, Owned, work, Active, Terminal, Free
<1>14. ASSUME CancelWrite
     PROVE  LocksOwned'
  <2>0. lock \in [Files -> [token: Tasks \cup {None}, stale: BOOLEAN]]
    BY DEF TypeOK
  <2>5. at \in [Tasks -> Thread] /\ task \in [Tasks -> [status: Active \cup Terminal \cup {"none"}, cancel: BOOLEAN]]
    BY DEF TypeOK
  <2>1. request.task \in Tasks /\ request.seen \in Active
    BY <1>14 DEF CancelWrite, TypeOK
  <2>2. \A u \in Tasks : Owned(u) => Owned(u)'
    <3> SUFFICES ASSUME NEW u \in Tasks, Owned(u)
                 PROVE  Owned(u)'
      OBVIOUS
    <3>1. UNCHANGED <<at, maker>>
      BY <1>14 DEF CancelWrite, work
    <3>2. CASE u # request.task
      <4>1. task'[u] = task[u]
        BY <1>14, <2>5, <3>2 DEF CancelWrite
      <4> QED
        BY <1>14, <3>1, <3>2, <4>1 DEF Owned, CancelWrite
    <3>3. CASE u = request.task
      <4>1. task'[u].status = Canceled(u, request.seen).status
        BY <1>14, <2>5, <3>3 DEF CancelWrite
      <4>2. CASE request.seen = "queued"
        <5>1. request \in [task: Tasks, seen: Active, at: {"write", "release", "refresh"}]
          BY <1>14 DEF CancelWrite, TypeOK
        <5>2. request' = [request EXCEPT !.at = "release"]
          BY <1>14, <4>2 DEF CancelWrite
        <5>3. request' # None
          BY <5>1, <5>2, PretranslationAssumption
        <5> QED
          BY <3>3, <5>1, <5>2, <5>3 DEF Owned
      <4>3. CASE request.seen = "running"
        BY <4>1, <4>3 DEF Canceled, Owned, Active
      <4>4. CASE request.seen = "canceling"
        <5>1. task'[u].status = task[u].status
          BY <4>1, <4>4 DEF Canceled
        <5> QED
          BY <1>14, <3>1, <5>1 DEF Owned, CancelWrite
      <4> QED
        BY <2>1, <4>2, <4>3, <4>4 DEF Active
    <3> QED
      BY <3>2, <3>3
  <2> QED
    BY <1>14, <2>2, KeptLocksOwned DEF CancelWrite
<1>15. ASSUME CancelRelease
     PROVE  LocksOwned'
  <2>0. lock \in [Files -> [token: Tasks \cup {None}, stale: BOOLEAN]]
    BY DEF TypeOK
  <2>5. at \in [Tasks -> Thread] /\ task \in [Tasks -> [status: Active \cup Terminal \cup {"none"}, cancel: BOOLEAN]]
    BY DEF TypeOK
  <2>1. request.task \in Tasks /\ File(request.task) \in Files
    BY <1>15, TaskParts DEF CancelRelease, TypeOK
  <2>2. \A f \in Files : lock'[f].token \in {None, lock[f].token}
    BY <1>15, <2>0, <2>1 DEF CancelRelease, Released, Free
  <2>3. \A f \in Files : \A u \in Tasks : lock'[f].token = u /\ File(u) = f => u # request.task
    BY <1>15, <2>0, <2>1, NoneApart DEF CancelRelease, Released, Free
  <2>4. \A f \in Files : \A u \in Tasks : lock'[f].token = u /\ File(u) = f /\ Owned(u) => Owned(u)'
    BY <1>15, <2>3 DEF CancelRelease, Owned, work
  <2> QED
    BY <1>15, <2>2, <2>4, KeptLocksOwned DEF CancelRelease
<1>16. ASSUME CancelRefresh
     PROVE  LocksOwned'
  BY <1>16, NoneApart, TaskParts
     DEF CancelRefresh, TypeOK, RunsInOrder, LocksOwned, Owned, work, Active, Terminal, Free
<1>17. ASSUME Poll
     PROVE  LocksOwned'
  <2>0. lock \in [Files -> [token: Tasks \cup {None}, stale: BOOLEAN]]
    BY DEF TypeOK
  <2>5. at \in [Tasks -> Thread] /\ task \in [Tasks -> [status: Active \cup Terminal \cup {"none"}, cancel: BOOLEAN]]
    BY DEF TypeOK
  <2>1. \A f \in Files : lock'[f].token \in {None, lock[f].token}
    BY <1>17, <2>0 DEF Poll, GiveUp, Free
  <2>2. \A f \in Files : \A u \in Tasks : lock'[f].token = u /\ File(u) = f => u \notin Gone
    <3> SUFFICES ASSUME NEW f \in Files, NEW u \in Gone, u \in Tasks, lock'[f].token = u, File(u) = f
                 PROVE  FALSE
      OBVIOUS
    <3>1. lock[f].token = u
      BY <2>1, NoneApart
    <3>2. Released(u) = Free
      BY <3>1 DEF Released
    <3>3. lock'[f] = Free
      BY <1>17, <3>2 DEF Poll, GiveUp
    <3> QED
      BY <3>3, NoneApart DEF Free
  <2>3. \A u \in Tasks : u \notin Gone => task'[u] = task[u]
    BY <1>17 DEF Poll, GiveUp
  <2>4. \A f \in Files : \A u \in Tasks : lock'[f].token = u /\ File(u) = f /\ Owned(u) => Owned(u)'
    BY <1>17, <2>2, <2>3 DEF Poll, GiveUp, Owned, work
  <2> QED
    BY <1>17, <2>1, <2>4, KeptLocksOwned DEF Poll, GiveUp
<1>18. ASSUME NEW f \in Files, Sweep(f)
     PROVE  LocksOwned'
  BY <1>18, NoneApart, TaskParts
     DEF Sweep, TypeOK, RunsInOrder, LocksOwned, Owned, work, Active, Terminal, Free
<1>19. ASSUME NEW f \in Files, Expire(f)
     PROVE  LocksOwned'
  BY <1>19, NoneApart, TaskParts
     DEF Expire, Spend, TypeOK, RunsInOrder, LocksOwned, Owned, work, Active, Terminal, Free
<1>20. ASSUME NEW r \in Runs, Crash(r)
     PROVE  LocksOwned'
  BY <1>20, NoneApart, TaskParts
     DEF Crash, TypeOK, RunsInOrder, LocksOwned, Owned, work, Active, Terminal, Free
<1>21. ASSUME NEW t \in Tasks, GoQuiet(t)
     PROVE  LocksOwned'
  <2>1. faults'.crashes = faults.crashes
    BY <1>21 DEF GoQuiet, Spend, TypeOK
  <2> QED
    BY <1>21, <2>1 DEF GoQuiet, LocksOwned, Owned, work
<1>22. CASE UNCHANGED <<task, lock, maker, at, request, faults>>
  BY <1>22 DEF LocksOwned, Owned
<1> QED
  BY <1>1, <1>2, <1>3, <1>4, <1>5, <1>6, <1>7, <1>8, <1>9, <1>10, <1>11, <1>12, <1>13, <1>14, <1>15, <1>16, <1>17, <1>18, <1>19, <1>20, <1>21, <1>22
     DEF Next, MakerStep, JobStep, ThreadStep, CancelStep, vars, work, GiveUp, JobStart, Converge, Finish, GetRun, Spend

\* What disturbs a task is remembered.
LEMMA DisturbedStays ==
  ASSUME TypeOK, [Next]_vars, NEW u \in Tasks
  PROVE  (task[u].cancel => task'[u].cancel) /\ (u \in silent => u \in silent')
<1>1. ASSUME NEW r \in Runs, AddTask(r)
     PROVE  (task[u].cancel => task'[u].cancel) /\ (u \in silent => u \in silent')
  BY <1>1, TaskParts
     DEF AddTask, TypeOK, work
<1>2. ASSUME NEW t \in Tasks, Begin(t)
     PROVE  (task[u].cancel => task'[u].cancel) /\ (u \in silent => u \in silent')
  BY <1>2, TaskParts
     DEF Begin, Heartbeat, Goto, Update, Touched, Refused, TypeOK, work
<1>3. ASSUME NEW t \in Tasks, Enter(t)
     PROVE  (task[u].cancel => task'[u].cancel) /\ (u \in silent => u \in silent')
  BY <1>3, TaskParts
     DEF Enter, Heartbeat, Goto, Update, Touched, Refused, TypeOK, work
<1>4. ASSUME NEW t \in Tasks, End(t)
     PROVE  (task[u].cancel => task'[u].cancel) /\ (u \in silent => u \in silent')
  BY <1>4, TaskParts
     DEF End, Goto, Update, TypeOK, work
<1>5. ASSUME CancelWrite
     PROVE  (task[u].cancel => task'[u].cancel) /\ (u \in silent => u \in silent')
  BY <1>5, TaskParts
     DEF CancelWrite, Canceled, TypeOK, work
<1>6. ASSUME Poll
     PROVE  (task[u].cancel => task'[u].cancel) /\ (u \in silent => u \in silent')
  BY <1>6, TaskParts
     DEF Poll, GiveUp, Gone, Fate, Released, TypeOK, work
<1>7. ASSUME NEW f \in Files, Expire(f)
     PROVE  (task[u].cancel => task'[u].cancel) /\ (u \in silent => u \in silent')
  BY <1>7, TaskParts
     DEF Expire, Spend, TypeOK, work
<1>8. ASSUME NEW t \in Tasks, GoQuiet(t)
     PROVE  (task[u].cancel => task'[u].cancel) /\ (u \in silent => u \in silent')
  BY <1>8, TaskParts
     DEF GoQuiet, Spend, TypeOK, work
<1>9. CASE UNCHANGED <<task, silent>>
  BY <1>9 DEF work
<1> QED
  BY <1>1, <1>2, <1>3, <1>4, <1>5, <1>6, <1>7, <1>8, <1>9
     DEF Next, MakerStep, JobStep, ThreadStep, CancelStep, vars, work, GiveUp, CreateRun, Acquire, Dispatch, JobStart, Start, Check, Beat, Work, Release, Converge, Finish, CancelRead, CancelRelease, CancelRefresh, GetRun, Sweep, Crash, Spend

\* Only a thread, a cancellation or a poll changes the status of a task.
LEMMA WaitStep ==
  ASSUME TypeOK, ReasonToRelease, WaitsForThread, [Next]_vars
  PROVE  WaitsForThread'
<1>1. ASSUME NEW r \in Runs, AddTask(r)
     PROVE  WaitsForThread'
  BY <1>1, TaskParts
     DEF AddTask, TypeOK, ReasonToRelease, WaitsForThread, work, Terminal, Active
<1>2. ASSUME NEW t \in Tasks, Start(t)
     PROVE  WaitsForThread'
  BY <1>2, TaskParts
     DEF Start, Goto, TypeOK, ReasonToRelease, WaitsForThread, work, Terminal, Active
<1>3. ASSUME NEW t \in Tasks, Begin(t)
     PROVE  WaitsForThread'
  BY <1>3, TaskParts
     DEF Begin, Heartbeat, Goto, Update, Touched, Refused, TypeOK, ReasonToRelease, WaitsForThread, work, Terminal, Active
<1>4. ASSUME NEW t \in Tasks, Check(t)
     PROVE  WaitsForThread'
  BY <1>4, TaskParts
     DEF Check, Goto, TypeOK, ReasonToRelease, WaitsForThread, work, Terminal, Active
<1>5. ASSUME NEW t \in Tasks, Enter(t)
     PROVE  WaitsForThread'
  BY <1>5, TaskParts
     DEF Enter, Heartbeat, Goto, Update, Touched, Refused, TypeOK, ReasonToRelease, WaitsForThread, work, Terminal, Active
<1>6. ASSUME NEW t \in Tasks, Beat(t)
     PROVE  WaitsForThread'
  BY <1>6, TaskParts
     DEF Beat, Heartbeat, Goto, Touched, Refused, TypeOK, ReasonToRelease, WaitsForThread, work, Terminal, Active
<1>7. ASSUME NEW t \in Tasks, Work(t)
     PROVE  WaitsForThread'
  BY <1>7, TaskParts
     DEF Work, Goto, TypeOK, ReasonToRelease, WaitsForThread, work, Terminal, Active
<1>8. ASSUME NEW t \in Tasks, End(t)
     PROVE  WaitsForThread'
  BY <1>8, TaskParts
     DEF End, Goto, Update, TypeOK, ReasonToRelease, WaitsForThread, work, Terminal, Active
<1>9. ASSUME NEW t \in Tasks, Release(t)
     PROVE  WaitsForThread'
  BY <1>9, TaskParts
     DEF Release, Goto, Released, TypeOK, ReasonToRelease, WaitsForThread, work, Terminal, Active
<1>10. ASSUME CancelWrite
     PROVE  WaitsForThread'
  BY <1>10, TaskParts
     DEF CancelWrite, Canceled, TypeOK, ReasonToRelease, WaitsForThread, work, Terminal, Active
<1>11. ASSUME Poll
     PROVE  WaitsForThread'
  BY <1>11, TaskParts
     DEF Poll, GiveUp, Gone, Fate, Released, TypeOK, ReasonToRelease, WaitsForThread, work, Terminal, Active
<1>12. ASSUME NEW f \in Files, Expire(f)
     PROVE  WaitsForThread'
  BY <1>12, TaskParts
     DEF Expire, Spend, TypeOK, ReasonToRelease, WaitsForThread, work, Terminal, Active
<1>13. ASSUME NEW t \in Tasks, GoQuiet(t)
     PROVE  WaitsForThread'
  BY <1>13, TaskParts
     DEF GoQuiet, Spend, TypeOK, ReasonToRelease, WaitsForThread, work, Terminal, Active
<1>14. ASSUME NEW r \in Runs, Crash(r)
     PROVE  WaitsForThread'
  BY <1>14, TaskParts
     DEF Crash, TypeOK, ReasonToRelease, WaitsForThread, work, Terminal, Active
<1>15. CASE UNCHANGED <<task, at, silent>>
  BY <1>15 DEF WaitsForThread
<1> QED
  BY <1>1, <1>2, <1>3, <1>4, <1>5, <1>6, <1>7, <1>8, <1>9, <1>10, <1>11, <1>12, <1>13, <1>14, <1>15
     DEF Next, MakerStep, JobStep, ThreadStep, CancelStep, vars, work, GiveUp, CreateRun, Acquire, Dispatch, JobStart, Converge, Finish, CancelRead, CancelRelease, CancelRefresh, GetRun, Sweep, Spend

\* A refresh that does not finalise leaves an open run open.
LEMMA RefreshedOpen ==
  ASSUME NEW r, NEW tk, run[r] \notin Terminal
  PROVE  Refreshed(r, tk, FALSE) \notin Terminal
BY DEF Refreshed, Terminal

\* A refresh that meets a task that waits leaves the run open.
LEMMA RefreshedWaits ==
  ASSUME NEW r, NEW tk, NEW final, NEW t \in TasksOf(r), tk[t].status = "queued"
  PROVE  Refreshed(r, tk, final) \notin Terminal
BY DEF Refreshed, Terminal

\* While the files of an undisturbed run are worked on, nobody finalises it.
LEMMA RunStep ==
  ASSUME TypeOK, ReasonToRelease, RunsInOrder, [Next]_vars,
         NEW q \in Runs, Undisturbed(q), job[q] = "files", job'[q] = "files"
  PROVE  run'[q] \in {run[q], Refreshed(q, task, FALSE), Refreshed(q, task', FALSE)}
<1> DEFINE Result == run'[q] \in {run[q], Refreshed(q, task, FALSE), Refreshed(q, task', FALSE)}
<1>1. /\ run \in [Runs -> Active \cup Terminal \cup {"none"}]
      /\ job \in [Runs -> {"none", "queued", "files", "finish", "amiss", "done", "lost"}]
  BY DEF TypeOK
<1>2. maker[q].at = "made"
  BY DEF RunsInOrder
<1>3. ASSUME NEW t \in Tasks, run' = [run EXCEPT ![Run(t)] = Refreshed(Run(t), task, FALSE)]
      PROVE  Result
  BY <1>1, <1>3
<1>4. ASSUME NEW t \in Tasks, run' = [run EXCEPT ![Run(t)] = Refreshed(Run(t), task', FALSE)]
      PROVE  Result
  BY <1>1, <1>4
<1>5. ASSUME NEW r \in Runs, CreateRun(r) \/ Dispatch(r) \/ JobStart(r) \/ Finish(r) \/ GetRun(r)
      PROVE  Result
  BY <1>1, <1>2, <1>5 DEF CreateRun, Dispatch, JobStart, Finish, GetRun
<1>6. ASSUME NEW t \in Tasks, Begin(t) \/ Enter(t) \/ End(t)
      PROVE  Result
  BY <1>4, <1>6 DEF Begin, Enter, End, Update
<1>7. ASSUME NEW t \in Tasks, Beat(t)
      PROVE  Result
  BY <1>3, <1>7 DEF Beat
<1>8. CASE CancelRefresh
  <2>1. request.task \in Tasks /\ task[request.task].cancel
    BY <1>8 DEF CancelRefresh, TypeOK, ReasonToRelease
  <2>2. Run(request.task) # q
    BY <2>1 DEF Undisturbed, TasksOf
  <2>3. QED
    BY <1>1, <1>8, <2>2 DEF CancelRefresh
<1>9. CASE Poll
  <2>1. Gone \cap TasksOf(q) = {}
    BY DEF Gone, ReasonToRelease, Undisturbed
  <2>2. QED
    BY <1>9, <2>1 DEF Poll
<1>10. CASE UNCHANGED run
  BY <1>10
<1> QED
  BY <1>5, <1>6, <1>7, <1>8, <1>9, <1>10
     DEF Next, MakerStep, JobStep, ThreadStep, CancelStep, vars, AddTask, Acquire, Start, Check, Work,
         Release, Converge, CancelRead, CancelWrite, CancelRelease, Sweep, Expire, GoQuiet, Crash

\* The tasks of a run whose job waits or runs are there already.
LEMMA NoNewTasks ==
  ASSUME TypeOK, ReasonToRelease, RunsInOrder, [Next]_vars,
         NEW t \in Tasks, job[Run(t)] # "none", task[t].status = "none"
  PROVE  task'[t].status = "none"
<1>1. task \in [Tasks -> [status: Active \cup Terminal \cup {"none"}, cancel: BOOLEAN]]
  BY DEF TypeOK
<1>2. at[t] \in {"idle", "lost"} /\ maker[Run(t)].at = "made"
  BY TaskParts DEF ReasonToRelease, RunsInOrder
<1>3. ASSUME NEW r \in Runs, AddTask(r)
      PROVE  task'[t].status = "none"
  <2> DEFINE new == <<r, maker[r].got>>
  <2>1. new # t
    BY <1>2, <1>3, TaskParts DEF AddTask, RunsInOrder
  <2>2. task' = [task EXCEPT ![new].status = "queued"]
    BY <1>3 DEF AddTask
  <2> HIDE DEF new
  <2> QED
    BY <1>1, <2>1, <2>2
<1>4. ASSUME NEW u \in Tasks, Begin(u) \/ Enter(u) \/ End(u)
      PROVE  task'[t].status = "none"
  <2>1. u # t
    BY <1>2, <1>4 DEF Begin, Enter, End, Terminal
  <2>2. \E status : task' = [task EXCEPT ![u].status = status]
    BY <1>4 DEF Begin, Enter, End, Update
  <2> QED
    BY <1>1, <2>1, <2>2
<1>5. CASE CancelWrite
  <2>1. request.task # t
    BY <1>5 DEF CancelWrite, ReasonToRelease
  <2> QED
    BY <1>1, <1>5, <2>1 DEF CancelWrite
<1>6. CASE Poll
  BY <1>6 DEF Poll, GiveUp, Gone, Active
<1>7. CASE UNCHANGED task
  BY <1>7
<1> QED
  BY <1>3, <1>4, <1>5, <1>6, <1>7
     DEF Next, MakerStep, JobStep, ThreadStep, CancelStep, vars, CreateRun, Acquire, Dispatch, JobStart,
         Start, Check, Beat, Work, Release, Converge, Finish, CancelRead, CancelRelease, CancelRefresh,
         GetRun, Sweep, Expire, GoQuiet, Crash

\* An undisturbed run is finalised by its job alone.
LEMMA OpenStep ==
  ASSUME TypeOK, ReasonToRelease, RunsInOrder, WaitsForThread, OpenUntilConverged, [Next]_vars
  PROVE  OpenUntilConverged'
<1> SUFFICES ASSUME NEW q \in Runs, Undisturbed(q)', job'[q] = "files", Made(q)' # {}
             PROVE  run'[q] \notin Terminal
  BY DEF OpenUntilConverged
<1>0. \A t \in TasksOf(q) : t \in Tasks /\ Run(t) = q
  BY DEF TasksOf
<1>1. Undisturbed(q)
  BY DisturbedStays DEF Undisturbed, TasksOf
<1>2. CASE job[q] = "files"
  <2>1. Made(q) # {}
    BY <1>0, <1>2, NoNewTasks DEF Made
  <2>2. run[q] \notin Terminal
    BY <1>1, <1>2, <2>1 DEF OpenUntilConverged
  <2>3. QED
    BY <1>1, <1>2, <2>2, RunStep, RefreshedOpen
<1>3. CASE job[q] # "files"
  <2>1. JobStart(q)
    <3>1. job \in [Runs -> {"none", "queued", "files", "finish", "amiss", "done", "lost"}]
      BY DEF TypeOK
    <3>2. ASSUME NEW r \in Runs, Dispatch(r) \/ (JobStart(r) /\ r # q) \/ Converge(r) \/ Finish(r) \/ Crash(r)
          PROVE  job'[q] # "files"
      BY <1>3, <3>1, <3>2 DEF Dispatch, JobStart, Converge, Finish, Crash, work
    <3>3. job' # job
      BY <1>3
    <3> QED
      BY <3>2, <3>3
         DEF Next, MakerStep, JobStep, ThreadStep, CancelStep, vars, work, CreateRun, Acquire, AddTask,
             Start, Begin, Check, Enter, Beat, Work, End, Release, CancelRead, CancelWrite,
             CancelRelease, CancelRefresh, Poll, GiveUp, GetRun, Sweep, Expire, GoQuiet
  <2>2. PICK t \in TasksOf(q) : task[t].status # "none"
    BY <2>1 DEF JobStart, Made, TasksOf, Tasks
  <2>3. at[t] = "idle"
    BY <2>1, <2>2 DEF RunsInOrder, JobStart
  <2>4. task[t].status = "queued"
    BY <1>1, <2>2, <2>3 DEF WaitsForThread, Undisturbed, TasksOf
  <2>5. QED
    BY <2>1, <2>4, RefreshedWaits DEF JobStart, TypeOK
<1> QED
  BY <1>2, <1>3

-----------------------------------------------------------------------------
LEMMA NextInv == Inv /\ [Next]_vars => Inv'
BY TypeStep, ChanceStep, ReasonStep, HeldStep, OrderStep, OwnedStep, WaitStep, OpenStep DEF Inv

LEMMA Invariant == Spec => []Inv
BY InitInv, NextInv, PTL DEF Spec

\* Every reachable state of the runs, tasks, locks and threads is well typed.
THEOREM PretranslationTypeCorrect == Spec => []TypeOK
<1>1. Inv => TypeOK
  BY DEF Inv
<1> QED
  BY Invariant, <1>1, PTL

\* A task at work that was not cancelled and never timed out holds the live
\* lock of its file, for any number of runs on any files.
THEOREM WorkersKeepTheirFiles == Spec => []WorkerKeepsFile
<1>1. Inv => WorkerKeepsFile
  <2> SUFFICES ASSUME Inv, NEW t \in Tasks, at[t] = "work", ~task[t].cancel, t \notin silent
               PROVE  lock[File(t)] = [token |-> t, stale |-> FALSE]
    BY DEF WorkerKeepsFile
  <2>1. Held(t)
    BY DEF Inv, ReasonToRelease, Held
  <2> QED
    BY <2>1 DEF Inv, HeldLockStands
<1> QED
  BY Invariant, <1>1, PTL

\* A cancelled task enters at most one more stage, whatever the other
\* requests write to its row.
THEOREM CancellationIsHonoured == Spec => []CancelHonoured
<1>1. Inv => CancelHonoured
  BY DEF Inv, NoSecondChance, CancelHonoured
<1> QED
  BY Invariant, <1>1, PTL

\* Unless a process has died, every lock has somebody who will release it,
\* also while a cancellation, a poll and the thread of its task overlap.
THEOREM LocksHaveOwners == Spec => []LockHasOwner
<1>1. Inv => LockHasOwner
  <2> SUFFICES ASSUME Inv, NEW f \in Files, lock[f].token # None, faults.crashes = 0
               PROVE  LET t == lock[f].token
                      IN \/ task[t].status \in Active
                         \/ at[t] # "done" /\ ~Abandoned(t)
                         \/ maker[Run(t)].got = f
                         \/ request # None /\ request.task = t /\ request.at = "release"
    BY DEF LockHasOwner
  <2>1. File(lock[f].token) = f /\ Owned(lock[f].token)
    BY DEF Inv, LocksOwned
  <2> QED
    BY <2>1 DEF Owned, Abandoned
<1> QED
  BY Invariant, <1>1, PTL

\* A run of which no task was cancelled or timed out, and which has files to
\* converge, has not been announced as ended.
THEOREM UndisturbedRunsConvergeFirst == Spec => []FinalMeansConvergedUndisturbed
<1>1. Inv => FinalMeansConvergedUndisturbed
  <2> SUFFICES ASSUME Inv, NEW r \in Runs, job[r] = "files", Cardinality(Completed(r)) >= 2,
                      \A t \in TasksOf(r) : ~task[t].cancel /\ t \notin silent
               PROVE  run[r] \notin Terminal
    BY DEF FinalMeansConvergedUndisturbed
  <2>1. Completed(r) # {}
    <3> SUFFICES ASSUME Completed(r) = {} PROVE FALSE
      OBVIOUS
    <3>1. Cardinality(Completed(r)) = 0
      BY FS_EmptySet
    <3> QED
      BY <3>1
  <2>2. Made(r) # {}
    BY <2>1 DEF Made, Completed
  <2> QED
    BY <2>2 DEF Inv, OpenUntilConverged, Undisturbed
<1> QED
  BY Invariant, <1>1, PTL
=============================================================================
