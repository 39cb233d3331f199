----------------------------- MODULE AutoTM_proofs -----------------------------
(***************************************************************************)
(* What holds of auto-TM for any number of segments, users and passes: the *)
(* types, that a completed row has arrived, and that a match older than    *)
(* the memory is registered.                                               *)
(***************************************************************************)
EXTENDS AutoTM, FiniteSetTheorems, TLAPS

\* A row that a confirmation has read is not removed.
SeenExists ==
  \A u \in Users : request[u] # None =>
    \A s \in Segments : request[u].seen[s].status # "none" => row[s].status # "none"

\* The text a pass is about to write is that of the row.
ReadCurrent ==
  \A w \in Slots, s \in Segments :
    slot[w].at = "write" /\ s \in slot[w].rows /\ s \notin raced => slot[w].read[s] = row[s].text

\* The match a pass is about to apply is that of the memory, and will be applied
\* unless another pass was faster.
MatchCurrent ==
  \A w \in Slots : slot[w].at = "apply" /\ ~missed =>
    /\ slot[w].match.text = tm
    /\ slot[w].match.version = open.version \/ open.text = tm

\* A pass has only rows that exist.
HeldExists == \A w \in Slots : \A s \in slot[w].rows : row[s].status # "none"

TypeInv == TypeOK /\ SeenExists /\ HeldExists

-----------------------------------------------------------------------------
\* The bounds are numbers.
LEMMA Bounds ==
  /\ MaxBatches \in Nat /\ MaxAttempts \in Nat /\ Batch \in Nat
  /\ MaxConfirms \in Nat /\ MaxEdits \in Nat /\ MaxFaults \in Nat /\ MaxCrashes \in Nat
  /\ Cardinality(Segments) \in Nat
  BY AutoTMAssumption, FS_CardinalityType

\* What is counted stays within its bound.
LEMMA Counted ==
  ASSUME TypeOK, Confirms \/ Edits \/ Faults \/ Crashes
  PROVE  count' \in [confirm: 0..MaxConfirms, edit: 0..MaxEdits, fault: 0..MaxFaults, crash: 0..MaxCrashes]
<1> DEFINE C == [confirm: 0..MaxConfirms, edit: 0..MaxEdits, fault: 0..MaxFaults, crash: 0..MaxCrashes]
<1>1. count \in C
  BY DEF TypeOK
<1>2. CASE Confirms
  BY <1>1, <1>2, Bounds DEF Confirms
<1>3. CASE Edits
  BY <1>1, <1>3, Bounds DEF Edits
<1>4. CASE Faults
  BY <1>1, <1>4, Bounds DEF Faults
<1>5. CASE Crashes
  BY <1>1, <1>5, Bounds DEF Crashes
<1> QED BY <1>2, <1>3, <1>4, <1>5

\* A thread without a pass.
LEMMA IdleOK == Idle \in Pass /\ PassOK(Idle)
  BY Bounds DEF Idle, Pass, PassOK

\* One pass is replaced.
LEMMA PassReplaced ==
  ASSUME slot \in [Slots -> Pass], \A w \in Slots : PassOK(slot[w]),
         NEW w \in Slots, NEW p \in Pass, PassOK(p), slot' = [slot EXCEPT ![w] = p]
  PROVE  slot' \in [Slots -> Pass] /\ \A v \in Slots : PassOK(slot'[v])
  OBVIOUS

\* A step that changes rows, but makes none and takes only those that exist.
LEMMA RowsKept ==
  ASSUME TypeInv, UNCHANGED <<age, request>>,
         NEW f, row' = [s \in Segments |-> f[s]],
         \A s \in Segments : /\ f[s] \in Row
                             /\ f[s].status = "none" <=> row[s].status = "none"
                             /\ f[s].status = "failed" => f[s].attempts >= MaxAttempts,
         NEW w \in Slots, NEW p \in Pass, slot' = [slot EXCEPT ![w] = p], PassOK(p),
         \A s \in p.rows : row[s].status # "none"
  PROVE  /\ RowsOK' /\ SeenExists' /\ HeldExists'
         /\ slot' \in [Slots -> Pass] /\ \A v \in Slots : PassOK(slot'[v])
<1>1. RowsOK' /\ SeenExists'
  BY DEF TypeInv, TypeOK, RowsOK, SeenExists
<1>2. slot' \in [Slots -> Pass] /\ \A v \in Slots : PassOK(slot'[v])
  BY PassReplaced DEF TypeInv, TypeOK
<1>3. \A v \in Slots : slot[v].rows \subseteq Segments /\ p.rows \subseteq Segments
  BY DEF TypeInv, TypeOK, Pass
<1>4. HeldExists'
  BY <1>3 DEF TypeInv, TypeOK, HeldExists
<1> QED BY <1>1, <1>2, <1>4

\* The tables are empty at first.
LEMMA TypeInit == Init => TypeInv
<1> SUFFICES ASSUME Init PROVE TypeInv
  OBVIOUS
<1>1. RowsOK
  BY Bounds DEF Init, RowsOK, NoRow, Row
<1>2. slot \in [Slots -> Pass] /\ \A w \in Slots : PassOK(slot[w])
  BY IdleOK DEF Init
<1>3. count \in [confirm: 0..MaxConfirms, edit: 0..MaxEdits, fault: 0..MaxFaults, crash: 0..MaxCrashes]
  BY Bounds DEF Init
<1>4. TypeOK
  BY <1>1, <1>2, <1>3 DEF Init, TypeOK, Queue
<1>5. SeenExists
  BY DEF Init, SeenExists
<1>6. HeldExists
  BY DEF Init, HeldExists, Idle
<1> QED BY <1>4, <1>5, <1>6 DEF TypeInv

\* Confirmations: what a commit stores is a row.
LEMMA TypeRequests ==
  ASSUME TypeInv, NEW u \in Users, Requests(u) PROVE TypeInv'
<1> USE DEF TypeInv
<1>1. ASSUME NEW S \in SUBSET Segments, NEW x \in Texts, Confirm(u, S, x) PROVE TypeInv'
  <2> DEFINE q == [at |-> "commit", rows |-> S, text |-> x,
                   seen |-> [s \in Segments |-> IF s \in S THEN row[s] ELSE NoRow]]
  <2>1. request' = [request EXCEPT ![u] = q]
    BY <1>1 DEF Confirm
  <2>2. q \in Request
    BY DEF Request, NoRow, Row, TypeOK, RowsOK
  <2>3. request' \in [Users -> Request \cup {None}]
    BY <2>1, <2>2 DEF TypeOK
  <2>4. UNCHANGED row /\ \A s \in Segments : q.seen[s].status # "none" => row[s].status # "none"
    BY <1>1 DEF Confirm, NoRow
  <2>5. SeenExists'
    BY <2>1, <2>4 DEF SeenExists, TypeOK
  <2> QED BY <1>1, <2>3, <2>5, Counted DEF Confirm, TypeOK, RowsOK, HeldExists
<1>2. ASSUME Commit(u), Collides(request[u]) PROVE TypeInv'
  BY <1>2 DEF Commit, SeenExists, TypeOK, RowsOK, HeldExists
<1>3. ASSUME Commit(u), ~Collides(request[u]) PROVE TypeInv'
  <2> DEFINE q == request[u]
             new == {s \in q.rows : row[s].status = "none"}
  <2>1. /\ q \in Request /\ q # None
        /\ row' = [s \in Segments |-> IF s \in q.rows THEN Stored(s, q) ELSE row[s]]
        /\ raced' \subseteq Segments
        /\ request' = [request EXCEPT ![u].at = "tell"]
        /\ UNCHANGED <<backend, tm, queue, open, wake, slot, arrived, missed, count>>
    BY <1>3 DEF Commit, Request, TypeOK
  <2>2. PICK rank \in [new -> 1..Cardinality(Segments)] :
          age' = [s \in Segments |-> IF s \in new THEN rank[s] ELSE age[s]]
    BY <1>3 DEF Commit
  <2>3. request' \in [Users -> Request \cup {None}]
    BY <2>1 DEF Request, TypeOK
  <2>4. ASSUME NEW s \in q.rows
        PROVE /\ Stored(s, q) \in Row
              /\ Stored(s, q).status # "none"
              /\ Stored(s, q).status = "failed" => row[s].status = "failed"
              /\ Stored(s, q).attempts = row[s].attempts
    <3>1. s \in Segments /\ row[s] \in Row /\ q.text \in Texts
      BY <2>1 DEF Request, TypeOK, RowsOK
    <3>2. q.seen[s].status = "pending" => row[s].status # "none"
      BY <3>1, <2>1 DEF SeenExists
    <3> QED BY <3>1, <3>2 DEF Stored, Row
  <2>5. row' \in [Segments -> Row]
    BY <2>1, <2>4 DEF TypeOK, RowsOK
  <2>6. age' \in [Segments -> 0..Cardinality(Segments)]
    BY <2>2, Bounds DEF TypeOK, RowsOK
  <2>7. ASSUME NEW s \in Segments
        PROVE /\ row'[s].status = "none" <=> age'[s] = 0
              /\ row'[s].status = "failed" => row'[s].attempts >= MaxAttempts
              /\ row[s].status # "none" => row'[s].status # "none"
    <3>1. CASE s \in q.rows
      BY <3>1, <2>1, <2>2, <2>4, Bounds DEF TypeOK, RowsOK
    <3>2. CASE s \notin q.rows
      BY <3>2, <2>1, <2>2 DEF TypeOK, RowsOK
    <3> QED BY <3>1, <3>2
  <2>8. SeenExists'
    BY <2>1, <2>7 DEF SeenExists, TypeOK, Request
  <2>9. HeldExists'
    BY <2>1, <2>7 DEF HeldExists, TypeOK, Pass
  <2> QED BY <2>1, <2>3, <2>5, <2>6, <2>7, <2>8, <2>9 DEF TypeOK, RowsOK
<1>4. ASSUME Tell(u) PROVE TypeInv'
  BY <1>4 DEF Tell, SeenExists, TypeOK, RowsOK, HeldExists
<1> QED BY <1>1, <1>2, <1>3, <1>4 DEF Requests

\* A row with another status is a row.
LEMMA StatusChanged ==
  ASSUME NEW r \in Row, NEW status \in {"none", "pending", "processing", "completed", "failed"}
  PROVE  /\ [r EXCEPT !.status = status] \in Row
         /\ [r EXCEPT !.status = status].status = status
         /\ [r EXCEPT !.status = status].attempts = r.attempts
<1> DEFINE q == [r EXCEPT !.status = status]
<1>1. q.status = status /\ q.attempts = r.attempts /\ q.text = r.text
  BY DEF Row
<1>2. q \in Row
  BY DEF Row
<1> QED BY <1>1, <1>2

\* So is one that was attempted once more.
LEMMA Attempted ==
  ASSUME NEW r \in Row
  PROVE  /\ [r EXCEPT !.status = "processing", !.attempts = @ + 1] \in Row
         /\ [r EXCEPT !.status = "processing", !.attempts = @ + 1].status = "processing"
<1> DEFINE q == [r EXCEPT !.status = "processing"]
           n == r.attempts + 1
           t == [q EXCEPT !.attempts = n]
<1>1. q \in Row /\ q.status = "processing"
  BY StatusChanged
<1>2. n \in Nat
  BY DEF Row
<1>3. t \in Row /\ t.status = "processing"
  <2> HIDE DEF q, n
  <2> QED BY <1>1, <1>2 DEF Row
<1> QED BY <1>3

\* A claim takes rows that exist.
LEMMA TypeClaim ==
  ASSUME TypeInv, NEW w \in Slots, Claim(w) PROVE TypeInv'
<1> DEFINE f == [s \in Segments |-> IF s \in Due
         THEN [row[s] EXCEPT !.status = "processing", !.attempts = @ + 1] ELSE row[s]]
<1>1. /\ slot[w] \in Pass /\ PassOK(slot[w])
      /\ \A s \in Segments : /\ row[s] \in Row
                             /\ row[s].status = "failed" => row[s].attempts >= MaxAttempts
  BY DEF TypeInv, TypeOK, RowsOK
<1>2. Due \subseteq Segments /\ \A s \in Due : row[s].status = "pending"
  BY DEF Due
<1>3. ASSUME NEW s \in Segments
      PROVE /\ f[s] \in Row
            /\ f[s].status = "none" <=> row[s].status = "none"
            /\ f[s].status = "failed" => f[s].attempts >= MaxAttempts
  <2>1. CASE s \in Due
    <3>1. f[s] = [row[s] EXCEPT !.status = "processing", !.attempts = @ + 1]
      BY <2>1
    <3>2. f[s] \in Row /\ f[s].status = "processing"
      BY <3>1, <1>1, Attempted
    <3> QED BY <3>2, <2>1, <1>2
  <2>2. CASE s \notin Due
    BY <1>1, <2>2
  <2> QED BY <2>1, <2>2
<1>4. PICK p \in Pass : /\ slot' = [slot EXCEPT ![w] = p] /\ PassOK(p)
                        /\ \A s \in p.rows : row[s].status # "none"
  <2>1. CASE Due = {}
    <3> DEFINE p == [slot[w] EXCEPT !.at = "look"]
    <3>1. p \in Pass /\ PassOK(p) /\ p.rows = {}
      BY <1>1, <2>1 DEF Claim, Pass, PassOK
    <3> QED BY <3>1, <2>1 DEF Claim, Goto
  <2>2. CASE Due # {}
    <3> DEFINE p == [slot[w] EXCEPT !.at = "load", !.rows = Due]
    <3>1. p \in Pass /\ PassOK(p) /\ p.rows = Due
      BY <1>1, <1>2, <2>2 DEF Claim, Pass, PassOK
    <3> QED BY <3>1, <2>2, <1>2 DEF Claim
  <2> QED BY <2>1, <2>2
<1>5. row' = [s \in Segments |-> f[s]] /\ UNCHANGED <<age, request>>
  BY DEF Claim
<1>6. /\ RowsOK' /\ SeenExists' /\ HeldExists'
      /\ slot' \in [Slots -> Pass] /\ \A v \in Slots : PassOK(slot'[v])
  <2> HIDE DEF f
  <2> QED BY <1>3, <1>4, <1>5, RowsKept
<1> QED BY <1>6 DEF Claim, TypeInv, TypeOK

\* The rows of a pass get a new status, and the pass goes on without them or
\* with them.
LEMMA TypeEnd ==
  ASSUME TypeInv, UNCHANGED <<age, request>>, NEW w \in Slots,
         NEW status \in [slot[w].rows -> {"pending", "completed", "failed"}],
         \A s \in slot[w].rows : status[s] = "failed" => row[s].attempts >= MaxAttempts,
         row' = [s \in Segments |-> IF s \in slot[w].rows
                   THEN [row[s] EXCEPT !.status = status[s]] ELSE row[s]],
         NEW p \in Pass, slot' = [slot EXCEPT ![w] = p], PassOK(p), p.rows \subseteq slot[w].rows
  PROVE  /\ RowsOK' /\ SeenExists' /\ HeldExists'
         /\ slot' \in [Slots -> Pass] /\ \A v \in Slots : PassOK(slot'[v])
<1> DEFINE f == [s \in Segments |-> IF s \in slot[w].rows
                   THEN [row[s] EXCEPT !.status = status[s]] ELSE row[s]]
<1>1. /\ \A s \in slot[w].rows : row[s].status # "none"
      /\ \A s \in Segments : /\ row[s] \in Row
                             /\ row[s].status = "failed" => row[s].attempts >= MaxAttempts
  BY DEF TypeInv, TypeOK, RowsOK, HeldExists
<1>2. ASSUME NEW s \in Segments
      PROVE /\ f[s] \in Row
            /\ f[s].status = "none" <=> row[s].status = "none"
            /\ f[s].status = "failed" => f[s].attempts >= MaxAttempts
  <2>1. CASE s \in slot[w].rows
    <3>1. /\ f[s] = [row[s] EXCEPT !.status = status[s]]
          /\ status[s] \in {"pending", "completed", "failed"}
          /\ status[s] \in {"none", "pending", "processing", "completed", "failed"}
      BY <2>1
    <3>2. row[s] \in Row
      BY <1>1
    <3>3. f[s] \in Row /\ f[s].status = status[s] /\ f[s].attempts = row[s].attempts
      <4> DEFINE t == status[s]
                 r == row[s]
                 q == f[s]
      <4>1. /\ t \in {"none", "pending", "processing", "completed", "failed"}
            /\ r \in Row /\ q = [r EXCEPT !.status = t]
        BY <3>1, <3>2
      <4>2. q \in Row /\ q.status = t /\ q.attempts = r.attempts
        <5> HIDE DEF f, t, r, q
        <5> QED BY <4>1, StatusChanged
      <4> QED BY <4>2
    <3> HIDE DEF f
    <3> QED BY <3>1, <3>3, <2>1, <1>1
  <2>2. CASE s \notin slot[w].rows
    BY <1>1, <2>2
  <2> QED BY <2>1, <2>2
<1>3. row' = [s \in Segments |-> f[s]]
  OBVIOUS
<1>4. \A s \in p.rows : row[s].status # "none"
  BY <1>1
<1> HIDE DEF f
<1> QED BY <1>2, <1>3, <1>4, RowsKept

\* The rest of the outbox part of a pass.
LEMMA TypeOutbox ==
  ASSUME TypeInv, NEW w \in Slots, Load(w) \/ Write(w) \/ Embed(w) \/ Fail(w)
  PROVE TypeInv'
<1> DEFINE S == slot[w].rows
<1>0. /\ slot[w] \in Pass /\ PassOK(slot[w]) /\ S \subseteq Segments
      /\ \A s \in Segments : row[s] \in Row
  BY DEF TypeInv, TypeOK, RowsOK, Pass
<1>1. ASSUME Load(w) PROVE TypeInv'
  <2> DEFINE p == [slot[w] EXCEPT !.at = "write",
                     !.read = [s \in Segments |-> IF s \in S THEN row[s].text ELSE None]]
  <2>1. p \in Pass /\ PassOK(p) /\ p.rows = S
    BY <1>0, <1>1 DEF Load, Pass, PassOK, Row
  <2>2. slot' = [slot EXCEPT ![w] = p]
    BY <1>1 DEF Load
  <2>3. slot' \in [Slots -> Pass] /\ \A v \in Slots : PassOK(slot'[v])
    <3> HIDE DEF p
    <3> QED BY <2>1, <2>2, PassReplaced DEF TypeInv, TypeOK
  <2>4. HeldExists'
    <3> HIDE DEF p
    <3> QED BY <1>1, <2>1, <2>2 DEF Load, HeldExists, TypeInv, TypeOK
  <2> QED BY <1>1, <2>3, <2>4 DEF Load, TypeInv, TypeOK, RowsOK, SeenExists
<1>2. ASSUME Write(w) PROVE TypeInv'
  <2> DEFINE p == [slot[w] EXCEPT !.at = "embed"]
             status == [s \in S |-> "completed"]
  <2>1. p \in Pass /\ PassOK(p) /\ p.rows = S
    BY <1>0, <1>2 DEF Write, Pass, PassOK
  <2>2. slot' = [slot EXCEPT ![w] = p] /\ UNCHANGED <<age, request>>
    BY <1>2 DEF Write, Goto
  <2>3. row' = [s \in Segments |-> IF s \in S THEN [row[s] EXCEPT !.status = status[s]] ELSE row[s]]
    BY <1>2 DEF Write
  <2>4. status \in [S -> {"pending", "completed", "failed"}] /\ \A s \in S : status[s] # "failed"
    OBVIOUS
  <2>5. /\ RowsOK' /\ SeenExists' /\ HeldExists'
        /\ slot' \in [Slots -> Pass] /\ \A v \in Slots : PassOK(slot'[v])
    <3> HIDE DEF p, status
    <3> QED BY <2>1, <2>2, <2>3, <2>4, TypeEnd
  <2>6. tm' \in Texts \cup {None} /\ arrived' \in [Segments -> Texts \cup {None}]
    <3>1. \A s \in Segments : slot[w].read[s] \in Texts \cup {None}
      BY <1>0 DEF Pass
    <3> QED BY <1>2, <3>1 DEF Write, TypeInv, TypeOK
  <2>7. queue' \in Queue /\ missed' \in BOOLEAN
    BY <1>2 DEF Write, Registered, Queue, Matching
  <2> QED BY <1>2, <2>5, <2>6, <2>7 DEF Write, TypeInv, TypeOK
<1>3. ASSUME Embed(w) PROVE TypeInv'
  <2> DEFINE p == [Idle EXCEPT !.at = IF More(w) THEN "claim" ELSE "look", !.kind = slot[w].kind,
                               !.batches = IF More(w) THEN slot[w].batches + 1 ELSE 0]
  <2>1. (IF More(w) THEN slot[w].batches + 1 ELSE 0) \in 0..MaxBatches
    BY <1>0, Bounds DEF More, Pass
  <2>2. p \in Pass /\ PassOK(p) /\ p.rows = {}
    BY <2>1, <1>0 DEF Idle, Pass, PassOK
  <2>3. slot' = [slot EXCEPT ![w] = p]
    BY <1>3 DEF Embed
  <2>4. slot' \in [Slots -> Pass] /\ \A v \in Slots : PassOK(slot'[v])
    <3> HIDE DEF p
    <3> QED BY <2>2, <2>3, PassReplaced DEF TypeInv, TypeOK
  <2>5. HeldExists'
    <3> HIDE DEF p
    <3> QED BY <1>3, <2>2, <2>3 DEF Embed, HeldExists, TypeInv, TypeOK
  <2> QED BY <1>3, <2>4, <2>5 DEF Embed, TypeInv, TypeOK, RowsOK, SeenExists
<1>4. ASSUME Fail(w) PROVE TypeInv'
  <2> DEFINE p == [Idle EXCEPT !.at = "look", !.kind = slot[w].kind]
             status == [s \in S |-> IF GivenUp(s) THEN "failed" ELSE "pending"]
  <2>1. p \in Pass /\ PassOK(p) /\ p.rows = {}
    <3>1. 0 \in 0..MaxBatches
      BY Bounds
    <3> QED BY <3>1, <1>0 DEF Idle, Pass, PassOK
  <2>2. slot' = [slot EXCEPT ![w] = p] /\ UNCHANGED <<age, request>>
    BY <1>4 DEF Fail
  <2>3. row' = [s \in Segments |-> IF s \in S THEN [row[s] EXCEPT !.status = status[s]] ELSE row[s]]
    BY <1>4 DEF Fail
  <2>4. /\ status \in [S -> {"pending", "completed", "failed"}]
        /\ \A s \in S : status[s] = "failed" => row[s].attempts >= MaxAttempts
    BY DEF GivenUp
  <2>5. /\ RowsOK' /\ SeenExists' /\ HeldExists'
        /\ slot' \in [Slots -> Pass] /\ \A v \in Slots : PassOK(slot'[v])
    <3> HIDE DEF p, status
    <3> QED BY <2>1, <2>2, <2>3, <2>4, TypeEnd
  <2> QED BY <1>4, <2>5, Counted DEF Fail, TypeInv, TypeOK
<1> QED BY <1>1, <1>2, <1>3, <1>4

\* A step that changes a pass and none of the rows.
LEMMA PassChanged ==
  ASSUME TypeInv, UNCHANGED <<row, age, request>>, NEW w \in Slots, NEW p \in Pass,
         slot' = [slot EXCEPT ![w] = p], PassOK(p), p.rows \subseteq slot[w].rows
  PROVE  /\ RowsOK' /\ SeenExists' /\ HeldExists'
         /\ slot' \in [Slots -> Pass] /\ \A v \in Slots : PassOK(slot'[v])
<1>1. slot' \in [Slots -> Pass] /\ \A v \in Slots : PassOK(slot'[v])
  BY PassReplaced DEF TypeInv, TypeOK
<1>2. HeldExists'
  BY DEF TypeInv, TypeOK, HeldExists
<1>3. RowsOK' /\ SeenExists'
  BY DEF TypeInv, TypeOK, RowsOK, SeenExists
<1> QED BY <1>1, <1>2, <1>3

\* What a rematch reads is a match, and applying it is a pass.
LEMMA ReadOK ==
  ASSUME TypeInv, NEW w \in Slots, slot[w].at \in {"mark", "notify"}, NEW b \in BOOLEAN,
         Read(w, b)
  PROVE  \E p \in Pass : slot' = [slot EXCEPT ![w] = p] /\ PassOK(p) /\ p.rows \subseteq slot[w].rows
<1> DEFINE m == [text |-> tm, version |-> open.version, waiting |-> b]
           p == [slot[w] EXCEPT !.at = "apply", !.match = m]
<1>1. m \in Match
  BY DEF TypeInv, TypeOK, Match
<1>2. m # None
  BY <1>1, AutoTMAssumption
<1>3. slot[w] \in Pass /\ PassOK(slot[w])
  BY DEF TypeInv, TypeOK
<1>4. p \in Pass /\ PassOK(p) /\ p.rows = slot[w].rows
  <2> HIDE DEF m
  <2> QED BY <1>1, <1>2, <1>3 DEF Pass, PassOK
<1>5. slot' = [slot EXCEPT ![w] = p]
  BY DEF Read
<1> QED BY <1>4, <1>5

\* The rematch part of a pass and the edits.
LEMMA TypeRematch ==
  ASSUME TypeInv, NEW w \in Slots,
         \/ Start(w) \/ (\E due \in BOOLEAN : Look(w, due)) \/ Mark(w) \/ Apply(w) \/ FailMatch(w)
         \/ (\E x \in Texts : Edit(w, x)) \/ Notify(w) \/ Crash(w) \/ Outlive(w)
  PROVE  TypeInv'
<1> DEFINE Ends(p) == /\ slot' = [slot EXCEPT ![w] = p] /\ PassOK(p) /\ p.rows \subseteq slot[w].rows
<1>0. slot[w] \in Pass /\ PassOK(slot[w]) /\ queue \in Queue /\ wake \in Nat
  BY DEF TypeInv, TypeOK
<1>1. Idle \in Pass /\ PassOK(Idle) /\ Idle.rows \subseteq slot[w].rows
  BY IdleOK DEF Idle
<1>2. ASSUME UNCHANGED <<row, age, request>>, \E p \in Pass : Ends(p),
             UNCHANGED <<backend, arrived, raced>>, tm' \in Texts \cup {None}, queue' \in Queue,
             open' \in [text: Texts \cup {None}, version: Nat], wake' \in Nat, missed' \in BOOLEAN,
             UNCHANGED count \/ Edits \/ Faults \/ Crashes
      PROVE  TypeInv'
  <2>1. /\ RowsOK' /\ SeenExists' /\ HeldExists'
        /\ slot' \in [Slots -> Pass] /\ \A v \in Slots : PassOK(slot'[v])
    BY <1>2, PassChanged
  <2>2. count' \in [confirm: 0..MaxConfirms, edit: 0..MaxEdits, fault: 0..MaxFaults, crash: 0..MaxCrashes]
    BY <1>2, Counted DEF TypeInv, TypeOK
  <2> QED BY <1>2, <2>1, <2>2 DEF TypeInv, TypeOK
<1>3. /\ tm \in Texts \cup {None} /\ open \in [text: Texts \cup {None}, version: Nat]
      /\ missed \in BOOLEAN
  BY DEF TypeInv, TypeOK
<1>4. ASSUME Start(w) PROVE TypeInv'
  <2> DEFINE p == [Idle EXCEPT !.at = "claim", !.kind = IF backend = "arq" THEN "job" ELSE "thread"]
  <2>1. p \in Pass /\ PassOK(p) /\ p.rows = {}
    <3>1. 0 \in 0..MaxBatches
      BY Bounds
    <3> QED BY <3>1 DEF Idle, Pass, PassOK
  <2>2. Ends(p) /\ wake' \in Nat
    <3>1. slot' = [slot EXCEPT ![w] = p] /\ wake' \in Nat
      BY <1>0, <1>4 DEF Start
    <3> QED BY <3>1, <2>1
  <2>3. \E r \in Pass : Ends(r)
    BY <2>1, <2>2
  <2> HIDE DEF Ends, p
  <2> QED BY <1>0, <1>2, <1>3, <1>4, <2>2, <2>3 DEF Start
<1>5. ASSUME NEW due \in BOOLEAN, Look(w, due) PROVE TypeInv'
  <2> DEFINE p == [slot[w] EXCEPT !.at = "mark"]
  <2>1. p \in Pass /\ PassOK(p) /\ p.rows = slot[w].rows
    BY <1>0, <1>5 DEF Look, Pass, PassOK
  <2>2. slot' = [slot EXCEPT ![w] = p] \/ slot' = [slot EXCEPT ![w] = Idle]
    BY <1>5 DEF Look, Goto, Finish
  <2>3. \E r \in Pass : Ends(r)
    <3> HIDE DEF p
    <3> QED BY <1>1, <2>1, <2>2
  <2> HIDE DEF Ends, p
  <2> QED BY <1>0, <1>2, <1>3, <1>5, <2>3 DEF Look
<1>6. ASSUME Mark(w) PROVE TypeInv'
  <2>1. \E r \in Pass : Ends(r)
    BY <1>0, <1>6, ReadOK DEF Mark, Queue
  <2>2. queue' \in Queue
    BY <1>0, <1>6 DEF Mark, Queue
  <2> HIDE DEF Ends
  <2> QED BY <1>0, <1>2, <1>3, <1>6, <2>1, <2>2 DEF Mark
<1>7. ASSUME Apply(w) PROVE TypeInv'
  <2>1. \E r \in Pass : Ends(r)
    BY <1>1, <1>7 DEF Apply, Finish
  <2>2. queue' \in Queue
    BY <1>0, <1>7 DEF Apply, Queue
  <2>3. open' \in [text: Texts \cup {None}, version: Nat]
    <3>1. slot[w].match \in Match
      BY <1>0, <1>7 DEF Apply, Pass, PassOK
    <3> QED BY <3>1, <1>3, <1>7 DEF Apply, Match
  <2> HIDE DEF Ends
  <2> QED BY <1>0, <1>2, <1>3, <1>7, <2>1, <2>2, <2>3 DEF Apply
<1>8. ASSUME FailMatch(w) PROVE TypeInv'
  <2>1. \E r \in Pass : Ends(r)
    BY <1>1, <1>8 DEF FailMatch, Finish
  <2>2. queue' \in Queue
    BY <1>0, <1>8 DEF FailMatch, PutBack, Queue
  <2> HIDE DEF Ends
  <2> QED BY <1>0, <1>2, <1>3, <1>8, <2>1, <2>2 DEF FailMatch
<1>9. ASSUME NEW x \in Texts, Edit(w, x) PROVE TypeInv'
  <2> DEFINE p == [slot[w] EXCEPT !.at = "notify"]
  <2>1. p \in Pass /\ PassOK(p) /\ p.rows = slot[w].rows
    BY <1>0, <1>9 DEF Edit, Pass, PassOK
  <2>2. slot' = [slot EXCEPT ![w] = p]
    BY <1>9 DEF Edit
  <2>3. \E r \in Pass : Ends(r)
    <3> HIDE DEF p
    <3> QED BY <2>1, <2>2
  <2> HIDE DEF Ends, p
  <2> QED BY <1>0, <1>2, <1>3, <1>9, <2>3 DEF Edit
<1>10. ASSUME Notify(w) PROVE TypeInv'
  <2>1. \E r \in Pass : Ends(r)
    BY <1>0, <1>1, <1>10, ReadOK DEF Notify, Finish
  <2>2. queue' \in Queue /\ missed' \in BOOLEAN
    <3>1. CASE queue.status = "pending"
      <4>1. queue' = [status |-> "running", waiting |-> TRUE]
        BY <3>1, <1>10, Zenon DEF Notify
      <4>2. missed' \in BOOLEAN
        BY <3>1, <1>10, Zenon DEF Notify, Matching
      <4> QED BY <4>1, <4>2 DEF Queue
    <3>2. CASE queue.status # "pending"
      <4>1. queue' = queue
        BY <3>2, <1>10 DEF Notify
      <4>2. missed' = missed
        BY <3>2, <1>10, Zenon DEF Notify
      <4> QED BY <4>1, <4>2, <1>0, <1>3
    <3> QED BY <3>1, <3>2
  <2> HIDE DEF Ends
  <2> QED BY <1>0, <1>2, <1>3, <1>10, <2>1, <2>2 DEF Notify
<1>11. ASSUME Crash(w) PROVE TypeInv'
  <2>1. \E r \in Pass : Ends(r)
    BY <1>1, <1>11 DEF Crash, Finish
  <2>2. wake' \in Nat
    BY <1>0, <1>11 DEF Crash
  <2> HIDE DEF Ends
  <2> QED BY <1>0, <1>2, <1>3, <1>11, <2>1, <2>2 DEF Crash
<1>12. ASSUME Outlive(w) PROVE TypeInv'
  <2> DEFINE p == [slot[w] EXCEPT !.kind = "thread"]
  <2>1. p \in Pass /\ PassOK(p) /\ p.rows = slot[w].rows
    BY <1>0 DEF Pass, PassOK
  <2>2. slot' = [slot EXCEPT ![w] = p]
    BY <1>12 DEF Outlive
  <2>3. \E r \in Pass : Ends(r)
    <3> HIDE DEF p
    <3> QED BY <2>1, <2>2
  <2> HIDE DEF Ends, p
  <2> QED BY <1>0, <1>2, <1>3, <1>12, <2>3 DEF Outlive
<1> HIDE DEF Ends
<1> QED BY <1>4, <1>5, <1>6, <1>7, <1>8, <1>9, <1>10, <1>11, <1>12

\* Every step keeps the types.
LEMMA TypeStep == TypeInv /\ [Next]_vars => TypeInv'
<1> SUFFICES ASSUME TypeInv, [Next]_vars PROVE TypeInv'
  OBVIOUS
<1>1. ASSUME NEW u \in Users, Hush(u) PROVE TypeInv'
  BY <1>1, Counted DEF Hush, TypeInv, TypeOK, RowsOK, SeenExists, HeldExists
<1>2. ASSUME Touch PROVE TypeInv'
  BY <1>2, Counted DEF Touch, TypeInv, TypeOK, RowsOK, SeenExists, HeldExists
<1>3. ASSUME NEW w \in Slots, PassStep(w) PROVE TypeInv'
  BY <1>3, TypeClaim, TypeOutbox, TypeRematch DEF PassStep
<1>4. CASE UNCHANGED vars
  BY <1>4 DEF vars, TypeInv, TypeOK, RowsOK, SeenExists, HeldExists
<1> QED BY <1>1, <1>2, <1>3, <1>4, TypeRequests, TypeOutbox, TypeRematch DEF Next

\* Every table holds values of its columns; only what was claimed MaxAttempts
\* times is given up, and only passes at work have rows (TypeOK).
THEOREM AutoTMTypeCorrect == Spec => []TypeOK
<1>1. TypeInv => TypeOK
  BY DEF TypeInv
<1> QED BY TypeInit, TypeStep, <1>1, PTL DEF Spec

-----------------------------------------------------------------------------
\* A commit that stores a row of a pass, or one that has moved on since the
\* confirmation read it, is remembered.
LEMMA StoredRaces ==
  ASSUME TypeInv, NEW u \in Users, Commit(u), ~Collides(request[u]),
         NEW s \in Segments, s \notin raced'
  PROVE  /\ s \notin raced
         /\ row'[s] # row[s] => row'[s].status = "pending" /\ ~Held(s)
<1> DEFINE q == request[u]
<1>1. /\ q \in Request
      /\ row' = [r \in Segments |-> IF r \in q.rows THEN Stored(r, q) ELSE row[r]]
      /\ raced' = raced \cup {r \in q.rows :
           row[r].status = "processing" \/ Held(r) \/ row[r].status # q.seen[r].status}
  BY DEF Commit, TypeInv, TypeOK
<1>2. s \notin raced
  BY <1>1
<1>3. CASE s \in q.rows
  <2>1. row[s].status = q.seen[s].status /\ ~Held(s)
    BY <1>1, <1>3
  <2>2. row[s] \in Row /\ row'[s] = Stored(s, q)
    BY <1>1, <1>3 DEF TypeInv, TypeOK, RowsOK
  <2>3. row'[s].status = "pending"
    BY <2>1, <2>2 DEF Stored, Row
  <2> QED BY <1>2, <2>1, <2>3
<1>4. CASE s \notin q.rows
  BY <1>1, <1>2, <1>4
<1> QED BY <1>3, <1>4

\* What a commit stores has arrived, and what a pass is about to write is
\* current, in every step.
LEMMA ArrivedStep ==
  TypeInv /\ CompletedArrived /\ ReadCurrent /\ [Next]_vars => CompletedArrived' /\ ReadCurrent'
<1> SUFFICES ASSUME TypeInv, CompletedArrived, ReadCurrent, [Next]_vars
             PROVE  CompletedArrived' /\ ReadCurrent'
  OBVIOUS
<1>0. /\ row \in [Segments -> Row] /\ slot \in [Slots -> Pass]
      /\ \A w \in Slots : slot[w].rows \subseteq Segments
  BY DEF TypeInv, TypeOK, RowsOK, Pass
<1>1. ASSUME UNCHANGED <<row, arrived, raced>>,
             \A w \in Slots : /\ slot'[w].at = "write" => slot[w].at = "write"
                              /\ slot[w].at = "write" =>
                                   slot'[w].at # "write" \/
                                   (slot'[w].rows = slot[w].rows /\ slot'[w].read = slot[w].read)
      PROVE  CompletedArrived' /\ ReadCurrent'
  BY <1>1 DEF CompletedArrived, ReadCurrent
<1>2. ASSUME NEW u \in Users, Commit(u) PROVE CompletedArrived' /\ ReadCurrent'
  <2>1. CASE Collides(request[u])
    BY <1>1, <1>2, <2>1 DEF Commit
  <2>2. CASE ~Collides(request[u])
    <3>1. ASSUME NEW s \in Segments, s \notin raced'
          PROVE  /\ s \notin raced
                 /\ row'[s] # row[s] => row'[s].status = "pending" /\ ~Held(s)
      BY <1>2, <2>2, <3>1, StoredRaces
    <3>2. UNCHANGED <<slot, arrived>>
      BY <1>2 DEF Commit
    <3>3. CompletedArrived'
      <4> SUFFICES ASSUME NEW s \in Segments, row'[s].status = "completed", s \notin raced'
                   PROVE  arrived'[s] = row'[s].text
        BY DEF CompletedArrived
      <4>1. row'[s] = row[s] /\ s \notin raced
        BY <3>1
      <4> QED BY <4>1, <3>2 DEF CompletedArrived
    <3>4. ReadCurrent'
      <4> SUFFICES ASSUME NEW w \in Slots, NEW s \in Segments,
                          slot[w].at = "write", s \in slot[w].rows, s \notin raced'
                   PROVE  slot[w].read[s] = row'[s].text
        BY <3>2 DEF ReadCurrent
      <4>1. Held(s)
        BY DEF Held
      <4>2. row'[s] = row[s] /\ s \notin raced
        BY <3>1, <4>1
      <4> QED BY <4>2 DEF ReadCurrent
    <3> QED BY <3>3, <3>4
  <2> QED BY <2>1, <2>2
<1>3. ASSUME NEW w \in Slots, Claim(w) PROVE CompletedArrived' /\ ReadCurrent'
  <2>1. \A s \in Segments : row[s] \in Row
    BY <1>0
  <2>2. ASSUME NEW s \in Segments
        PROVE  /\ row'[s].text = row[s].text
               /\ s \in Due => row'[s].status = "processing"
               /\ s \notin Due => row'[s] = row[s]
    BY <1>3, <2>1 DEF Claim, Row
  <2>3. /\ raced' = {s \in raced : s \notin Due \/ Held(s)}
        /\ UNCHANGED arrived
        /\ slot'[w].at # "write"
        /\ \A v \in Slots \ {w} : slot'[v] = slot[v]
    BY <1>0, <1>3 DEF Claim, Goto, Pass
  <2>4. CompletedArrived'
    <3> SUFFICES ASSUME NEW s \in Segments, row'[s].status = "completed", s \notin raced'
                 PROVE  arrived'[s] = row'[s].text
      BY DEF CompletedArrived
    <3>1. s \notin Due
      BY <2>2
    <3>2. s \notin raced /\ row'[s] = row[s]
      BY <3>1, <2>2, <2>3
    <3> QED BY <3>2, <2>3 DEF CompletedArrived
  <2>5. ReadCurrent'
    <3> SUFFICES ASSUME NEW v \in Slots, NEW s \in Segments,
                        slot'[v].at = "write", s \in slot'[v].rows, s \notin raced'
                 PROVE  slot'[v].read[s] = row'[s].text
      BY DEF ReadCurrent
    <3>1. slot'[v] = slot[v]
      BY <2>3
    <3>2. Held(s)
      BY <3>1 DEF Held
    <3>3. s \notin raced
      BY <3>2, <2>3
    <3> QED BY <3>1, <3>3, <2>2 DEF ReadCurrent
  <2> QED BY <2>4, <2>5
<1>4. ASSUME NEW w \in Slots, Load(w) PROVE CompletedArrived' /\ ReadCurrent'
  <2>1. /\ UNCHANGED <<row, arrived, raced>>
        /\ slot'[w].read = [s \in Segments |-> IF s \in slot[w].rows THEN row[s].text ELSE None]
        /\ slot'[w].rows = slot[w].rows
        /\ \A v \in Slots \ {w} : slot'[v] = slot[v]
    BY <1>0, <1>4 DEF Load, Pass
  <2> QED BY <2>1, <1>0 DEF CompletedArrived, ReadCurrent
<1>5. ASSUME NEW w \in Slots, Write(w) PROVE CompletedArrived' /\ ReadCurrent'
  <2>1. \A s \in Segments : row[s] \in Row
    BY <1>0
  <2>2. ASSUME NEW s \in Segments
        PROVE  /\ row'[s].text = row[s].text
               /\ s \notin slot[w].rows => row'[s] = row[s]
               /\ arrived'[s] = IF s \in slot[w].rows THEN slot[w].read[s] ELSE arrived[s]
    BY <1>5, <2>1 DEF Write, Row
  <2>3. /\ UNCHANGED raced /\ slot[w].at = "write" /\ slot'[w].at # "write"
        /\ \A v \in Slots \ {w} : slot'[v] = slot[v]
    BY <1>0, <1>5 DEF Write, Goto, Pass
  <2>4. CompletedArrived'
    <3> SUFFICES ASSUME NEW s \in Segments, row'[s].status = "completed", s \notin raced
                 PROVE  arrived'[s] = row'[s].text
      BY <2>3 DEF CompletedArrived
    <3> QED BY <2>2, <2>3 DEF CompletedArrived, ReadCurrent
  <2>5. ReadCurrent'
    BY <2>2, <2>3 DEF ReadCurrent
  <2> QED BY <2>4, <2>5
<1>6. ASSUME NEW w \in Slots, Fail(w) PROVE CompletedArrived' /\ ReadCurrent'
  <2>1. \A s \in Segments : row[s] \in Row
    BY <1>0
  <2>2. ASSUME NEW s \in Segments
        PROVE  /\ row'[s].text = row[s].text
               /\ row'[s].status = "completed" => row[s].status = "completed"
    BY <1>6, <2>1 DEF Fail, Row
  <2>3. /\ UNCHANGED <<raced, arrived>> /\ slot'[w].at # "write"
        /\ \A v \in Slots \ {w} : slot'[v] = slot[v]
    BY <1>0, <1>6 DEF Fail, Idle, Pass
  <2> QED BY <2>2, <2>3 DEF CompletedArrived, ReadCurrent
<1>7. ASSUME NEW u \in Users, Hush(u) \/ Tell(u) \/
             \E S \in {{s} : s \in Segments} \cup {Segments}, x \in Texts : Confirm(u, S, x)
      PROVE  CompletedArrived' /\ ReadCurrent'
  BY <1>1, <1>7 DEF Hush, Tell, Confirm
<1>8. ASSUME NEW w \in Slots,
             \/ Start(w) \/ Embed(w) \/ (\E due \in BOOLEAN : Look(w, due)) \/ Mark(w) \/ Apply(w)
             \/ FailMatch(w) \/ (\E x \in Texts : Edit(w, x)) \/ Notify(w) \/ Crash(w) \/ Outlive(w)
      PROVE  CompletedArrived' /\ ReadCurrent'
  <2>1. UNCHANGED <<row, arrived, raced>>
    BY <1>8 DEF Start, Embed, Look, Mark, Apply, FailMatch, Edit, Notify, Crash, Outlive
  <2>2. \A v \in Slots \ {w} : slot'[v] = slot[v]
    BY <1>8, <1>0 DEF Start, Embed, Look, Mark, Apply, FailMatch, Edit, Notify, Crash, Outlive,
      Goto, Finish, Read
  <2>3. \/ slot'[w].at # "write"
        \/ slot'[w].at = slot[w].at /\ slot'[w].rows = slot[w].rows /\ slot'[w].read = slot[w].read
    <3>1. CASE Embed(w) \/ Start(w)
      BY <3>1, <1>0 DEF Start, Embed, Idle
    <3>2. CASE \/ (\E due \in BOOLEAN : Look(w, due)) \/ Mark(w) \/ (\E x \in Texts : Edit(w, x))
               \/ Notify(w)
      BY <3>2, <1>0 DEF Look, Mark, Edit, Notify, Goto, Finish, Read, Idle, Pass
    <3>3. CASE Apply(w) \/ FailMatch(w) \/ Crash(w)
      BY <3>3, <1>0 DEF Apply, FailMatch, Crash, Finish, Idle
    <3>4. CASE Outlive(w)
      BY <3>4, <1>0 DEF Outlive, Pass
    <3> QED BY <1>8, <3>1, <3>2, <3>3, <3>4
  <2> QED BY <1>1, <2>1, <2>2, <2>3
<1>9. CASE Touch
  BY <1>1, <1>9 DEF Touch
<1>10. CASE UNCHANGED vars
  BY <1>1, <1>10 DEF vars
<1> QED BY <1>2, <1>3, <1>4, <1>5, <1>6, <1>7, <1>8, <1>9, <1>10 DEF Next, PassStep, Requests

\* A row that says completed has its text in the memory, unless it was stored
\* again while a pass or a confirmation had it (CompletedArrived).
THEOREM CompletedArrivedHolds == Spec => []CompletedArrived
<1> DEFINE IInv == TypeInv /\ CompletedArrived /\ ReadCurrent
<1>1. Init => IInv
  <2>1. Init => CompletedArrived /\ ReadCurrent
    BY DEF Init, CompletedArrived, ReadCurrent, NoRow, Idle
  <2> QED BY <2>1, TypeInit
<1>2. IInv /\ [Next]_vars => IInv'
  BY TypeStep, ArrivedStep
<1>3. IInv => CompletedArrived
  OBVIOUS
<1> QED BY <1>1, <1>2, <1>3, PTL DEF Spec

-----------------------------------------------------------------------------
\* A match stays registered until it is applied, in every step.
LEMMA MatchStep ==
  TypeInv /\ StaleMatchIsRegistered /\ MatchCurrent /\ [Next]_vars
    => StaleMatchIsRegistered' /\ MatchCurrent'
<1> SUFFICES ASSUME TypeInv, StaleMatchIsRegistered, MatchCurrent, [Next]_vars
             PROVE  StaleMatchIsRegistered' /\ MatchCurrent'
  OBVIOUS
<1>0. slot \in [Slots -> Pass] /\ queue \in Queue
  BY DEF TypeInv, TypeOK
<1>1. ASSUME UNCHANGED <<tm, open, missed>>, queue.waiting => queue'.waiting,
             \A w \in Slots : slot'[w].at = "apply" =>
               slot[w].at = "apply" /\ slot'[w].match = slot[w].match
      PROVE  StaleMatchIsRegistered' /\ MatchCurrent'
  <2>1. StaleMatchIsRegistered'
    BY <1>1 DEF StaleMatchIsRegistered
  <2>2. MatchCurrent'
    BY <1>1 DEF MatchCurrent
  <2> QED BY <2>1, <2>2
<1>2. ASSUME NEW w \in Slots, Write(w) PROVE StaleMatchIsRegistered' /\ MatchCurrent'
  <2>1. /\ queue'.waiting /\ UNCHANGED open
        /\ slot'[w].at # "apply" /\ \A v \in Slots \ {w} : slot'[v] = slot[v]
    BY <1>0, <1>2 DEF Write, Goto, Registered, Pass
  <2>2. ~missed' => \A v \in Slots \ {w} : slot[v].at # "apply"
    BY <1>2, Zenon DEF Write, Matching
  <2> QED BY <2>1, <2>2 DEF StaleMatchIsRegistered, MatchCurrent
<1>3. ASSUME NEW w \in Slots, Read(w, queue.waiting) \/ Read(w, TRUE),
             UNCHANGED <<tm, open>>, queue.waiting => queue'.waiting,
             \/ UNCHANGED missed
             \/ queue'.waiting /\ (~missed' => \A v \in Slots \ {w} : slot[v].at # "apply")
      PROVE  StaleMatchIsRegistered' /\ MatchCurrent'
  <2>1. /\ slot'[w].match.text = tm /\ slot'[w].match.version = open.version
        /\ \A v \in Slots \ {w} : slot'[v] = slot[v]
    BY <1>0, <1>3 DEF Read, Pass
  <2>2. StaleMatchIsRegistered'
    BY <1>3 DEF StaleMatchIsRegistered
  <2>3. MatchCurrent'
    BY <1>3, <2>1 DEF MatchCurrent
  <2> QED BY <2>2, <2>3
<1>4. ASSUME NEW w \in Slots, Mark(w) PROVE StaleMatchIsRegistered' /\ MatchCurrent'
  <2>1. Read(w, queue.waiting) /\ UNCHANGED <<tm, open, missed>>
    BY <1>4 DEF Mark
  <2>2. queue'.waiting = queue.waiting
    BY <1>0, <1>4 DEF Mark, Queue
  <2> QED BY <1>3, <2>1, <2>2
<1>5. ASSUME NEW w \in Slots, Apply(w) PROVE StaleMatchIsRegistered' /\ MatchCurrent'
  <2>1. /\ slot[w].at = "apply" /\ UNCHANGED <<tm, missed>>
        /\ slot'[w].at # "apply" /\ \A v \in Slots \ {w} : slot'[v] = slot[v]
    BY <1>0, <1>5 DEF Apply, Finish, Idle
  <2>2. ~missed' => open'.text = tm'
    <3> SUFFICES ASSUME ~missed PROVE open'.text = tm
      BY <2>1
    <3>1. /\ slot[w].match.text = tm
          /\ slot[w].match.version = open.version \/ open.text = tm
      BY <2>1 DEF MatchCurrent
    <3> QED BY <3>1, <1>5 DEF Apply
  <2>3. \A v \in Slots \ {w} : slot'[v].at = "apply" /\ ~missed' => slot'[v].match.text = tm'
    BY <2>1 DEF MatchCurrent
  <2>4. StaleMatchIsRegistered'
    BY <2>2 DEF StaleMatchIsRegistered
  <2>5. MatchCurrent'
    BY <2>1, <2>2, <2>3 DEF MatchCurrent
  <2> QED BY <2>4, <2>5
<1>6. ASSUME NEW w \in Slots, NEW x \in Texts, Edit(w, x)
      PROVE  StaleMatchIsRegistered' /\ MatchCurrent'
  BY <1>6, Zenon DEF Edit, StaleMatchIsRegistered, MatchCurrent
<1>7. ASSUME NEW w \in Slots, Notify(w) PROVE StaleMatchIsRegistered' /\ MatchCurrent'
  <2>1. CASE queue.status = "pending"
    <3>1. queue' = [status |-> "running", waiting |-> TRUE] /\ Read(w, TRUE) /\ UNCHANGED <<tm, open>>
      BY <1>7, <2>1 DEF Notify
    <3>2. ~missed' => \A v \in Slots \ {w} : slot[v].at # "apply"
      BY <1>7, <2>1, Zenon DEF Notify, Matching
    <3> QED BY <1>3, <3>1, <3>2
  <2>2. CASE queue.status # "pending"
    BY <1>0, <1>1, <1>7, <2>2 DEF Notify, Finish, Idle
  <2> QED BY <2>1, <2>2
<1>8. CASE Touch
  <2>1. /\ UNCHANGED <<tm, queue, slot>> /\ open'.text = open.text
        /\ ~missed' => ~missed /\ \A w \in Slots : slot[w].at # "apply"
    <3>1. open \in [text: Texts \cup {None}, version: Nat]
      BY DEF TypeInv, TypeOK
    <3>2. UNCHANGED <<tm, queue, slot>> /\ open'.text = open.text
      BY <3>1, <1>8 DEF Touch
    <3>3. ~missed' => ~missed /\ \A w \in Slots : slot[w].at # "apply"
      BY <1>8, Zenon DEF Touch
    <3> QED BY <3>2, <3>3
  <2> QED BY <2>1 DEF StaleMatchIsRegistered, MatchCurrent
<1>9. ASSUME NEW w \in Slots, FailMatch(w) PROVE StaleMatchIsRegistered' /\ MatchCurrent'
  <2>1. queue'.waiting = queue.waiting
    BY <1>0, <1>9 DEF FailMatch, PutBack, Queue
  <2>2. UNCHANGED <<tm, open, missed>> /\ slot'[w].at # "apply" /\ \A v \in Slots \ {w} : slot'[v] = slot[v]
    BY <1>0, <1>9 DEF FailMatch, Finish, Idle
  <2> QED BY <1>1, <2>1, <2>2
<1>10. ASSUME NEW u \in Users, Hush(u) \/ Requests(u) PROVE StaleMatchIsRegistered' /\ MatchCurrent'
  BY <1>1, <1>10 DEF Hush, Requests, Confirm, Commit, Tell
<1>11. ASSUME NEW w \in Slots,
              \/ Start(w) \/ Claim(w) \/ Load(w) \/ Embed(w) \/ Fail(w)
              \/ (\E due \in BOOLEAN : Look(w, due)) \/ Crash(w) \/ Outlive(w)
       PROVE  StaleMatchIsRegistered' /\ MatchCurrent'
  <2>1. UNCHANGED <<tm, open, missed, queue>>
    BY <1>11 DEF Start, Claim, Load, Embed, Fail, Look, Crash, Outlive
  <2>2. \A v \in Slots \ {w} : slot'[v] = slot[v]
    BY <1>11, <1>0 DEF Start, Claim, Load, Embed, Fail, Look, Crash, Outlive, Goto, Finish
  <2>3. slot'[w].at # "apply" \/ (slot'[w].at = slot[w].at /\ slot'[w].match = slot[w].match)
    <3>1. CASE Start(w) \/ Embed(w)
      BY <3>1, <1>0 DEF Start, Embed, Idle
    <3>2. CASE Fail(w)
      BY <3>2, <1>0 DEF Fail, Idle, Pass
    <3>3. CASE Crash(w)
      BY <3>3, <1>0 DEF Crash, Finish, Idle
    <3>4. CASE Claim(w)
      BY <3>4, <1>0 DEF Claim, Goto, Pass
    <3>5. CASE Load(w)
      BY <3>5, <1>0 DEF Load, Pass
    <3>6. CASE \E due \in BOOLEAN : Look(w, due)
      BY <3>6, <1>0 DEF Look, Goto, Finish, Idle, Pass
    <3>7. CASE Outlive(w)
      BY <3>7, <1>0 DEF Outlive, Pass
    <3> QED BY <1>11, <3>1, <3>2, <3>3, <3>4, <3>5, <3>6, <3>7
  <2> QED BY <1>1, <2>1, <2>2, <2>3
<1>12. CASE UNCHANGED vars
  BY <1>1, <1>12 DEF vars
<1> QED BY <1>2, <1>4, <1>5, <1>6, <1>7, <1>8, <1>9, <1>10, <1>11, <1>12 DEF Next, PassStep

\* A match older than the memory is registered, unless the memory or the segment
\* changed while another pass was matching (StaleMatchIsRegistered).
THEOREM StaleMatchRegisteredHolds == Spec => []StaleMatchIsRegistered
<1> DEFINE IInv == TypeInv /\ StaleMatchIsRegistered /\ MatchCurrent
<1>1. Init => IInv
  <2>1. Init => StaleMatchIsRegistered /\ MatchCurrent
    BY DEF Init, StaleMatchIsRegistered, MatchCurrent, Idle
  <2> QED BY <2>1, TypeInit
<1>2. IInv /\ [Next]_vars => IInv'
  BY TypeStep, MatchStep
<1>3. IInv => StaleMatchIsRegistered
  OBVIOUS
<1> QED BY <1>1, <1>2, <1>3, PTL DEF Spec
=============================================================================
