------------------------- MODULE SyncOutbox_proofs -------------------------
(* Proofs about SyncOutbox, for any sets of keys and workers. *)
EXTENDS SyncOutbox, FiniteSetTheorems, TLAPS

(***************************************************************************)
(* Type correctness.                                                       *)
(***************************************************************************)

\* The upsert writes a row.
LEMMA UpsertedType ==
  ASSUME NEW r \in Row, NEW kind \in Kind
  PROVE  Upserted(r, kind) \in Row
BY DEF Upserted, Row, Status, Kind

\* What a worker writes to a row, and what pruning leaves of it, is a row.
LEMMA MarkedType ==
  ASSUME NEW r \in Row, NEW status \in Status, NEW n \in Nat
  PROVE  /\ Marked(r, status, n) \in Row
         /\ [Marked(r, status, n) EXCEPT !.gen = 0] \in Row
BY DEF Marked, Row

\* Leaving an item keeps the types of the worker's variables.
LEMMA ItemDoneType ==
  ASSUME TypeOK, NEW w \in Workers, ItemDone(w)
  PROVE  /\ todo' \in [Workers -> SUBSET Claim]
         /\ pc' \in [Workers -> PC]
         /\ cur' \in [Workers -> Claim \cup {NoClaim}]
         /\ \A v \in Workers : pc'[v] \in Busy => cur'[v] \in Claim
         /\ seen' \in [Workers -> Nat]
         /\ tried' \in [Workers -> Nat]
         /\ batches' \in [Workers -> Nat]
         /\ full' \in [Workers -> BOOLEAN]
BY DEF TypeOK, ItemDone, PC, Busy

\* No step takes a variable out of its type.
LEMMA TypeStep == ASSUME TypeOK, [Next]_vars PROVE TypeOK'
<1> USE SyncOutboxAssumption
<1>1. ASSUME NEW K \in SUBSET Keys, SaveConfirmed(K) PROVE TypeOK'
  <2>1. row' \in [Keys -> Row]
    BY <1>1, UpsertedType DEF SaveConfirmed, TypeOK, Kind
  <2>2. QED BY <1>1, <2>1 DEF SaveConfirmed, TypeOK, workerVars, budgetVars
<1>2. ASSUME NEW k \in Keys, Blur(k) PROVE TypeOK'
  <2>1. row' \in [Keys -> Row]
    BY <1>2, UpsertedType DEF Blur, TypeOK, Kind
  <2>2. QED BY <1>2, <2>1 DEF Blur, TypeOK, workerVars, budgetVars
<1>3. ASSUME NEW k \in Keys, LeaseExpires(k) PROVE TypeOK'
  <2>1. row' \in [Keys -> Row]
    BY <1>3 DEF LeaseExpires, TypeOK, Row
  <2>2. QED BY <1>3, <2>1 DEF LeaseExpires, TypeOK, workerVars, queueVars, budgetVars
<1>4. CASE Dispatch
  BY <1>4 DEF Dispatch, TypeOK, tableVars, workerVars, budgetVars
<1>5. CASE ApiCrash
  BY <1>5 DEF ApiCrash, TypeOK, tableVars, workerVars
<1>6. ASSUME NEW w \in Workers, StartRun(w) PROVE TypeOK'
  BY <1>6 DEF StartRun, TypeOK, PC, Busy, tableVars, budgetVars
<1>7. ASSUME NEW w \in Workers, ClaimBatch(w) PROVE TypeOK'
  <2>1. row' \in [Keys -> Row]
    <3>1. \A k \in Keys : Marked(row[k], "processing", row[k].attempts) \in Row
      BY MarkedType DEF TypeOK, Row, Status
    <3>2. QED BY <1>7, <3>1 DEF ClaimBatch, TypeOK
  <2>2. todo' \in [Workers -> SUBSET Claim]
    BY <1>7 DEF ClaimBatch, TypeOK, Claim, Row, Claimable
  <2>3. QED BY <1>7, <2>1, <2>2 DEF ClaimBatch, TypeOK, PC, Busy, queueVars, budgetVars
<1>8. ASSUME NEW w \in Workers, NextItem(w) PROVE TypeOK'
  BY <1>8 DEF NextItem, TypeOK, PC, Busy, tableVars, queueVars, budgetVars
<1>9. ASSUME NEW w \in Workers, CheckClaim(w) PROVE TypeOK'
  <2>1. CASE ItemDone(w)
    BY <1>9, <2>1, ItemDoneType DEF CheckClaim, TypeOK, tableVars, queueVars, budgetVars
  <2>2. CASE ~ItemDone(w)
    BY <1>9, <2>2 DEF CheckClaim, TypeOK, PC, Busy, tableVars, queueVars, budgetVars
  <2>3. QED BY <2>1, <2>2
<1>10. ASSUME NEW w \in Workers, Converge(w) PROVE TypeOK'
  BY <1>10 DEF Converge, TypeOK, PC, Busy, Claim, tableVars, queueVars, budgetVars
<1>11. ASSUME NEW w \in Workers, Finalize(w) PROVE TypeOK'
  <2>1. row' \in [Keys -> Row] /\ converged' \in [Keys -> Nat]
    <3>1. cur[w].key \in Keys
      BY <1>11 DEF Finalize, TypeOK, Busy, Claim
    <3>2. Marked(row[cur[w].key], "completed", row[cur[w].key].attempts) \in Row
      BY <3>1, MarkedType DEF TypeOK, Row, Status
    <3>3. QED BY <1>11, <3>1, <3>2 DEF Finalize, TypeOK
  <2>2. QED BY <1>11, <2>1, ItemDoneType DEF Finalize, TypeOK, queueVars, budgetVars
<1>12. ASSUME NEW w \in Workers, ConvergeFails(w) PROVE TypeOK'
  BY <1>12 DEF ConvergeFails, TypeOK, PC, Busy, Claim, queueVars
<1>13. ASSUME NEW w \in Workers, ReadAttempts(w) PROVE TypeOK'
  BY <1>13 DEF ReadAttempts, TypeOK, PC, Busy, Claim, Row, tableVars, queueVars, budgetVars
<1>14. ASSUME NEW w \in Workers, RecordFailure(w) PROVE TypeOK'
  <2>1. row' \in [Keys -> Row]
    <3>1. cur[w].key \in Keys /\ tried[w] + 1 \in Nat
      BY <1>14 DEF RecordFailure, TypeOK, Busy, Claim
    <3>2. \A s \in Status : Marked(row[cur[w].key], s, tried[w] + 1) \in Row
      BY <3>1, MarkedType DEF TypeOK
    <3>3. QED BY <1>14, <3>1, <3>2 DEF RecordFailure, TypeOK, Status
  <2>2. QED BY <1>14, <2>1, ItemDoneType DEF RecordFailure, TypeOK, queueVars, budgetVars
<1>15. ASSUME NEW w \in Workers, PruneAndEnd(w) PROVE TypeOK'
  <2>1. row' \in [Keys -> Row]
    <3>1. \A k \in Keys : [Marked(row[k], "absent", 0) EXCEPT !.gen = 0] \in Row
      BY MarkedType DEF TypeOK, Status
    <3>2. QED BY <1>15, <3>1 DEF PruneAndEnd, TypeOK
  <2>2. QED BY <1>15, <2>1 DEF PruneAndEnd, TypeOK, PC, Busy, queueVars, budgetVars
<1>16. ASSUME NEW w \in Workers, WorkerCrash(w) PROVE TypeOK'
  BY <1>16 DEF WorkerCrash, TypeOK, PC, Busy, tableVars
<1>17. CASE UNCHANGED vars
  BY <1>17 DEF vars, TypeOK, tableVars, workerVars, queueVars, budgetVars
<1> QED
  BY <1>1, <1>2, <1>3, <1>4, <1>5, <1>6, <1>7, <1>8, <1>9, <1>10, <1>11,
     <1>12, <1>13, <1>14, <1>15, <1>16, <1>17 DEF Next, WorkerStep

\* Every variable keeps its type, in every state of every behaviour.
THEOREM TypeCorrect == Spec => []TypeOK
<1>1. Init => TypeOK
  BY SyncOutboxAssumption DEF Init, TypeOK, Row, Status, Kind, PC, Busy
<1>2. TypeOK /\ [Next]_vars => TypeOK'
  BY TypeStep
<1>3. QED BY <1>1, <1>2, PTL DEF Spec

(***************************************************************************)
(* No confirmed save is lost.                                              *)
(***************************************************************************)

\* A row only moves forward: to a later generation, or to a later id.
Forward(k) ==
  /\ row[k].id <= row[k].id'
  /\ row[k].id = row[k].id' /\ row[k].status' # "absent" =>
       row[k].status # "absent" /\ row[k].gen <= row[k].gen'

\* An upsert gives a row either a new id or the next generation.
LEMMA UpsertMoves ==
  ASSUME NEW r \in Row, NEW kind \in Kind
  PROVE  /\ r.id <= Upserted(r, kind).id
         /\ r.id = Upserted(r, kind).id =>
              r.status # "absent" /\ r.gen < Upserted(r, kind).gen
BY DEF Upserted, Row

\* A worker's write leaves the identity of a row alone.
LEMMA MarkedFields ==
  ASSUME NEW r, NEW status, NEW n
  PROVE  /\ Marked(r, status, n).id = r.id
         /\ Marked(r, status, n).gen = r.gen
         /\ Marked(r, status, n).kind = r.kind
         /\ Marked(r, status, n).status = status
         /\ [Marked(r, status, n) EXCEPT !.gen = 0].id = r.id
         /\ [Marked(r, status, n) EXCEPT !.gen = 0].kind = r.kind
         /\ [Marked(r, status, n) EXCEPT !.gen = 0].status = status
BY DEF Marked

\* What each step does to a row, its key's content and the convergences.
RowStep(k) ==
  \/ row[k]' = row[k] /\ content[k]' = content[k] /\ converged[k]' = converged[k]
  \/ /\ \E kind \in Kind : /\ kind = "blur" => BlurEnabled
                           /\ row[k]' = Upserted(row[k], kind)
     /\ converged[k]' = converged[k]
  \/ /\ row[k].status # "absent" /\ row[k]'.status \notin {"absent", "completed"}
     /\ row[k]'.id = row[k].id /\ row[k]'.gen = row[k].gen /\ row[k]'.kind = row[k].kind
     /\ content[k]' = content[k] /\ converged[k]' = converged[k]
  \/ /\ row[k].status = "completed" /\ row[k]'.status = "absent"
     /\ row[k]'.id = row[k].id /\ row[k]'.kind = row[k].kind
     /\ content[k]' = content[k] /\ converged[k]' = converged[k]
  \/ /\ row[k].status = "processing" /\ row[k]'.status = "completed"
     /\ row[k]'.id = row[k].id /\ row[k]'.gen = row[k].gen /\ row[k]'.kind = row[k].kind
     /\ content[k]' = content[k]
     /\ \E w \in Workers : /\ pc[w] = "finalize" /\ cur[w].key = k /\ Holds(cur[w])
                           /\ cur[w].kind = "confirmed" => converged[k]' = seen[w]

\* What any step does to one row: nothing, an upsert, a worker's write, the
\* deletion of a completed row, or the completion by a worker that holds it.
LEMMA EveryRowStep ==
  ASSUME TypeOK, [Next]_vars, NEW k \in Keys PROVE RowStep(k)
<1> USE SyncOutboxAssumption
<1> row[k] \in Row
  BY DEF TypeOK
<1>1. ASSUME NEW K \in SUBSET Keys, SaveConfirmed(K) PROVE RowStep(k)
  BY <1>1 DEF SaveConfirmed, RowStep, TypeOK, Kind
<1>2. ASSUME NEW j \in Keys, Blur(j) PROVE RowStep(k)
  BY <1>2 DEF Blur, RowStep, TypeOK, Kind
<1>3. ASSUME NEW j \in Keys, LeaseExpires(j) PROVE RowStep(k)
  <2>1. CASE j = k
    <3>1. row[k]' = [row[k] EXCEPT !.expired = TRUE]
      BY <1>3, <2>1 DEF LeaseExpires, TypeOK
    <3>2. QED BY <1>3, <2>1, <3>1 DEF LeaseExpires, RowStep, Row
  <2>2. CASE j # k
    BY <1>3, <2>2 DEF LeaseExpires, RowStep, TypeOK
  <2>3. QED BY <2>1, <2>2
<1>4. ASSUME UNCHANGED <<row, content, converged>> PROVE RowStep(k)
  BY <1>4 DEF RowStep
<1>5. ASSUME NEW w \in Workers, ClaimBatch(w) PROVE RowStep(k)
  <2>1. PICK S \in SUBSET Claimable :
          row' = [j \in Keys |-> IF j \in S
                    THEN Marked(row[j], "processing", row[j].attempts) ELSE row[j]]
    BY <1>5 DEF ClaimBatch
  <2>2. CASE k \in S
    <3>1. row[k]' = Marked(row[k], "processing", row[k].attempts)
      BY <2>1, <2>2
    <3>2. row[k].status # "absent"
      BY <2>2 DEF Claimable
    <3>3. QED BY <1>5, <3>1, <3>2, MarkedFields DEF RowStep, ClaimBatch
  <2>3. CASE k \notin S
    BY <1>5, <2>1, <2>3 DEF ClaimBatch, RowStep
  <2>4. QED BY <2>2, <2>3
<1>6. ASSUME NEW w \in Workers, Finalize(w) PROVE RowStep(k)
  <2>1. CASE Holds(cur[w]) /\ cur[w].key = k
    <3>1. row[k]' = Marked(row[k], "completed", row[k].attempts)
      BY <1>6, <2>1 DEF Finalize, TypeOK
    <3>2. cur[w].kind = "confirmed" => converged[k]' = seen[w]
      BY <1>6, <2>1 DEF Finalize, TypeOK
    <3>3. pc[w] = "finalize" /\ content' = content
      BY <1>6 DEF Finalize
    <3>4. row[k].status = "processing"
      BY <2>1 DEF Holds
    <3>5. QED BY <2>1, <3>1, <3>2, <3>3, <3>4, MarkedFields DEF RowStep
  <2>2. CASE ~(Holds(cur[w]) /\ cur[w].key = k)
    BY <1>6, <2>2 DEF Finalize, RowStep, TypeOK
  <2>3. QED BY <2>1, <2>2
<1>7. ASSUME NEW w \in Workers, RecordFailure(w) PROVE RowStep(k)
  <2>1. CASE Holds(cur[w]) /\ cur[w].key = k
    <3>1. PICK s \in {"failed", "pending"} : row[k]' = Marked(row[k], s, tried[w] + 1)
      BY <1>7, <2>1 DEF RecordFailure, TypeOK
    <3>2. row[k].status = "processing"
      BY <2>1 DEF Holds
    <3>3. UNCHANGED <<content, converged>>
      BY <1>7 DEF RecordFailure
    <3>4. QED BY <3>1, <3>2, <3>3, MarkedFields DEF RowStep
  <2>2. CASE ~(Holds(cur[w]) /\ cur[w].key = k)
    BY <1>7, <2>2 DEF RecordFailure, RowStep, TypeOK
  <2>3. QED BY <2>1, <2>2
<1>8. ASSUME NEW w \in Workers, PruneAndEnd(w) PROVE RowStep(k)
  <2>1. PICK old \in SUBSET {j \in Keys : row[j].status = "completed"} :
          row' = [j \in Keys |-> IF j \in old
                    THEN [Marked(row[j], "absent", 0) EXCEPT !.gen = 0] ELSE row[j]]
    BY <1>8 DEF PruneAndEnd
  <2>2. CASE k \in old
    <3>1. row[k]' = [Marked(row[k], "absent", 0) EXCEPT !.gen = 0]
      BY <2>1, <2>2
    <3>2. QED BY <1>8, <2>2, <3>1, MarkedFields DEF RowStep, PruneAndEnd
  <2>3. CASE k \notin old
    BY <1>8, <2>1, <2>3 DEF PruneAndEnd, RowStep
  <2>4. QED BY <2>2, <2>3
<1>9. QED
  BY <1>1, <1>2, <1>3, <1>4, <1>5, <1>6, <1>7, <1>8
  DEF Next, WorkerStep, vars, tableVars, Dispatch, ApiCrash, StartRun, NextItem,
      CheckClaim, Converge, ConvergeFails, ReadAttempts, WorkerCrash

\* Ids and generations of a row never go back.
LEMMA RowsMoveForward ==
  ASSUME TypeOK, [Next]_vars, NEW k \in Keys
  PROVE  /\ Forward(k)
         /\ \/ content[k]' = content[k]
            \/ \E kind \in Kind : row[k]' = Upserted(row[k], kind)
<1>1. row[k] \in Row /\ row[k].id \in Nat /\ row[k].gen \in Nat
  BY DEF TypeOK, Row
<1>2. ASSUME NEW kind \in Kind, row[k]' = Upserted(row[k], kind) PROVE Forward(k)
  BY <1>1, <1>2, UpsertMoves DEF Forward, Upserted
<1>3. QED
  BY <1>1, <1>2, EveryRowStep DEF RowStep, Forward

\* The claims a worker holds after a step, it held before or has just taken.
LEMMA HeldStep ==
  ASSUME TypeOK, [Next]_vars, NEW w \in Workers, NEW c \in Held(w)'
  PROVE  \/ c \in Held(w)
         \/ /\ c \in Claim /\ c.key \in Claimable
            /\ c.id = row[c.key].id /\ c.gen = row[c.key].gen
            /\ c.kind \in ClaimKinds(c.key)
<1> USE DEF Held, Busy
<1>1. CASE UNCHANGED <<todo, cur, pc>>
  BY <1>1
<1>2. ASSUME NEW v \in Workers, ClaimBatch(v)
      PROVE  \/ c \in Held(w)
             \/ /\ c \in Claim /\ c.key \in Claimable
                /\ c.id = row[c.key].id /\ c.gen = row[c.key].gen
                /\ c.kind \in ClaimKinds(c.key)
  <2>1. CASE v = w
    <3>1. PICK S \in SUBSET Claimable : \E kinds \in [S -> Kind] :
            /\ \A k \in S : kinds[k] \in ClaimKinds(k)
            /\ todo' = [todo EXCEPT ![w] =
                 {[key |-> k, id |-> row[k].id, gen |-> row[k].gen, kind |-> kinds[k]] : k \in S}]
      BY <1>2, <2>1 DEF ClaimBatch
    <3>2. PICK kinds \in [S -> Kind] :
            /\ \A k \in S : kinds[k] \in ClaimKinds(k)
            /\ todo' = [todo EXCEPT ![w] =
                 {[key |-> k, id |-> row[k].id, gen |-> row[k].gen, kind |-> kinds[k]] : k \in S}]
      BY <3>1
    <3>3. pc'[w] = "next"
      BY <1>2, <2>1 DEF ClaimBatch, TypeOK
    <3>4. PICK k \in S : c = [key |-> k, id |-> row[k].id, gen |-> row[k].gen, kind |-> kinds[k]]
      BY <3>2, <3>3 DEF TypeOK
    <3>5. row[k] \in Row /\ k \in Keys
      BY <3>4 DEF TypeOK, Claimable
    <3>6. QED BY <3>2, <3>4, <3>5 DEF Claim, Row
  <2>2. CASE v # w
    BY <1>2, <2>2 DEF ClaimBatch, TypeOK
  <2>3. QED BY <2>1, <2>2
<1>3. ASSUME NEW v \in Workers, NextItem(v) PROVE c \in Held(w)
  BY <1>3 DEF NextItem, TypeOK
<1>4. ASSUME NEW v \in Workers, ItemDone(v) PROVE c \in Held(w)
  BY <1>4 DEF ItemDone, TypeOK
<1>6. ASSUME NEW v \in Workers, StartRun(v) \/ PruneAndEnd(v) \/ WorkerCrash(v)
      PROVE  c \in Held(w)
  BY <1>6 DEF StartRun, PruneAndEnd, WorkerCrash, TypeOK
<1>7. ASSUME NEW v \in Workers, CheckClaim(v) \/ Converge(v) \/ Finalize(v) \/ ConvergeFails(v)
                             \/ ReadAttempts(v) \/ RecordFailure(v)
      PROVE  c \in Held(w)
  BY <1>4, <1>7 DEF CheckClaim, Converge, Finalize, ConvergeFails, ReadAttempts, RecordFailure, TypeOK
<1>8. QED
  BY <1>1, <1>2, <1>3, <1>6, <1>7
  DEF Next, WorkerStep, vars, workerVars, SaveConfirmed, Blur, LeaseExpires, Dispatch, ApiCrash

\* So the claims that trail their rows go on doing so.
LEMMA ClaimsTrail ==
  ASSUME TypeOK, OutboxInv, [Next]_vars PROVE ClaimsTrailRows'
<1> SUFFICES ASSUME NEW w \in Workers, NEW c \in Held(w)'
             PROVE  /\ c.id <= row[c.key].id'
                    /\ row[c.key].status' # "absent" /\ c.id = row[c.key].id' =>
                         c.gen <= row[c.key].gen'
  BY DEF ClaimsTrailRows
<1>1. CASE c \in Held(w)
  <2>1. c \in Claim
    BY <1>1 DEF Held, TypeOK
  <2>2. row[c.key] \in Row /\ row[c.key]' \in Row /\ c.key \in Keys
    BY <2>1, TypeStep DEF TypeOK, Claim
  <2>3. Forward(c.key)
    BY <2>2, RowsMoveForward
  <2>4. /\ c.id <= row[c.key].id
        /\ row[c.key].status # "absent" /\ c.id = row[c.key].id => c.gen <= row[c.key].gen
    BY <1>1 DEF OutboxInv, ClaimsTrailRows
  <2>5. QED BY <2>1, <2>2, <2>3, <2>4 DEF Forward, Claim, Row
<1>2. CASE c \notin Held(w)
  <2>1. c.key \in Claimable /\ c.id = row[c.key].id /\ c.gen = row[c.key].gen
    BY <1>2, HeldStep
  <2>2. row[c.key] \in Row /\ row[c.key]' \in Row /\ c.key \in Keys
    BY <2>1, TypeStep DEF TypeOK, Claimable
  <2>3. Forward(c.key)
    BY <2>2, RowsMoveForward
  <2>4. QED BY <2>1, <2>2, <2>3 DEF Forward, Row
<1>3. QED BY <1>1, <1>2

\* Work whose claim is still current has missed no save: a save would have moved
\* the row away from the claim.
LEMMA FreshStays ==
  ASSUME TypeOK, OutboxInv, [Next]_vars PROVE CurrentWorkIsFresh'
<1> SUFFICES ASSUME NEW w \in Workers, pc[w]' = "finalize", Current(cur[w])'
             PROVE  seen[w]' = content[cur[w].key]'
  BY DEF CurrentWorkIsFresh
<1>1. CASE pc[w] = "finalize" /\ cur[w]' = cur[w] /\ seen[w]' = seen[w]
  <2> PICK c \in Claim : c = cur[w]
    BY <1>1 DEF TypeOK, Busy
  <2>1. c \in Held(w)
    BY <1>1 DEF Busy, Held
  <2>2. row[c.key] \in Row /\ row[c.key]' \in Row /\ c.key \in Keys
    BY <2>1, TypeStep DEF TypeOK, Claim
  <2>3. /\ c.id <= row[c.key].id
        /\ row[c.key].status # "absent" /\ c.id = row[c.key].id => c.gen <= row[c.key].gen
    BY <2>1 DEF OutboxInv, ClaimsTrailRows
  <2>4. /\ row[c.key]'.status # "absent"
        /\ c.id = row[c.key]'.id
        /\ c.gen = row[c.key]'.gen
    BY <1>1 DEF Current
  <2>5. Forward(c.key)
    BY <2>2, RowsMoveForward
  <2>6. Current(c)
    BY <2>1, <2>2, <2>3, <2>4, <2>5 DEF Current, Forward, Claim, Row
  <2>7. \A kind \in Kind : row[c.key]' # Upserted(row[c.key], kind)
    <3> SUFFICES ASSUME NEW kind \in Kind, row[c.key]' = Upserted(row[c.key], kind)
                 PROVE FALSE
      OBVIOUS
    <3>1. row[c.key].id = Upserted(row[c.key], kind).id
      BY <2>4, <2>6 DEF Current
    <3>2. row[c.key].gen < Upserted(row[c.key], kind).gen
      BY <2>2, <3>1, UpsertMoves
    <3>3. row[c.key].gen = Upserted(row[c.key], kind).gen
      BY <2>4, <2>6 DEF Current
    <3>4. QED BY <2>2, <3>2, <3>3 DEF Row
  <2>8. content[c.key]' = content[c.key]
    BY <2>2, <2>7, RowsMoveForward
  <2>9. QED BY <1>1, <2>6, <2>8 DEF OutboxInv, CurrentWorkIsFresh
<1>2. CASE Converge(w)
  BY <1>2 DEF Converge, TypeOK, tableVars
<1>3. QED
  BY <1>1, <1>2
  DEF Next, WorkerStep, vars, workerVars, SaveConfirmed, Blur, LeaseExpires, Dispatch, ApiCrash,
      StartRun, ClaimBatch, NextItem, CheckClaim, Converge, Finalize, ItemDone, ConvergeFails,
      ReadAttempts, RecordFailure, PruneAndEnd, WorkerCrash, TypeOK

\* Without the blur trigger every row and every claim is a confirmed one.
LEMMA KindsStay ==
  ASSUME TypeOK, ~BlurEnabled, OnlyConfirmedKinds, [Next]_vars PROVE OnlyConfirmedKinds'
<1>1. ASSUME NEW k \in Keys PROVE row[k].kind' = "confirmed"
  <2>1. ASSUME NEW kind \in Kind, kind = "blur" => BlurEnabled, row[k]' = Upserted(row[k], kind)
        PROVE  row[k].kind' = "confirmed"
    BY <2>1 DEF Upserted, Kind
  <2>2. row[k].kind = "confirmed"
    BY DEF OnlyConfirmedKinds
  <2>3. RowStep(k)
    BY EveryRowStep
  <2>4. QED BY <2>1, <2>2, <2>3 DEF RowStep
<1>2. ASSUME NEW w \in Workers, NEW c \in Held(w)' PROVE c.kind = "confirmed"
  BY HeldStep DEF OnlyConfirmedKinds, ClaimKinds, Claimable
<1>3. QED BY <1>1, <1>2 DEF OnlyConfirmedKinds

\* A row becomes completed only by current work, and leaves that state only by an
\* upsert or a deletion.
LEMMA NoLossStep ==
  ASSUME TypeOK, ~BlurEnabled, OutboxInv, [Next]_vars PROVE NoLostConfirmation'
<1> SUFFICES ASSUME NEW k \in Keys, row[k]'.status \in {"completed", "absent"}
             PROVE  converged[k]' = content[k]'
  BY DEF NoLostConfirmation
<1>1. ASSUME NEW w \in Workers, pc[w] = "finalize", cur[w].key = k, Holds(cur[w]),
             cur[w].kind = "confirmed" => converged[k]' = seen[w]
      PROVE  converged[k]' = content[k]
  <2>1. cur[w] \in Held(w)
    BY <1>1 DEF Held, Busy
  <2>2. cur[w].kind = "confirmed"
    BY <2>1 DEF OutboxInv, OnlyConfirmedKinds
  <2>3. Current(cur[w])
    BY <1>1 DEF Holds, Current
  <2>4. QED BY <1>1, <2>2, <2>3 DEF OutboxInv, CurrentWorkIsFresh
<1>2. ASSUME NEW kind \in Kind, row[k]' = Upserted(row[k], kind) PROVE FALSE
  BY <1>2 DEF Upserted
<1>3. RowStep(k)
  BY EveryRowStep
<1>4. row[k].status \in {"completed", "absent"} => converged[k] = content[k]
  BY DEF OutboxInv, NoLostConfirmation
<1>5. QED BY <1>1, <1>2, <1>3, <1>4 DEF RowStep

\* Claims trail their rows, current work is fresh and, without the blur trigger,
\* no completed row hides a confirmed save: in every reachable state.
THEOREM OutboxInvariant == Spec => []OutboxInv
<1>1. Init => OutboxInv
  BY DEF Init, OutboxInv, ClaimsTrailRows, CurrentWorkIsFresh, OnlyConfirmedKinds,
         NoLostConfirmation, Held, Busy
<1>2. TypeOK /\ OutboxInv /\ [Next]_vars => OutboxInv'
  <2> SUFFICES ASSUME TypeOK, OutboxInv, [Next]_vars PROVE OutboxInv'
    OBVIOUS
  <2>1. CASE BlurEnabled
    BY <2>1, ClaimsTrail, FreshStays DEF OutboxInv
  <2>2. CASE ~BlurEnabled
    BY <2>2, ClaimsTrail, FreshStays, KindsStay, NoLossStep DEF OutboxInv
  <2>3. QED BY <2>1, <2>2
<1>3. QED BY <1>1, <1>2, TypeCorrect, PTL DEF Spec

\* Where the blur trigger is off (its default), a completed row owes nothing.
THEOREM NoConfirmationIsLost ==
  ASSUME ~BlurEnabled PROVE Spec => []NoLostConfirmation
<1>1. OutboxInv => NoLostConfirmation
  BY DEF OutboxInv
<1>2. QED BY <1>1, OutboxInvariant, PTL

(***************************************************************************)
(* The protocol implements SyncPromise.                                    *)
(***************************************************************************)

\* A step that leaves counts and states of the rows alone is a stutter of SyncPromise.
LEMMA Stutters ==
  ASSUME UNCHANGED <<content, converged>>, \A k \in Keys : Due(row[k])' = Due(row[k])
  PROVE  UNCHANGED Promise!vars
BY DEF Promise!vars, Due

\* Every step of the protocol is a step of SyncPromise or a stutter.
LEMMA StepRefines ==
  ASSUME TypeOK, ~BlurEnabled, OutboxInv, [Next]_vars
  PROVE  [Promise!Next]_(Promise!vars)
<1>1. ASSUME NEW K \in SUBSET Keys, SaveConfirmed(K) PROVE Promise!Request(K)
  BY <1>1 DEF SaveConfirmed, Promise!Request, Due, Upserted
<1>2. ASSUME NEW k \in Keys, LeaseExpires(k) PROVE UNCHANGED Promise!vars
  <2>1. \A j \in Keys : row[j].status' = row[j].status
    BY <1>2 DEF LeaseExpires, TypeOK, Row
  <2>2. QED BY <1>2, <2>1, Stutters DEF Due, LeaseExpires
<1>3. ASSUME NEW w \in Workers, ClaimBatch(w) PROVE UNCHANGED Promise!vars
  <2>1. PICK S \in SUBSET Claimable :
          row' = [j \in Keys |-> IF j \in S
                    THEN Marked(row[j], "processing", row[j].attempts) ELSE row[j]]
    BY <1>3 DEF ClaimBatch
  <2>2. \A j \in Keys : Due(row[j])' = Due(row[j])
    BY <2>1, MarkedFields DEF Due, Claimable
  <2>3. QED BY <1>3, <2>2, Stutters DEF ClaimBatch
<1>4. ASSUME NEW w \in Workers, Finalize(w)
      PROVE  [Promise!Next]_(Promise!vars)
  <2>1. PICK c \in Claim : c = cur[w]
    BY <1>4 DEF Finalize, TypeOK, Busy
  <2>2. CASE Holds(c)
    <3>1. c \in Held(w) /\ c.key \in Keys
      BY <1>4, <2>1 DEF Finalize, Held, Busy, Claim
    <3>2. c.kind = "confirmed"
      BY <3>1 DEF OutboxInv, OnlyConfirmedKinds
    <3>3. seen[w] = content[c.key]
      BY <1>4, <2>1, <2>2 DEF Finalize, Holds, Current, OutboxInv, CurrentWorkIsFresh
    <3>4. row' = [row EXCEPT ![c.key] = Marked(@, "completed", @.attempts)]
      BY <1>4, <2>1, <2>2 DEF Finalize
    <3>5. converged' = [converged EXCEPT ![c.key] = content[c.key]]
      BY <1>4, <2>1, <2>2, <3>2, <3>3 DEF Finalize
    <3>6. Due(row[c.key]) = "due"
      BY <2>2 DEF Holds, Due
    <3>7. [k \in Keys |-> Due(row[k])]' =
            [[k \in Keys |-> Due(row[k])] EXCEPT ![c.key] = "met"]
      <4>1. row'[c.key].status = "completed"
        BY <3>1, <3>4, MarkedFields DEF TypeOK
      <4>2. \A k \in Keys : k # c.key => row'[k] = row[k]
        BY <3>1, <3>4 DEF TypeOK
      <4>3. \A k \in Keys : Due(row[k])' = IF k = c.key THEN "met" ELSE Due(row[k])
        BY <4>1, <4>2 DEF Due
      <4>4. QED BY <4>3
    <3>8. Promise!Meet(c.key)
      BY <1>4, <3>1, <3>5, <3>6, <3>7 DEF Promise!Meet, Finalize
    <3>9. QED BY <3>1, <3>8 DEF Promise!Next
  <2>3. CASE ~Holds(c)
    BY <1>4, <2>1, <2>3, Stutters DEF Finalize, Due
  <2>4. QED BY <2>2, <2>3
<1>5. ASSUME NEW w \in Workers, RecordFailure(w)
      PROVE  [Promise!Next]_(Promise!vars)
  <2>1. PICK c \in Claim : c = cur[w]
    BY <1>5 DEF RecordFailure, TypeOK, Busy
  <2>2. c.key \in Keys
    BY DEF Claim
  <2>3. CASE Holds(c)
    <3>1. PICK s \in {"failed", "pending"} :
            row' = [row EXCEPT ![c.key] = Marked(@, s, tried[w] + 1)]
      BY <1>5, <2>1, <2>3 DEF RecordFailure
    <3>2. Due(row[c.key]) = "due"
      BY <2>3 DEF Holds, Due
    <3>3. CASE s = "failed"
      <4>1. [k \in Keys |-> Due(row[k])]' =
              [[k \in Keys |-> Due(row[k])] EXCEPT ![c.key] = "dropped"]
        <5>1. row'[c.key].status = "failed"
          BY <2>2, <3>1, <3>3, MarkedFields DEF TypeOK
        <5>2. \A k \in Keys : k # c.key => row'[k] = row[k]
          BY <2>2, <3>1 DEF TypeOK
        <5>3. \A k \in Keys : Due(row[k])' = IF k = c.key THEN "dropped" ELSE Due(row[k])
          BY <5>1, <5>2 DEF Due
        <5>4. QED BY <5>3
      <4>2. Promise!Drop(c.key)
        BY <1>5, <3>2, <4>1, <2>2 DEF Promise!Drop, RecordFailure
      <4>3. QED BY <2>2, <4>2 DEF Promise!Next
    <3>4. CASE s = "pending"
      <4>1. \A k \in Keys : Due(row[k])' = Due(row[k])
        BY <2>2, <3>1, <3>2, <3>4, MarkedFields DEF Due, TypeOK
      <4>2. QED BY <1>5, <4>1, Stutters DEF RecordFailure
    <3>5. QED BY <3>3, <3>4
  <2>4. CASE ~Holds(c)
    BY <1>5, <2>1, <2>4, Stutters DEF RecordFailure, Due
  <2>5. QED BY <2>3, <2>4
<1>6. ASSUME NEW w \in Workers, PruneAndEnd(w)
      PROVE  \E old \in SUBSET Keys : Promise!Forget(old)
  <2>1. PICK old \in SUBSET {j \in Keys : row[j].status = "completed"} :
          row' = [j \in Keys |-> IF j \in old
                    THEN [Marked(row[j], "absent", 0) EXCEPT !.gen = 0] ELSE row[j]]
    BY <1>6 DEF PruneAndEnd
  <2>2. Promise!Forget(old)
    <3>1. \A j \in Keys : Due(row[j])' = IF j \in old THEN "none" ELSE Due(row[j])
      BY <2>1, MarkedFields DEF Due
    <3>2. \A j \in old : j \in Keys /\ Due(row[j]) = "met"
      BY DEF Due
    <3>3. QED BY <1>6, <3>1, <3>2 DEF Promise!Forget, PruneAndEnd
  <2>3. QED BY <2>2
<1>7. ASSUME UNCHANGED <<row, content, converged>> PROVE UNCHANGED Promise!vars
  BY <1>7, Stutters DEF Due
<1>8. QED
  BY <1>1, <1>2, <1>3, <1>4, <1>5, <1>6, <1>7
  DEF Next, WorkerStep, vars, tableVars, Promise!Next, Blur, Dispatch, ApiCrash, StartRun,
      NextItem, CheckClaim, Converge, ConvergeFails, ReadAttempts, WorkerCrash

\* Without the blur trigger every behaviour of the rows, leases and workers is,
\* to an outside observer, a behaviour of SyncPromise.
THEOREM Refinement == ASSUME ~BlurEnabled PROVE Spec => KeepsPromise
<1>1. Init => Promise!Init
  BY DEF Init, Promise!Init, Due
<1>2. TypeOK /\ OutboxInv /\ [Next]_vars => [Promise!Next]_(Promise!vars)
  BY StepRefines
<1>3. QED
  BY <1>1, <1>2, TypeCorrect, OutboxInvariant, PTL DEF Spec, KeepsPromise, Promise!Spec
(***************************************************************************)
(* Failures are earned.                                                    *)
(***************************************************************************)

\* The handlers that have an exception of the row's present generation in hand
\* and have not read its attempts yet.
CaughtFor(k) ==
  {w \in Workers : pc[w] = "caught" /\ cur[w].key = k /\ Current(cur[w])}

\* Every exception is counted once at most: it is in the attempts of the row, in
\* the hands of a handler, or in what a handler is about to write.
Earned(k) ==
  /\ IsFiniteSet(CaughtFor(k))
  /\ row[k].attempts + Cardinality(CaughtFor(k)) <= strikes[k]
  /\ row[k].status = "failed" => strikes[k] >= MaxAttempts
  /\ \A w \in Workers :
       pc[w] = "record" /\ cur[w].key = k /\ Current(cur[w])
         => tried[w] + 1 + Cardinality(CaughtFor(k)) <= strikes[k]

EarnedInv == \A k \in Keys : Earned(k)

\* The row of k keeps its identity, so the same claims are current.
SameRow(k) ==
  /\ row[k].id' = row[k].id /\ row[k].gen' = row[k].gen
  /\ row[k].status = "absent" <=> row[k].status' = "absent"

\* Fewer exceptions in hand make nothing worse.
LEMMA FewerInHand ==
  ASSUME TypeOK', NEW k \in Keys, NEW C, IsFiniteSet(C), CaughtFor(k)' \subseteq C,
         row[k].attempts' + Cardinality(C) <= strikes[k]',
         row[k].status' = "failed" => strikes[k]' >= MaxAttempts,
         \A w \in Workers :
           pc[w]' = "record" /\ cur[w].key' = k /\ Current(cur[w])'
             => tried[w]' + 1 + Cardinality(C) <= strikes[k]'
  PROVE  Earned(k)'
<1> DEFINE D == CaughtFor(k)'
<1>1. IsFiniteSet(D) /\ Cardinality(D) <= Cardinality(C)
  BY FS_Subset
<1>2. Cardinality(D) \in Nat /\ Cardinality(C) \in Nat
  BY <1>1, FS_CardinalityType
<1>3. row[k].attempts' \in Nat /\ strikes[k]' \in Nat /\ \A w \in Workers : tried[w]' \in Nat
  BY DEF TypeOK, Row
<1> HIDE DEF D
<1>4. row[k].attempts' + Cardinality(D) <= strikes[k]'
  BY <1>1, <1>2, <1>3
<1>5. ASSUME NEW w \in Workers, pc[w]' = "record", cur[w].key' = k, Current(cur[w])'
      PROVE  tried[w]' + 1 + Cardinality(D) <= strikes[k]'
  <2>1. tried[w]' + 1 + Cardinality(C) <= strikes[k]'
    BY <1>5
  <2>2. QED BY <1>1, <1>2, <1>3, <2>1
<1>6. QED BY <1>1, <1>4, <1>5 DEF Earned, D

\* A step that leaves the identity, the attempts and the strikes of a row alone,
\* and takes no handler further.
LEMMA QuietStep ==
  ASSUME TypeOK, TypeOK', NEW k \in Keys, Earned(k), SameRow(k),
         row[k].attempts' = row[k].attempts, strikes[k]' = strikes[k],
         row[k].status' = "failed" => row[k].status = "failed",
         \A w \in Workers : pc[w]' \in {"caught", "record"} =>
           pc[w]' = pc[w] /\ cur[w]' = cur[w] /\ tried[w]' = tried[w]
  PROVE  Earned(k)'
<1>1. \A w \in Workers : pc[w]' \in {"caught", "record"} /\ cur[w].key' = k /\ Current(cur[w])'
        => cur[w].key = k /\ Current(cur[w])
  BY DEF Current, SameRow
<1>2. CaughtFor(k)' \subseteq CaughtFor(k)
  BY <1>1 DEF CaughtFor
<1>3. QED BY <1>1, <1>2, FewerInHand DEF Earned

\* A row that gets a new id or generation, or is deleted, leaves all claims behind.
LEMMA AllSuperseded ==
  ASSUME TypeOK', NEW k \in Keys, row[k].attempts' = 0, row[k].status' # "failed",
         \A w \in Workers : pc[w]' \in {"caught", "record"} =>
           ~(cur[w].key' = k /\ Current(cur[w])')
  PROVE  Earned(k)'
<1>1. CaughtFor(k)' \subseteq {}
  BY DEF CaughtFor
<1>2. strikes[k]' \in Nat
  BY DEF TypeOK
<1>3. QED BY <1>1, <1>2, FS_EmptySet, FewerInHand

\* No claim in hand is current for a row that has been upserted.
LEMMA UpsertSupersedes ==
  ASSUME TypeOK, TypeOK', OutboxInv, NEW k \in Keys, NEW kind \in Kind,
         row[k]' = Upserted(row[k], kind), UNCHANGED workerVars
  PROVE  Earned(k)'
<1>1. ASSUME NEW w \in Workers, pc[w]' \in {"caught", "record"}, cur[w].key' = k, Current(cur[w])'
      PROVE  FALSE
  <2>1. cur[w]' = cur[w] /\ cur[w] \in Held(w) /\ cur[w] \in Claim
    BY <1>1 DEF workerVars, Held, Busy, TypeOK
  <2>2. /\ cur[w].id <= row[k].id
        /\ row[k].status # "absent" /\ cur[w].id = row[k].id => cur[w].gen <= row[k].gen
    BY <1>1, <2>1 DEF OutboxInv, ClaimsTrailRows
  <2>3. cur[w].id = Upserted(row[k], kind).id /\ cur[w].gen = Upserted(row[k], kind).gen
    BY <1>1, <2>1 DEF Current
  <2>4. row[k] \in Row
    BY DEF TypeOK
  <2>5. QED BY <2>1, <2>2, <2>3, <2>4, UpsertMoves DEF Upserted, Row, Claim
<1>2. row[k].attempts' = 0 /\ row[k].status' = "pending"
  BY DEF Upserted
<1>3. QED BY <1>1, <1>2, AllSuperseded

\* One more exception is in hand, and one more strike is on the row.
LEMMA FailureInHand ==
  ASSUME TypeOK, TypeOK', EarnedInv, NEW w \in Workers, ConvergeFails(w), NEW k \in Keys
  PROVE  Earned(k)'
<1> DEFINE c == cur[w]
           hit == c.key = k /\ row[k].id = c.id /\ row[k].gen = c.gen
<1>1. c \in Claim /\ row' = row /\ cur' = cur /\ tried' = tried
  BY DEF ConvergeFails, TypeOK, Busy
<1>2. Earned(k) /\ strikes[k] \in Nat /\ row[k].attempts \in Nat /\ \A v \in Workers : tried[v] \in Nat
  BY DEF EarnedInv, TypeOK, Row
<1>3. \A v \in Workers \ {w} : pc[v]' = pc[v]
  BY DEF ConvergeFails, TypeOK
<1>4. pc[w]' = "caught"
  BY DEF ConvergeFails, TypeOK
<1>5. CASE hit
  <2> DEFINE C == CaughtFor(k) \cup {w}
  <2>1. strikes[k]' = strikes[k] + 1
    BY <1>1, <1>5 DEF ConvergeFails, TypeOK
  <2>2. CaughtFor(k)' \subseteq C
    BY <1>1, <1>3 DEF CaughtFor, Current
  <2>3. /\ IsFiniteSet(C) /\ Cardinality(C) \in Nat /\ Cardinality(CaughtFor(k)) \in Nat
        /\ Cardinality(C) <= Cardinality(CaughtFor(k)) + 1
    <3>1. IsFiniteSet(CaughtFor(k))
      BY <1>2 DEF Earned
    <3>2. Cardinality(CaughtFor(k)) \in Nat
      BY <3>1, FS_CardinalityType
    <3>3. /\ IsFiniteSet(C)
          /\ Cardinality(C) = IF w \in CaughtFor(k) THEN Cardinality(CaughtFor(k))
                              ELSE Cardinality(CaughtFor(k)) + 1
      BY <3>1, FS_AddElement
    <3> HIDE DEF C
    <3>4. QED BY <3>2, <3>3
  <2> HIDE DEF C
  <2>4. row[k].attempts + Cardinality(C) <= strikes[k]'
    BY <1>2, <2>1, <2>3 DEF Earned
  <2>5. ASSUME NEW v \in Workers, pc[v]' = "record", cur[v].key = k, Current(cur[v])
        PROVE  tried[v] + 1 + Cardinality(C) <= strikes[k]'
    <3>1. tried[v] + 1 + Cardinality(CaughtFor(k)) <= strikes[k]
      BY <1>2, <1>3, <1>4, <2>5 DEF Earned
    <3>2. QED BY <1>2, <2>1, <2>3, <3>1
  <2>6. row[k].status = "failed" => strikes[k]' >= MaxAttempts
    BY <1>2, <2>1, SyncOutboxAssumption DEF Earned
  <2>7. \A v \in Workers : Current(cur[v])' <=> Current(cur[v])
    BY <1>1 DEF Current
  <2>8. QED BY <1>1, <2>2, <2>3, <2>4, <2>5, <2>6, <2>7, FewerInHand
<1>6. CASE ~hit
  <2>1. strikes[k]' = strikes[k]
    BY <1>1, <1>6 DEF ConvergeFails, TypeOK, Claim
  <2>2. \A v \in Workers : pc[v]' \in {"caught", "record"} /\ cur[v].key' = k /\ Current(cur[v])'
          => v # w
    BY <1>1, <1>6 DEF Current
  <2>3. CaughtFor(k)' \subseteq CaughtFor(k)
    BY <1>1, <1>3, <2>2 DEF CaughtFor, Current
  <2>4. \A v \in Workers : pc[v]' = "record" /\ cur[v].key' = k /\ Current(cur[v])'
          => tried[v]' + 1 + Cardinality(CaughtFor(k)) <= strikes[k]'
    BY <1>1, <1>2, <1>3, <2>1, <2>2 DEF Earned, Current
  <2>5. QED BY <1>1, <1>2, <2>1, <2>3, <2>4, FewerInHand DEF Earned
<1>7. QED BY <1>5, <1>6

\* A handler that reads the attempts moves its exception into what it will write.
LEMMA ReadMovesException ==
  ASSUME TypeOK, TypeOK', EarnedInv, NEW w \in Workers, ReadAttempts(w), NEW k \in Keys
  PROVE  Earned(k)'
<1> DEFINE C == CaughtFor(k) \ {w}
<1>1. /\ row' = row /\ strikes' = strikes /\ cur' = cur /\ pc[w]' = "record"
      /\ \A v \in Workers \ {w} : pc[v]' = pc[v] /\ tried[v]' = tried[v]
  BY DEF ReadAttempts, TypeOK, tableVars
<1>2. Earned(k) /\ strikes[k] \in Nat /\ row[k].attempts \in Nat /\ \A v \in Workers : tried[v] \in Nat
  BY DEF EarnedInv, TypeOK, Row
<1>3. CaughtFor(k)' \subseteq C
  BY <1>1 DEF CaughtFor, Current
<1>4. /\ IsFiniteSet(C) /\ Cardinality(C) \in Nat /\ Cardinality(CaughtFor(k)) \in Nat
      /\ Cardinality(C) <= Cardinality(CaughtFor(k))
      /\ w \in CaughtFor(k) => Cardinality(C) + 1 = Cardinality(CaughtFor(k))
  <2>1. IsFiniteSet(CaughtFor(k))
    BY <1>2 DEF Earned
  <2>2. Cardinality(CaughtFor(k)) \in Nat
    BY <2>1, FS_CardinalityType
  <2>3. /\ IsFiniteSet(C)
        /\ Cardinality(C) = IF w \in CaughtFor(k) THEN Cardinality(CaughtFor(k)) - 1
                            ELSE Cardinality(CaughtFor(k))
    BY <2>1, FS_RemoveElement
  <2>4. Cardinality(C) \in Nat
    BY <2>3, FS_CardinalityType
  <2> HIDE DEF C
  <2>5. QED BY <2>2, <2>3, <2>4
<1> HIDE DEF C
<1>5. row[k].attempts + Cardinality(C) <= strikes[k]
  BY <1>2, <1>4 DEF Earned
<1>6. ASSUME NEW v \in Workers, pc[v]' = "record", cur[v].key = k, Current(cur[v])
      PROVE  tried[v]' + 1 + Cardinality(C) <= strikes[k]
  <2>1. CASE v = w
    <3>1. w \in CaughtFor(k)
      BY <1>6, <2>1 DEF CaughtFor, ReadAttempts
    <3>2. tried[w]' = row[k].attempts \/ tried[w]' = 0
      BY <1>6, <2>1 DEF ReadAttempts, TypeOK
    <3>3. row[k].attempts + Cardinality(CaughtFor(k)) <= strikes[k]
      BY <1>2 DEF Earned
    <3>4. QED BY <1>2, <1>4, <2>1, <3>1, <3>2, <3>3
  <2>2. CASE v # w
    <3>1. tried[v] + 1 + Cardinality(CaughtFor(k)) <= strikes[k] /\ tried[v]' = tried[v]
      BY <1>1, <1>2, <1>6, <2>2 DEF Earned
    <3>2. QED BY <1>2, <1>4, <3>1
  <2>3. QED BY <2>1, <2>2
<1>7. \A v \in Workers : Current(cur[v])' <=> Current(cur[v])
  BY <1>1 DEF Current
<1>8. row[k].status = "failed" => strikes[k] >= MaxAttempts
  BY <1>2 DEF Earned
<1>9. QED BY <1>1, <1>3, <1>4, <1>5, <1>6, <1>7, <1>8, FewerInHand

\* What a handler writes is covered by the strikes, whatever was written since it read.
LEMMA RecordIsCovered ==
  ASSUME TypeOK, TypeOK', EarnedInv, NEW w \in Workers, RecordFailure(w), NEW k \in Keys
  PROVE  Earned(k)'
<1>1. /\ strikes' = strikes /\ pc[w]' = "next"
      /\ \A v \in Workers \ {w} : pc[v]' = pc[v] /\ cur[v]' = cur[v] /\ tried[v]' = tried[v]
  BY DEF RecordFailure, ItemDone, TypeOK
<1>2. Earned(k) /\ strikes[k] \in Nat /\ \A v \in Workers : tried[v] \in Nat
  BY DEF EarnedInv, TypeOK
<1>3. CASE Holds(cur[w]) /\ cur[w].key = k
  <2>1. PICK s \in {"failed", "pending"} :
          /\ row[k]' = Marked(row[k], s, tried[w] + 1)
          /\ s = "failed" => tried[w] + 1 >= MaxAttempts
    BY <1>3 DEF RecordFailure, TypeOK
  <2>2. SameRow(k) /\ row[k].attempts' = tried[w] + 1 /\ row[k].status' = s
    BY <1>3, <2>1 DEF Holds, Marked, SameRow
  <2>3. \A v \in Workers : pc[v]' \in {"caught", "record"} /\ cur[v].key' = k /\ Current(cur[v])'
          => v # w /\ cur[v].key = k /\ Current(cur[v])
    BY <1>1, <2>2 DEF SameRow, Current
  <2>4. CaughtFor(k)' \subseteq CaughtFor(k)
    BY <1>1, <2>3 DEF CaughtFor
  <2>5. tried[w] + 1 + Cardinality(CaughtFor(k)) <= strikes[k]
    BY <1>2, <1>3 DEF Earned, RecordFailure, Holds, Current
  <2>6. Cardinality(CaughtFor(k)) \in Nat
    BY <1>2, FS_CardinalityType DEF Earned
  <2>7. row[k].status' = "failed" => strikes[k] >= MaxAttempts
    BY <1>2, <2>1, <2>2, <2>5, <2>6, SyncOutboxAssumption
  <2>8. \A v \in Workers : pc[v]' = "record" /\ cur[v].key' = k /\ Current(cur[v])'
          => tried[v]' + 1 + Cardinality(CaughtFor(k)) <= strikes[k]'
    BY <1>1, <1>2, <2>3 DEF Earned
  <2>9. QED BY <1>1, <1>2, <2>2, <2>4, <2>5, <2>7, <2>8, FewerInHand DEF Earned
<1>4. CASE ~(Holds(cur[w]) /\ cur[w].key = k)
  <2>1. row[k]' = row[k]
    BY <1>4 DEF RecordFailure, TypeOK
  <2>2. QED BY <1>1, <1>2, <2>1, QuietStep DEF SameRow
<1>5. QED BY <1>3, <1>4

\* Every step keeps the account of exceptions.
LEMMA EarnedStep ==
  ASSUME TypeOK, OutboxInv, EarnedInv, [Next]_vars PROVE EarnedInv'
<1> SUFFICES ASSUME NEW k \in Keys PROVE Earned(k)'
  BY DEF EarnedInv
<1>1. TypeOK' /\ Earned(k) /\ row[k] \in Row
  BY TypeStep DEF EarnedInv, TypeOK
<1>2. ASSUME row[k]' = row[k], strikes[k]' = strikes[k],
             \A w \in Workers : pc[w]' \in {"caught", "record"} =>
               pc[w]' = pc[w] /\ cur[w]' = cur[w] /\ tried[w]' = tried[w]
      PROVE  Earned(k)'
  BY <1>1, <1>2, QuietStep DEF SameRow
<1>3. ASSUME NEW K \in SUBSET Keys, SaveConfirmed(K) PROVE Earned(k)'
  <2>1. CASE k \in K
    BY <1>1, <1>3, <2>1, UpsertSupersedes DEF SaveConfirmed, Kind
  <2>2. CASE k \notin K
    BY <1>2, <1>3, <2>2 DEF SaveConfirmed, workerVars
  <2>3. QED BY <2>1, <2>2
<1>4. ASSUME NEW j \in Keys, Blur(j) PROVE Earned(k)'
  <2>1. CASE j = k
    BY <1>1, <1>4, <2>1, UpsertSupersedes DEF Blur, Kind, TypeOK
  <2>2. CASE j # k
    BY <1>2, <1>4, <2>2 DEF Blur, workerVars, TypeOK
  <2>3. QED BY <2>1, <2>2
<1>5. ASSUME NEW j \in Keys, LeaseExpires(j) PROVE Earned(k)'
  <2>1. /\ SameRow(k) /\ row[k].attempts' = row[k].attempts
        /\ row[k].status' = row[k].status /\ strikes[k]' = strikes[k] /\ UNCHANGED workerVars
    BY <1>1, <1>5 DEF LeaseExpires, SameRow, Row, TypeOK
  <2>2. QED BY <1>1, <2>1, QuietStep DEF workerVars
<1>6. ASSUME NEW w \in Workers, ClaimBatch(w) PROVE Earned(k)'
  <2>1. PICK S \in SUBSET Claimable :
          row' = [j \in Keys |-> IF j \in S
                    THEN Marked(row[j], "processing", row[j].attempts) ELSE row[j]]
    BY <1>6 DEF ClaimBatch
  <2>2. /\ strikes' = strikes /\ cur' = cur /\ tried' = tried
        /\ \A v \in Workers : pc[v]' \in {"caught", "record"} => pc[v]' = pc[v]
    BY <1>6 DEF ClaimBatch, TypeOK
  <2>3. CASE k \in S
    <3>1. row[k]' = Marked(row[k], "processing", row[k].attempts) /\ row[k].status # "absent"
      BY <2>1, <2>3 DEF Claimable
    <3>2. SameRow(k) /\ row[k].attempts' = row[k].attempts /\ row[k].status' = "processing"
      BY <3>1 DEF Marked, SameRow
    <3>3. QED BY <1>1, <2>2, <3>2, QuietStep
  <2>4. CASE k \notin S
    BY <1>2, <2>1, <2>2, <2>4
  <2>5. QED BY <2>3, <2>4
<1>7. ASSUME NEW w \in Workers, Finalize(w) PROVE Earned(k)'
  <2>1. /\ strikes' = strikes
        /\ \A v \in Workers : pc[v]' \in {"caught", "record"} =>
             pc[v]' = pc[v] /\ cur[v]' = cur[v] /\ tried[v]' = tried[v]
    BY <1>7 DEF Finalize, ItemDone, TypeOK
  <2>2. CASE Holds(cur[w]) /\ cur[w].key = k
    <3>1. row[k]' = Marked(row[k], "completed", row[k].attempts)
      BY <1>7, <2>2 DEF Finalize, TypeOK
    <3>2. SameRow(k) /\ row[k].attempts' = row[k].attempts /\ row[k].status' = "completed"
      BY <2>2, <3>1 DEF Marked, SameRow, Holds
    <3>3. QED BY <1>1, <2>1, <3>2, QuietStep
  <2>3. CASE ~(Holds(cur[w]) /\ cur[w].key = k)
    <3>1. row[k]' = row[k]
      BY <1>7, <2>3 DEF Finalize, TypeOK
    <3>2. QED BY <1>2, <2>1, <3>1
  <2>4. QED BY <2>2, <2>3
<1>8. ASSUME NEW w \in Workers, PruneAndEnd(w) PROVE Earned(k)'
  <2>1. PICK old \in SUBSET {j \in Keys : row[j].status = "completed"} :
          row' = [j \in Keys |-> IF j \in old
                    THEN [Marked(row[j], "absent", 0) EXCEPT !.gen = 0] ELSE row[j]]
    BY <1>8 DEF PruneAndEnd
  <2>2. CASE k \in old
    <3>1. row[k].attempts' = 0 /\ row[k].status' = "absent"
      BY <2>1, <2>2 DEF Marked
    <3>2. QED BY <1>1, <3>1, AllSuperseded DEF Current
  <2>3. CASE k \notin old
    <3>1. /\ strikes' = strikes /\ row[k]' = row[k]
          /\ \A v \in Workers : pc[v]' \in {"caught", "record"} =>
               pc[v]' = pc[v] /\ cur[v]' = cur[v] /\ tried[v]' = tried[v]
      BY <1>8, <2>1, <2>3 DEF PruneAndEnd, TypeOK
    <3>2. QED BY <1>2, <3>1
  <2>4. QED BY <2>2, <2>3
<1>9. ASSUME NEW w \in Workers, StartRun(w) \/ NextItem(w) \/ CheckClaim(w) \/ Converge(w) \/ WorkerCrash(w)
      PROVE  Earned(k)'
  <2>1. /\ row' = row /\ strikes' = strikes
        /\ \A v \in Workers : pc[v]' \in {"caught", "record"} =>
             pc[v]' = pc[v] /\ cur[v]' = cur[v] /\ tried[v]' = tried[v]
    BY <1>9 DEF StartRun, NextItem, CheckClaim, Converge, WorkerCrash, ItemDone, TypeOK, tableVars
  <2>2. QED BY <1>2, <2>1
<1>10. ASSUME Dispatch \/ ApiCrash \/ UNCHANGED vars PROVE Earned(k)'
  BY <1>2, <1>10 DEF Dispatch, ApiCrash, vars, tableVars, workerVars
<1>11. QED
  BY <1>1, <1>3, <1>4, <1>5, <1>6, <1>7, <1>8, <1>9, <1>10,
     FailureInHand, ReadMovesException, RecordIsCovered DEF Next, WorkerStep

\* A row is given up only after as many exceptions of its own generation as the
\* code allows, with any number of workers, handlers and expired leases.
THEOREM FailureIsEarnedHolds == Spec => []FailureIsEarned
<1>1. Init => EarnedInv
  <2> SUFFICES ASSUME Init, NEW k \in Keys PROVE Earned(k)
    BY DEF EarnedInv
  <2>1. CaughtFor(k) = {} /\ row[k].attempts = 0 /\ strikes[k] = 0 /\ row[k].status = "absent"
    BY DEF Init, CaughtFor
  <2>2. QED BY <2>1, FS_EmptySet DEF Init, Earned
<1>2. TypeOK /\ OutboxInv /\ EarnedInv /\ [Next]_vars => EarnedInv'
  BY EarnedStep
<1>3. TypeOK /\ EarnedInv => FailureIsEarned
  <2> SUFFICES ASSUME TypeOK, EarnedInv, NEW k \in Keys
               PROVE  /\ row[k].attempts <= strikes[k]
                      /\ row[k].status = "failed" => strikes[k] >= MaxAttempts
    BY DEF FailureIsEarned
  <2>1. Earned(k) /\ row[k].attempts \in Nat /\ strikes[k] \in Nat
    BY DEF EarnedInv, TypeOK, Row
  <2>2. Cardinality(CaughtFor(k)) \in Nat
    BY <2>1, FS_CardinalityType DEF Earned
  <2>3. QED BY <2>1, <2>2 DEF Earned
<1>4. QED BY <1>1, <1>2, <1>3, TypeCorrect, OutboxInvariant, PTL DEF Spec
=============================================================================
