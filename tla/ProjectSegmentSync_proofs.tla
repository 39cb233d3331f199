---------------------- MODULE ProjectSegmentSync_proofs ----------------------
(***************************************************************************)
(* What holds of the segments of a repeated sentence for any number of     *)
(* segments, texts, users and stamps: the types, that a convergence leaves *)
(* one text, that settings stay, and, for the endpoints that keep them,    *)
(* that typed text stays, that a confirmation has a time, that a version   *)
(* names one text and that a blur spreads what its client saw.             *)
(***************************************************************************)
EXTENDS ProjectSegmentSync, FiniteSetTheorems, NaturalsInduction, TLAPS

Status == {"none", "exact", "confirmed"}
Time   == Stamps \cup {None}

\* The constants are what their assumptions say.
LEMMA Constants ==
  /\ MaxVersions \in Nat \ {0} /\ Segments \subseteq Nat /\ IsFiniteSet(Segments)
  /\ Stamps \subseteq Nat /\ Stamps # {} /\ None \notin Texts \cup Segments \cup Stamps
  /\ None \notin Job
  BY SegmentSyncAssumption, NoJobAssumption

-----------------------------------------------------------------------------
(* Rows. *)

\* The columns of a row.
LEMMA RowFields ==
  ASSUME NEW r \in Row
  PROVE  /\ r.text \in Text /\ r.source \in {"none", "machine", "manual", "sync"}
         /\ r.matched \in BOOLEAN /\ r.status \in Status /\ r.confirmedAt \in Time
         /\ r.updatedAt \in Stamps /\ r.disabled \in BOOLEAN /\ r.protected \in BOOLEAN
         /\ r.version \in 1..MaxVersions /\ r.origin \in Segments \cup {None}
  BY DEF Row, Status, Time

\* A row with one column changed is a row.
LEMMA RowUpdates ==
  ASSUME NEW r \in Row
  PROVE  /\ \A x \in Text : [r EXCEPT !.text = x] \in Row
         /\ \A x \in {"none", "machine", "manual", "sync"} : [r EXCEPT !.source = x] \in Row
         /\ \A x \in BOOLEAN : [r EXCEPT !.matched = x] \in Row
         /\ \A x \in Status : [r EXCEPT !.status = x] \in Row
         /\ \A x \in Time : [r EXCEPT !.confirmedAt = x] \in Row
         /\ \A x \in Stamps : [r EXCEPT !.updatedAt = x] \in Row
         /\ \A x \in BOOLEAN : [r EXCEPT !.disabled = x] \in Row
         /\ \A x \in BOOLEAN : [r EXCEPT !.protected = x] \in Row
         /\ \A x \in 1..MaxVersions : [r EXCEPT !.version = x] \in Row
         /\ \A x \in Segments \cup {None} : [r EXCEPT !.origin = x] \in Row
<1>1. \A x \in Text : [r EXCEPT !.text = x] \in Row
  BY DEF Row
<1>2. \A x \in {"none", "machine", "manual", "sync"} : [r EXCEPT !.source = x] \in Row
  BY DEF Row
<1>3. \A x \in BOOLEAN : [r EXCEPT !.matched = x] \in Row
  BY DEF Row
<1>4. \A x \in Status : [r EXCEPT !.status = x] \in Row
  BY DEF Row, Status
<1>5. \A x \in Time : [r EXCEPT !.confirmedAt = x] \in Row
  BY DEF Row, Time
<1>6. \A x \in Stamps : [r EXCEPT !.updatedAt = x] \in Row
  BY DEF Row
<1>7. \A x \in BOOLEAN : [r EXCEPT !.disabled = x] \in Row
  BY DEF Row
<1>8. \A x \in BOOLEAN : [r EXCEPT !.protected = x] \in Row
  BY DEF Row
<1>9. \A x \in 1..MaxVersions : [r EXCEPT !.version = x] \in Row
  BY DEF Row
<1>10. \A x \in Segments \cup {None} : [r EXCEPT !.origin = x] \in Row
  BY DEF Row
<1> QED
  BY <1>1, <1>2, <1>3, <1>4, <1>5, <1>6, <1>7, <1>8, <1>9, <1>10

\* A row with a new status is a row: nothing but its status and its time change.
LEMMA WithStatusType ==
  ASSUME NEW r \in Row, NEW status \in Status, NEW now \in Stamps
  PROVE  /\ WithStatus(r, status, now) \in Row
         /\ WithStatus(r, status, now).status = status
         /\ WithStatus(r, status, now).text = r.text
         /\ WithStatus(r, status, now).disabled = r.disabled
         /\ WithStatus(r, status, now).protected = r.protected
         /\ WithStatus(r, status, now).version = r.version
         /\ WithStatus(r, status, now).confirmedAt # None <=> status = "confirmed"
<1> DEFINE c == IF status # "confirmed" THEN None
                ELSE IF r.status = "confirmed" /\ r.confirmedAt # None THEN r.confirmedAt
                ELSE now
<1>1. c \in Time /\ (c # None <=> status = "confirmed")
  BY RowFields, Constants DEF Time
<1>2. WithStatus(r, status, now) = [r EXCEPT !.status = status, !.confirmedAt = c]
  BY DEF WithStatus, Row
<1> HIDE DEF c
<1> DEFINE r1 == [r EXCEPT !.status = status]
<1>3. r1 \in Row
  BY RowUpdates
<1>4. WithStatus(r, status, now) \in Row
  <2>1. [r1 EXCEPT !.confirmedAt = c] \in Row
    BY <1>1, <1>3, RowUpdates
  <2> QED
    BY <1>2, <2>1
<1> DEFINE n == [r EXCEPT !.status = status, !.confirmedAt = c]
<1>5. /\ n.status = status /\ n.confirmedAt = c /\ n.text = r.text /\ n.disabled = r.disabled
      /\ n.protected = r.protected /\ n.version = r.version
  BY DEF Row
<1> HIDE DEF n
<1>6. WithStatus(r, status, now) = n
  BY <1>2 DEF n
<1> QED
  BY <1>1, <1>4, <1>5, <1>6

\* An edited row, if its version is within the bound, is a row.
LEMMA EditedType ==
  ASSUME NEW r \in Row, NEW text \in Text, NEW source \in {"machine", "manual"},
         NEW confirm \in BOOLEAN, NEW now \in Stamps
  PROVE  LET e == Edited(r, text, source, confirm, now) IN
         /\ e.version \in 1..MaxVersions => e \in Row
         /\ e.text = text /\ e.version = r.version + 1
         /\ e.disabled = r.disabled /\ e.protected = r.protected
         /\ e.confirmedAt # None <=> e.status = "confirmed"
         /\ [e EXCEPT !.updatedAt = now].version = e.version
<1> DEFINE st == StatusAfterEdit(r, text, confirm)
           w  == WithStatus(r, st, now)
           e  == Edited(r, text, source, confirm, now)
<1>1. st \in Status
  BY DEF StatusAfterEdit, Unconfirmed, Status
<1>2. /\ w \in Row /\ w.text = r.text /\ w.disabled = r.disabled /\ w.protected = r.protected
      /\ w.version = r.version /\ (w.confirmedAt # None <=> w.status = "confirmed")
  BY <1>1, WithStatusType
<1>3. e = [w EXCEPT !.text = text, !.source = source, !.origin = None, !.version = @ + 1]
  BY DEF Edited
<1> HIDE DEF w, e
<1>4. /\ e.text = text /\ e.version = w.version + 1 /\ e.disabled = w.disabled
      /\ e.protected = w.protected /\ e.confirmedAt = w.confirmedAt /\ e.status = w.status
      /\ [e EXCEPT !.updatedAt = now].version = e.version
  BY <1>2, <1>3 DEF Row
<1>5. ASSUME e.version \in 1..MaxVersions PROVE e \in Row
  <2> DEFINE v == e.version
             w1 == [w EXCEPT !.text = text]
             w2 == [w1 EXCEPT !.source = source]
             w3 == [w2 EXCEPT !.origin = None]
             w4 == [w3 EXCEPT !.version = v]
  <2>1. w1 \in Row
    BY <1>2, RowUpdates
  <2>2. w2 \in Row
    BY <2>1, RowUpdates
  <2>3. w3 \in Row
    BY <2>2, RowUpdates
  <2>4. w4 \in Row
    BY <1>5, <2>3, RowUpdates
  <2>5. w.version + 1 = v
    BY <1>4
  <2>6. e = [w EXCEPT !.text = text, !.source = source, !.origin = None, !.version = v]
    BY <1>3, <2>5
  <2> HIDE DEF v
  <2>7. e = w4
    BY <2>6
  <2> QED
    BY <2>4, <2>7
<1> QED
  BY <1>2, <1>4, <1>5 DEF e

\* A cleared row is a row that keeps its settings and its version, and has no
\* text unless it was protected.
LEMMA ClearedType ==
  ASSUME NEW r \in Row
  PROVE  /\ Cleared(r) \in Row /\ Cleared(r).version = r.version
         /\ Cleared(r).disabled = r.disabled /\ Cleared(r).protected = r.protected
<1>1. CASE r.protected
  BY <1>1 DEF Cleared
<1>2. CASE ~r.protected
  <2> DEFINE r1 == [r EXCEPT !.text = None]
             r2 == [r1 EXCEPT !.status = "none"]
             r3 == [r2 EXCEPT !.confirmedAt = None]
             r4 == [r3 EXCEPT !.source = "none"]
             r5 == [r4 EXCEPT !.matched = FALSE]
             r6 == [r5 EXCEPT !.origin = None]
  <2>1. r1 \in Row
    BY RowUpdates DEF Text
  <2>2. r2 \in Row
    BY <2>1, RowUpdates DEF Status
  <2>3. r3 \in Row
    BY <2>2, RowUpdates DEF Time
  <2>4. r4 \in Row
    BY <2>3, RowUpdates
  <2>5. r5 \in Row
    BY <2>4, RowUpdates
  <2>6. r6 \in Row
    BY <2>5, RowUpdates
  <2>7. Cleared(r) = r6
    BY <1>2 DEF Cleared
  <2>8. r6.version = r.version /\ r6.disabled = r.disabled /\ r6.protected = r.protected
    BY DEF Row
  <2> QED
    BY <2>6, <2>7, <2>8
<1> QED
  BY <1>1, <1>2

\* The flush of a row takes each column from the session or from the table.
LEMMA FlushType ==
  ASSUME NEW row \in Row, NEW old \in Row, NEW new \in Row, NEW now \in Stamps
  PROVE  LET f == Flush(row, old, new, now) IN
         /\ f \in Row
         /\ f.text = IF new.text # old.text THEN new.text ELSE row.text
         /\ f.status = IF new.status # old.status THEN new.status ELSE row.status
         /\ f.confirmedAt = IF new.confirmedAt # old.confirmedAt THEN new.confirmedAt
                            ELSE row.confirmedAt
         /\ f.disabled = IF new.disabled # old.disabled THEN new.disabled ELSE row.disabled
         /\ f.protected = IF new.protected # old.protected THEN new.protected ELSE row.protected
<1> DEFINE g == [f \in DOMAIN row |-> IF new[f] # old[f] THEN new[f] ELSE row[f]]
           h == [text        |-> IF new.text # old.text THEN new.text ELSE row.text,
                 source      |-> IF new.source # old.source THEN new.source ELSE row.source,
                 matched     |-> IF new.matched # old.matched THEN new.matched ELSE row.matched,
                 status      |-> IF new.status # old.status THEN new.status ELSE row.status,
                 confirmedAt |-> IF new.confirmedAt # old.confirmedAt THEN new.confirmedAt
                                 ELSE row.confirmedAt,
                 updatedAt   |-> IF new.updatedAt # old.updatedAt THEN new.updatedAt
                                 ELSE row.updatedAt,
                 disabled    |-> IF new.disabled # old.disabled THEN new.disabled
                                 ELSE row.disabled,
                 protected   |-> IF new.protected # old.protected THEN new.protected
                                 ELSE row.protected,
                 version     |-> IF new.version # old.version THEN new.version ELSE row.version,
                 origin      |-> IF new.origin # old.origin THEN new.origin ELSE row.origin]
           columns == {"text", "source", "matched", "status", "confirmedAt", "updatedAt",
                       "disabled", "protected", "version", "origin"}
<1>1. DOMAIN row = columns
  BY DEF Row
<1>2. g = [f \in columns |-> IF new[f] # old[f] THEN new[f] ELSE row[f]]
  BY <1>1
<1>3. g = h
  BY <1>2
<1>4. h \in Row
  BY SMTT(30) DEF Row
<1>5. Flush(row, old, new, now) = [h EXCEPT !.updatedAt = now]
  BY <1>3 DEF Flush
<1> DEFINE n == [h EXCEPT !.updatedAt = now]
<1>6. /\ n.text = h.text /\ n.status = h.status /\ n.confirmedAt = h.confirmedAt
      /\ n.disabled = h.disabled /\ n.protected = h.protected
  OBVIOUS
<1>7. n \in Row
  <2> HIDE DEF h
  <2> QED
    BY <1>4, RowUpdates
<1> HIDE DEF n
<1> QED
  BY <1>5, <1>6, <1>7 DEF n

\* Switching a row off keeps its protection, and its version grows at most by 1.
LEMMA DisabledType ==
  ASSUME NEW r \in Row, Disabled(r).version \in 1..MaxVersions
  PROVE  Disabled(r) \in Row /\ Disabled(r).protected = r.protected
<1> DEFINE off  == [r EXCEPT !.disabled = TRUE]
           next == IF r.source = "sync" THEN Cleared(off) ELSE off
<1>1. off \in Row /\ off.protected = r.protected
  <2>1. off \in Row
    BY RowUpdates
  <2> QED
    BY <2>1 DEF Row
<1> HIDE DEF off
<1>2. next \in Row /\ next.protected = r.protected
  BY <1>1, ClearedType
<1>3. CASE next = r
  BY <1>3 DEF Disabled, off
<1>4. CASE next # r
  <2>1. Disabled(r) = [next EXCEPT !.version = @ + 1]
    BY <1>4 DEF Disabled, off
  <2> HIDE DEF next
  <2>2. /\ [next EXCEPT !.version = @ + 1].version = next.version + 1
        /\ [next EXCEPT !.version = @ + 1].protected = next.protected
    BY <1>2 DEF Row
  <2>3. next.version + 1 \in 1..MaxVersions
    BY <2>1, <2>2
  <2> QED
    BY <1>2, <2>1, <2>2, <2>3, RowUpdates
<1> QED
  BY <1>3, <1>4

\* What a request leaves in its session: a row, if its version is within the
\* bound, of which only an edit or a switch off changes the text, only a switch
\* its participation, and no request its protection.
LEMMA ChangedType ==
  ASSUME NEW q \in Request, q.op # "blur", NEW now \in Stamps,
         Changed(q, now).version \in 1..MaxVersions
  PROVE  LET c == Changed(q, now) IN
         /\ c \in Row /\ c.protected = q.snap.protected
         /\ q.op \notin {"batch", "disable"} => c.text = q.snap.text
         /\ q.op \notin {"disable", "enable"} => c.disabled = q.snap.disabled
         /\ q.op \in {"confirm", "unconfirm"}
              => (c.confirmedAt # None <=> c.status = "confirmed")
         /\ q.op = "confirm" => c.status = "confirmed"
         /\ q.op = "unconfirm" => c.status # "confirmed"
         /\ q.op = "enable"
              => c.status = q.snap.status /\ c.confirmedAt = q.snap.confirmedAt
<1> DEFINE c == Changed(q, now)
<1>1. /\ q.op \in {"batch", "confirm", "unconfirm", "disable", "enable"} /\ q.snap \in Row
      /\ q.text \in Text /\ q.source \in {"machine", "manual"} /\ q.confirm \in BOOLEAN
  BY SegmentSyncAssumption DEF Request
<1>2. ASSUME NEW w \in Row, c = [w EXCEPT !.version = @ + 1]
      PROVE  /\ c \in Row /\ c.protected = w.protected /\ c.text = w.text
             /\ c.disabled = w.disabled /\ c.status = w.status /\ c.confirmedAt = w.confirmedAt
  <2> HIDE DEF c
  <2>1. /\ c.version = w.version + 1 /\ c.protected = w.protected /\ c.text = w.text
        /\ c.disabled = w.disabled /\ c.status = w.status /\ c.confirmedAt = w.confirmedAt
    BY <1>2 DEF Row
  <2>2. c.version \in 1..MaxVersions
    BY DEF c
  <2>3. c = [w EXCEPT !.version = c.version]
    BY <1>2, <2>1
  <2>4. c \in Row
    BY <2>2, <2>3, RowUpdates
  <2> QED
    BY <2>1, <2>4
<1>3. CASE q.op = "batch"
  <2>1. c = Edited(q.snap, q.text, q.source, q.confirm, now)
    BY <1>3 DEF Changed
  <2> QED
    BY <1>1, <1>3, <2>1, EditedType
<1>4. CASE q.op = "confirm"
  <2>1. c = [WithStatus(q.snap, "confirmed", now) EXCEPT !.version = @ + 1]
    BY <1>4 DEF Changed
  <2>2. "confirmed" \in Status
    BY DEF Status
  <2> DEFINE w == WithStatus(q.snap, "confirmed", now)
  <2>3. /\ w \in Row /\ w.protected = q.snap.protected /\ w.text = q.snap.text
        /\ w.disabled = q.snap.disabled /\ (w.confirmedAt # None <=> w.status = "confirmed")
        /\ w.status = "confirmed"
    BY <1>1, <2>2, WithStatusType
  <2> HIDE DEF c, w
  <2>4. /\ c \in Row /\ c.protected = w.protected /\ c.text = w.text
        /\ c.disabled = w.disabled /\ c.status = w.status /\ c.confirmedAt = w.confirmedAt
    BY <1>2, <2>1, <2>3 DEF w
  <2> QED
    BY <1>4, <2>3, <2>4 DEF c
<1>5. CASE q.op = "unconfirm"
  <2>1. c = [WithStatus(q.snap, Unconfirmed(q.snap), now) EXCEPT !.version = @ + 1]
    BY <1>5 DEF Changed
  <2>2. Unconfirmed(q.snap) \in Status
    BY DEF Status, Unconfirmed
  <2> DEFINE w == WithStatus(q.snap, Unconfirmed(q.snap), now)
  <2>3. /\ w \in Row /\ w.protected = q.snap.protected /\ w.text = q.snap.text
        /\ w.disabled = q.snap.disabled /\ (w.confirmedAt # None <=> w.status = "confirmed")
        /\ w.status # "confirmed"
    BY <1>1, <2>2, WithStatusType DEF Unconfirmed
  <2> HIDE DEF c, w
  <2>4. /\ c \in Row /\ c.protected = w.protected /\ c.text = w.text
        /\ c.disabled = w.disabled /\ c.status = w.status /\ c.confirmedAt = w.confirmedAt
    BY <1>2, <2>1, <2>3 DEF w
  <2> QED
    BY <1>5, <2>3, <2>4 DEF c
<1>6. CASE q.op = "disable"
  <2>1. c = Disabled(q.snap)
    BY <1>6 DEF Changed
  <2> QED
    BY <1>1, <1>6, <2>1, DisabledType
<1>7. CASE q.op = "enable"
  <2> DEFINE w == [q.snap EXCEPT !.disabled = FALSE]
  <2>1. w \in Row
    BY <1>1, RowUpdates
  <2>2. /\ w.protected = q.snap.protected /\ w.text = q.snap.text
        /\ w.status = q.snap.status /\ w.confirmedAt = q.snap.confirmedAt
    BY <1>1 DEF Row
  <2>3. c = [q.snap EXCEPT !.disabled = FALSE, !.version = @ + 1]
    BY <1>7 DEF Changed
  <2>4. c = [w EXCEPT !.version = @ + 1]
    BY <1>1, <2>3 DEF Row
  <2> HIDE DEF c, w
  <2>5. /\ c \in Row /\ c.protected = w.protected /\ c.text = w.text
        /\ c.status = w.status /\ c.confirmedAt = w.confirmedAt
    BY <1>2, <2>1, <2>4
  <2> QED
    BY <1>7, <2>2, <2>5 DEF c
<1> QED
  BY <1>1, <1>3, <1>4, <1>5, <1>6, <1>7

\* A target that receives a text is a row, if its version is within the bound.
\* It keeps its settings, and its text if it has none to receive.
LEMMA ReceivedType ==
  ASSUME NEW r \in Row, NEW w \in Work, w.from # None, NEW now \in Stamps,
         Received(r, w, now).version \in 1..MaxVersions
  PROVE  LET n == Received(r, w, now) IN
         /\ n \in Row /\ n.disabled = r.disabled /\ n.protected = r.protected
         /\ n.text = IF Receivable(r) THEN w.text ELSE r.text
         /\ n.version \in {r.version, r.version + 1}
         /\ n.version = r.version => n = r
         /\ n.text # r.text => n.version = r.version + 1
         /\ ~Receivable(r) => n = r
         /\ n # r => n.status # "confirmed"
         /\ (r.confirmedAt # None <=> r.status = "confirmed")
              => (n.confirmedAt # None <=> n.status = "confirmed")
<1> DEFINE n == Received(r, w, now)
<1>1. w.from \in Segments /\ w.text \in Text
  BY DEF Work
<1>2. CASE ~Receivable(r)
  BY <1>2, RowFields DEF Received
<1>3. CASE Receivable(r) /\ r.text # w.text
  <2> DEFINE v  == n.version
             r1 == [r EXCEPT !.text = w.text]
             r2 == [r1 EXCEPT !.source = "sync"]
             r3 == [r2 EXCEPT !.origin = w.from]
             r4 == [r3 EXCEPT !.matched = TRUE]
             r5 == [r4 EXCEPT !.status = "exact"]
             r6 == [r5 EXCEPT !.confirmedAt = None]
             r7 == [r6 EXCEPT !.version = v]
             r8 == [r7 EXCEPT !.updatedAt = now]
  <2>1. n = [r EXCEPT !.text = w.text, !.source = "sync", !.origin = w.from,
                      !.matched = TRUE, !.status = "exact", !.confirmedAt = None,
                      !.version = @ + 1, !.updatedAt = now]
    BY <1>3 DEF Received
  <2>2. r1 \in Row
    BY <1>1, RowUpdates
  <2>3. r2 \in Row
    BY <2>2, RowUpdates
  <2>4. r3 \in Row
    BY <1>1, <2>3, RowUpdates
  <2>5. r4 \in Row
    BY <2>4, RowUpdates
  <2>6. r5 \in Row
    BY <2>5, RowUpdates DEF Status
  <2>7. r6 \in Row
    BY <2>6, RowUpdates DEF Time
  <2>8. r7 \in Row
    BY <2>7, RowUpdates
  <2>9. r8 \in Row
    BY <2>8, RowUpdates
  <2> HIDE DEF n, v
  <2>10. /\ n.version = r.version + 1 /\ n.text = w.text /\ n.disabled = r.disabled
         /\ n.protected = r.protected /\ n.status = "exact" /\ n.confirmedAt = None
    BY <2>1 DEF Row
  <2>11. n = r8
    BY <2>1, <2>10 DEF v
  <2>12. r.version \in Nat
    BY RowFields, Constants
  <2> HIDE DEF r8
  <2> QED
    BY <1>3, <2>9, <2>10, <2>11, <2>12 DEF n
<1>4. CASE Receivable(r) /\ r.text = w.text /\ r.source = "sync" /\ r.origin # w.from
  <2> DEFINE v  == n.version
             r1 == [r EXCEPT !.origin = w.from]
             r2 == [r1 EXCEPT !.version = v]
             r3 == [r2 EXCEPT !.updatedAt = now]
  <2>1. n = [r EXCEPT !.origin = w.from, !.version = @ + 1, !.updatedAt = now]
    BY <1>4 DEF Received
  <2>2. r1 \in Row
    BY <1>1, RowUpdates
  <2>3. r2 \in Row
    BY <2>2, RowUpdates
  <2>4. r3 \in Row
    BY <2>3, RowUpdates
  <2> HIDE DEF n, v
  <2>5. /\ n.version = r.version + 1 /\ n.text = r.text /\ n.disabled = r.disabled
        /\ n.protected = r.protected /\ n.status = r.status /\ n.confirmedAt = r.confirmedAt
    BY <2>1 DEF Row
  <2>6. n = r3
    BY <2>1, <2>5 DEF v
  <2>7. r.version \in Nat
    BY RowFields, Constants
  <2>8. r.status # "confirmed"
    BY <1>4 DEF Receivable
  <2> HIDE DEF r3
  <2> QED
    BY <1>4, <2>4, <2>5, <2>6, <2>7, <2>8 DEF n
<1>5. CASE Receivable(r) /\ r.text = w.text /\ ~(r.source = "sync" /\ r.origin # w.from)
  <2>1. n = r
    BY <1>5 DEF Received
  <2>2. r.version \in Nat
    BY RowFields, Constants
  <2> HIDE DEF n
  <2> QED
    BY <1>5, <2>1, <2>2 DEF n
<1> QED
  BY <1>2, <1>3, <1>4, <1>5

-----------------------------------------------------------------------------
(* The choice of a source. *)

IsBest(rows, S, b) == b \in S /\ \A t \in S \ {b} : Beats(rows, b, t)

\* The rank of a convergence is a strict total order.
LEMMA RankIsOrder ==
  ASSUME NEW rows \in [Segments -> Row]
  PROVE  /\ \A a, b \in Segments : a # b => (Beats(rows, a, b) <=> ~Beats(rows, b, a))
         /\ \A a, b, c \in Segments : Beats(rows, a, b) /\ Beats(rows, b, c) => Beats(rows, a, c)
<1>1. \A a \in Segments : a \in Nat /\ Stamp(rows[a]) \in Nat
  BY RowFields, Constants DEF Stamp, Time
<1>2. \A a, b \in Segments : a # b => (Beats(rows, a, b) <=> ~Beats(rows, b, a))
  <2> TAKE a, b \in Segments
  <2>1. a \in Nat /\ b \in Nat /\ Stamp(rows[a]) \in Nat /\ Stamp(rows[b]) \in Nat
    BY <1>1
  <2> QED
    BY <2>1 DEF Beats
<1>3. \A a, b, c \in Segments : Beats(rows, a, b) /\ Beats(rows, b, c) => Beats(rows, a, c)
  <2> TAKE a, b, c \in Segments
  <2>1. /\ a \in Nat /\ b \in Nat /\ c \in Nat
        /\ Stamp(rows[a]) \in Nat /\ Stamp(rows[b]) \in Nat /\ Stamp(rows[c]) \in Nat
    BY <1>1
  <2> QED
    BY <2>1 DEF Beats
<1> QED
  BY <1>2, <1>3

\* Among some segments one beats the others: a smallest set without one would
\* have one, the best of the others or the one left out.
LEMMA BestExists ==
  ASSUME NEW rows \in [Segments -> Row], NEW S \in SUBSET Segments, S # {}
  PROVE  \E b \in S : IsBest(rows, S, b)
<1> DEFINE Without == {U \in SUBSET Segments : U # {} /\ ~ \E b \in U : IsBest(rows, U, b)}
<1>1. IsWellFoundedOn(StrictSubsetOrdering(Segments), SUBSET Segments)
  <2>1. FiniteSubsetsOf(Segments) = SUBSET Segments
    BY Constants, FS_FiniteSubsetsOfFinite
  <2>2. IsWellFoundedOn(StrictSubsetOrdering(Segments), FiniteSubsetsOf(Segments))
    BY FS_StrictSubsetOrderingWellFounded
  <2> QED
    BY <2>1, <2>2
<1>2. SUFFICES ASSUME Without # {} PROVE FALSE
  OBVIOUS
<1>3. Without \subseteq SUBSET Segments
  OBVIOUS
<1> HIDE DEF Without
<1>4. PICK U \in Without : \A V \in Without : <<V, U>> \notin StrictSubsetOrdering(Segments)
  BY <1>1, <1>2, <1>3, WFMin
<1>5. U \in SUBSET Segments /\ U # {} /\ ~ \E b \in U : IsBest(rows, U, b)
  BY DEF Without
<1>6. PICK x \in U : TRUE
  BY <1>5
<1> DEFINE V == U \ {x}
<1>7. V # {}
  BY <1>5, <1>6 DEF IsBest
<1>8. V \notin Without
  BY <1>3, <1>4, <1>5, <1>6 DEF StrictSubsetOrdering
<1>9. PICK b \in V : IsBest(rows, V, b)
  BY <1>5, <1>7, <1>8 DEF Without
<1>10. CASE Beats(rows, b, x)
  <2>1. IsBest(rows, U, b)
    BY <1>9, <1>10 DEF IsBest
  <2> QED
    BY <1>5, <1>9, <2>1
<1>11. CASE ~Beats(rows, b, x)
  <2>1. Beats(rows, x, b)
    BY <1>5, <1>6, <1>9, <1>11, RankIsOrder
  <2>2. IsBest(rows, U, x)
    BY <1>5, <1>6, <1>9, <2>1, RankIsOrder DEF IsBest
  <2> QED
    BY <1>5, <1>6, <2>2
<1> QED
  BY <1>10, <1>11

\* Best is that one.
LEMMA BestIsBest ==
  ASSUME NEW rows \in [Segments -> Row], NEW S \in SUBSET Segments, S # {}
  PROVE  IsBest(rows, S, Best(rows, S))
<1>1. \E b \in S : \A t \in S \ {b} : Beats(rows, b, t)
  BY BestExists DEF IsBest
<1> QED
  BY <1>1 DEF Best, IsBest

\* The source of a confirmation is the best of the rows with a text.
LEMMA BestSourceType ==
  ASSUME seg \in [Segments -> Row], NEW rows \in SUBSET Segments, NEW able \in SUBSET Segments
  PROVE  LET b == BestSource(rows, able) IN
         /\ b \in Segments \cup {None}
         /\ b = None => Cardinality(rows) < 2 \/ able = {}
         /\ b # None => IsBest(seg, able, b)
<1>1. CASE Cardinality(rows) < 2 \/ able = {}
  BY <1>1 DEF BestSource
<1>2. CASE ~(Cardinality(rows) < 2 \/ able = {})
  <2>1. IsBest(seg, able, Best(seg, able))
    BY <1>2, BestIsBest
  <2>2. Best(seg, able) # None
    BY <2>1, Constants DEF IsBest
  <2> QED
    BY <1>2, <2>1, <2>2 DEF BestSource, IsBest
<1> QED
  BY <1>1, <1>2

-----------------------------------------------------------------------------
(* What a step does to the rows. *)

\* A row has the time of its confirmation, and of nothing else.
Timed(r) == r.status = "confirmed" <=> r.confirmedAt # None

\* A write changes one row, adds its text to the history, and keeps the bound.
LEMMA WriteRow ==
  ASSUME TypeOK, NEW s \in Segments, NEW r, Write(s, r)
  PROVE  /\ seg' = [seg EXCEPT ![s] = r] /\ r.version <= MaxVersions
         /\ shown' = [shown EXCEPT ![s][r.version] = @ \cup {r.text}]
         /\ r \in Row => /\ seg' \in [Segments -> Row]
                         /\ shown' \in [Segments -> [1..MaxVersions -> SUBSET Text]]
                         /\ \A t \in Segments : seg'[t].text \in shown'[t][seg'[t].version]
<1>1. seg' = [seg EXCEPT ![s] = r] /\ shown' = [shown EXCEPT ![s][r.version] = @ \cup {r.text}]
  BY DEF Write
<1>2. /\ seg \in [Segments -> Row] /\ shown \in [Segments -> [1..MaxVersions -> SUBSET Text]]
      /\ \A t \in Segments : seg[t].text \in shown[t][seg[t].version]
  BY DEF TypeOK
<1>3. seg'[s] = r /\ r.version <= MaxVersions
  BY <1>1, <1>2 DEF Write, Bounded
<1>4. ASSUME r \in Row
      PROVE  /\ seg' \in [Segments -> Row]
             /\ shown' \in [Segments -> [1..MaxVersions -> SUBSET Text]]
             /\ \A t \in Segments : seg'[t].text \in shown'[t][seg'[t].version]
  <2>1. r.version \in 1..MaxVersions /\ r.text \in Text
    BY <1>4, RowFields
  <2>2. seg' \in [Segments -> Row]
    BY <1>1, <1>2, <1>4
  <2>3. shown' \in [Segments -> [1..MaxVersions -> SUBSET Text]]
    BY <1>1, <1>2, <2>1
  <2>4. ASSUME NEW t \in Segments PROVE seg'[t].text \in shown'[t][seg'[t].version]
    <3>1. CASE t = s
      BY <1>1, <1>2, <1>3, <2>1, <3>1
    <3>2. CASE t # s
      BY <1>1, <1>2, <3>2
    <3> QED
      BY <3>1, <3>2
  <2> QED
    BY <2>2, <2>3, <2>4
<1> QED
  BY <1>1, <1>3, <1>4

\* A save writes one row and keeps its settings; the row stays as it is or gets
\* the next version.
LEMMA SaveStep ==
  ASSUME TypeOK, NEW s \in Segments, Save(s)
  PROVE  \E r \in Row :
           /\ Write(s, r) /\ EnqueueConfirmed(r)
           /\ r.disabled = seg[s].disabled /\ r.protected = seg[s].protected
           /\ r = seg[s] \/ r.version = seg[s].version + 1
           /\ Timed(seg[s]) => Timed(r)
<1>1. seg[s] \in Row
  BY DEF TypeOK
<1>2. PICK text \in Text, source \in {"machine", "manual"}, confirm \in BOOLEAN, now \in Stamps :
        LET r == IF MayEdit(seg[s], source)
                 THEN [Edited(seg[s], text, source, confirm, now) EXCEPT !.updatedAt = now]
                 ELSE seg[s]
        IN Write(s, r) /\ EnqueueConfirmed(r)
  BY DEF Save
<1>3. CASE ~MayEdit(seg[s], source)
  BY <1>1, <1>2, <1>3
<1>4. CASE MayEdit(seg[s], source)
  <2> DEFINE e == Edited(seg[s], text, source, confirm, now)
             r == [e EXCEPT !.updatedAt = now]
  <2>1. Write(s, r) /\ EnqueueConfirmed(r)
    BY <1>2, <1>4
  <2>2. /\ e.version \in 1..MaxVersions => e \in Row
        /\ e.version = seg[s].version + 1 /\ r.version = e.version
        /\ e.disabled = seg[s].disabled /\ e.protected = seg[s].protected /\ Timed(e)
    BY <1>1, EditedType DEF Timed
  <2> HIDE DEF e
  <2>3. r.version <= MaxVersions
    BY <2>1, WriteRow
  <2>4. e \in Row
    BY <1>1, <2>2, <2>3, RowFields, Constants
  <2>5. r \in Row
    BY <2>4, RowUpdates
  <2>6. r.disabled = e.disabled /\ r.protected = e.protected /\ (Timed(e) => Timed(r))
    BY <2>4 DEF Row, Timed
  <2> HIDE DEF r
  <2> QED
    BY <2>1, <2>2, <2>5, <2>6
<1> QED
  BY <1>3, <1>4

\* A change of protection gives the row the next version and nothing else.
LEMMA ProtectStep ==
  ASSUME TypeOK, NEW s \in Segments, NEW op, Protect(s, op)
  PROVE  \E r \in Row :
           /\ Write(s, r) /\ r.version = seg[s].version + 1 /\ r.text = seg[s].text
           /\ r.disabled = seg[s].disabled
           /\ Timed(seg[s]) => Timed(r)
<1>1. seg[s] \in Row
  BY DEF TypeOK
<1>2. PICK now \in Stamps :
        Write(s, [seg[s] EXCEPT !.protected = (op = "protect"), !.version = @ + 1,
                                !.updatedAt = now])
  BY DEF Protect
<1> DEFINE b == op = "protect"
           v == seg[s].version + 1
           r == [seg[s] EXCEPT !.protected = b, !.version = @ + 1, !.updatedAt = now]
           r1 == [seg[s] EXCEPT !.protected = b]
           r2 == [r1 EXCEPT !.version = v]
           r3 == [r2 EXCEPT !.updatedAt = now]
<1>3. Write(s, r)
  BY <1>2
<1>4. b \in BOOLEAN
  OBVIOUS
<1> HIDE DEF b
<1>5. /\ r.version = v /\ r.text = seg[s].text /\ r.disabled = seg[s].disabled
      /\ r.status = seg[s].status /\ r.confirmedAt = seg[s].confirmedAt
  BY <1>1 DEF Row
<1>6. v \in 1..MaxVersions
  <2> HIDE DEF r
  <2>1. r.version <= MaxVersions
    BY <1>3, WriteRow
  <2>2. seg[s].version \in 1..MaxVersions
    BY <1>1, RowFields
  <2> QED
    BY <1>5, <2>1, <2>2, Constants
<1>7. r1 \in Row
  BY <1>1, <1>4, RowUpdates
<1>8. r2 \in Row
  BY <1>6, <1>7, RowUpdates
<1>9. r3 \in Row
  BY <1>8, RowUpdates
<1>10. r = r3
  OBVIOUS
<1> HIDE DEF r, r3
<1> QED
  BY <1>3, <1>5, <1>9, <1>10 DEF Timed

\* The version of what a request leaves, and of what is flushed.
LEMMA VersionChanged ==
  ASSUME NEW q \in Request, q.op # "blur", NEW now \in Stamps
  PROVE  Changed(q, now).version \in {q.snap.version, q.snap.version + 1}
<1>1. /\ q.op \in {"batch", "confirm", "unconfirm", "disable", "enable"} /\ q.snap \in Row
      /\ q.text \in Text /\ q.source \in {"machine", "manual"} /\ q.confirm \in BOOLEAN
  BY SegmentSyncAssumption DEF Request
<1>2. CASE q.op = "batch"
  BY <1>1, <1>2, EditedType DEF Changed
<1>3. CASE q.op = "confirm"
  <2> DEFINE w == WithStatus(q.snap, "confirmed", now)
  <2>1. w \in Row /\ w.version = q.snap.version
    BY <1>1, WithStatusType DEF Status
  <2>2. Changed(q, now) = [w EXCEPT !.version = @ + 1]
    BY <1>3 DEF Changed
  <2> HIDE DEF w
  <2> QED
    BY <2>1, <2>2 DEF Row
<1>4. CASE q.op = "unconfirm"
  <2> DEFINE w == WithStatus(q.snap, Unconfirmed(q.snap), now)
  <2>1. w \in Row /\ w.version = q.snap.version
    BY <1>1, WithStatusType DEF Status, Unconfirmed
  <2>2. Changed(q, now) = [w EXCEPT !.version = @ + 1]
    BY <1>4 DEF Changed
  <2> HIDE DEF w
  <2> QED
    BY <2>1, <2>2 DEF Row
<1>5. CASE q.op = "disable"
  <2> DEFINE off  == [q.snap EXCEPT !.disabled = TRUE]
             next == IF q.snap.source = "sync" THEN Cleared(off) ELSE off
  <2>1. off \in Row
    BY <1>1, RowUpdates
  <2>2. off.version = q.snap.version
    BY <1>1 DEF Row
  <2>3. next \in Row /\ next.version = q.snap.version
    <3> HIDE DEF off
    <3> QED
      BY <2>1, <2>2, ClearedType
  <2>4. Changed(q, now) = IF next = q.snap THEN q.snap ELSE [next EXCEPT !.version = @ + 1]
    BY <1>5 DEF Changed, Disabled
  <2> HIDE DEF next
  <2> QED
    BY <2>3, <2>4 DEF Row
<1>6. CASE q.op = "enable"
  <2>1. Changed(q, now) = [q.snap EXCEPT !.disabled = FALSE, !.version = @ + 1]
    BY <1>6 DEF Changed
  <2> QED
    BY <1>1, <2>1 DEF Row
<1> QED
  BY <1>1, <1>2, <1>3, <1>4, <1>5, <1>6

LEMMA VersionFlushed ==
  ASSUME NEW row \in Row, NEW old, NEW new, NEW now
  PROVE  Flush(row, old, new, now).version
           = IF new.version # old.version THEN new.version ELSE row.version
<1> DEFINE g == [f \in DOMAIN row |-> IF new[f] # old[f] THEN new[f] ELSE row[f]]
<1>1. "version" \in DOMAIN row /\ "updatedAt" # "version"
  BY DEF Row
<1>2. g["version"] = IF new["version"] # old["version"] THEN new["version"] ELSE row["version"]
  BY <1>1
<1>3. [g EXCEPT !["updatedAt"] = now]["version"] = g["version"]
  BY <1>1
<1> HIDE DEF g
<1>4. Flush(row, old, new, now) = [g EXCEPT !["updatedAt"] = now]
  BY DEF Flush, g
<1> QED
  BY <1>2, <1>3, <1>4

\* The commit of a request writes one row f: the columns of what the request
\* leaves, c, where it has changed them, and the columns of the table elsewhere.
LEMMA CommitStep ==
  ASSUME TypeOK, NEW u \in Users, CommitUnlocked(u)
  PROVE  LET q   == req[u]
             row == seg[q.seg]
             old == q.snap
         IN /\ q # None /\ q \in Request /\ q.op # "blur" /\ row \in Row /\ old \in Row
            /\ req' = [req EXCEPT ![u] = None]
            /\ \E c, f \in Row :
                 /\ Write(q.seg, f) /\ (job' = job \/ EnqueueConfirmed(c))
                 /\ f.text = IF c.text # old.text THEN c.text ELSE row.text
                 /\ f.status = IF c.status # old.status THEN c.status ELSE row.status
                 /\ f.confirmedAt = IF c.confirmedAt # old.confirmedAt THEN c.confirmedAt
                                    ELSE row.confirmedAt
                 /\ f.disabled = IF c.disabled # old.disabled THEN c.disabled ELSE row.disabled
                 /\ f.protected = row.protected
                 /\ q.op \notin {"batch", "disable"} => c.text = old.text
                 /\ q.op \notin {"disable", "enable"} => c.disabled = old.disabled
                 /\ q.op = "confirm" => c.status = "confirmed" /\ c.confirmedAt # None
                 /\ q.op = "unconfirm" => c.status # "confirmed" /\ c.confirmedAt = None
                 /\ q.op = "enable"
                      => c.status = old.status /\ c.confirmedAt = old.confirmedAt
<1> DEFINE q   == req[u]
           row == seg[q.seg]
           old == q.snap
<1>1. q \in Request /\ q.op # "blur" /\ q.seg \in Segments /\ old \in Row
  BY DEF TypeOK, CommitUnlocked, Request
<1>2. PICK now \in Stamps :
        LET r == Changed(q, now)
        IN /\ Write(q.seg, Flush(seg[q.seg], q.snap, r, now))
           /\ IF q.op \in {"batch", "confirm"} THEN EnqueueConfirmed(r) ELSE UNCHANGED job
  BY DEF CommitUnlocked
<1> DEFINE c == Changed(q, now)
           f == Flush(row, old, c, now)
<1>3. Write(q.seg, f) /\ (job' = job \/ EnqueueConfirmed(c))
  BY <1>2
<1>4. row \in Row
  BY <1>1 DEF TypeOK
<1>5. q # None /\ req' = [req EXCEPT ![u] = None]
  BY DEF CommitUnlocked
<1> HIDE DEF row
<1>6. c.version \in {q.snap.version, q.snap.version + 1}
  BY <1>1, VersionChanged
<1>7. f.version <= MaxVersions
  BY <1>1, <1>3, WriteRow
<1>8. f.version = IF c.version # old.version THEN c.version ELSE row.version
  BY <1>4, VersionFlushed
<1>9. old.version \in 1..MaxVersions
  BY <1>1, RowFields
<1>10. c.version \in 1..MaxVersions
  <2> HIDE DEF c, f, q
  <2> QED
    BY <1>6, <1>7, <1>8, <1>9, Constants
<1>11. /\ c \in Row /\ c.protected = old.protected
       /\ q.op \notin {"batch", "disable"} => c.text = old.text
       /\ q.op \notin {"disable", "enable"} => c.disabled = old.disabled
       /\ q.op \in {"confirm", "unconfirm"} => (c.confirmedAt # None <=> c.status = "confirmed")
       /\ q.op = "confirm" => c.status = "confirmed"
       /\ q.op = "unconfirm" => c.status # "confirmed"
       /\ q.op = "enable" => c.status = old.status /\ c.confirmedAt = old.confirmedAt
  BY <1>1, <1>10, ChangedType
<1> HIDE DEF c, old
<1>12. /\ f \in Row
       /\ f.text = IF c.text # old.text THEN c.text ELSE row.text
       /\ f.status = IF c.status # old.status THEN c.status ELSE row.status
       /\ f.confirmedAt = IF c.confirmedAt # old.confirmedAt THEN c.confirmedAt
                          ELSE row.confirmedAt
       /\ f.disabled = IF c.disabled # old.disabled THEN c.disabled ELSE row.disabled
       /\ f.protected = IF c.protected # old.protected THEN c.protected ELSE row.protected
  BY <1>1, <1>4, <1>11, FlushType
<1> HIDE DEF f
<1>13. /\ Write(q.seg, f) /\ (job' = job \/ EnqueueConfirmed(c))
       /\ f.protected = row.protected
       /\ q.op = "confirm" => c.confirmedAt # None
       /\ q.op = "unconfirm" => c.confirmedAt = None
  BY <1>3, <1>11, <1>12 DEF f
<1> QED
  BY <1>1, <1>4, <1>5, <1>11, <1>12, <1>13 DEF row, old

LEMMA VersionReceived ==
  ASSUME NEW r \in Row, NEW w, NEW now
  PROVE  Received(r, w, now).version \in {r.version, r.version + 1}
<1>1. CASE ~Receivable(r)
  BY <1>1 DEF Received
<1>2. CASE Receivable(r) /\ r.text # w.text
  BY <1>2 DEF Received, Row
<1>3. CASE Receivable(r) /\ r.text = w.text
  BY <1>3 DEF Received, Row
<1> QED
  BY <1>1, <1>2, <1>3

\* A commit of the worker writes its targets, and a rolled back one nothing.
LEMMA WorkerStep ==
  ASSUME TypeOK, WorkerCommit
  PROVE  \/ UNCHANGED <<seg, shown, job>>
         \/ \E now \in Stamps :
              /\ job' = None /\ seg' \in [Segments -> Row]
              /\ \A s \in Segments :
                   /\ seg'[s] = IF work.from # None /\ s \in work.rows \ {work.from}
                                THEN Received(seg[s], work, now) ELSE seg[s]
                   /\ shown'[s] = [shown[s] EXCEPT ![seg'[s].version] = @ \cup {seg'[s].text}]
              /\ shown' \in [Segments -> [1..MaxVersions -> SUBSET Text]]
              /\ \A s \in Segments : seg'[s].text \in shown'[s][seg'[s].version]
<1>1. work \in Work /\ work.phase = "locked" /\ seg \in [Segments -> Row]
      /\ shown \in [Segments -> [1..MaxVersions -> SUBSET Text]]
  BY DEF TypeOK, WorkerCommit
<1>2. PICK now \in Stamps :
        LET targets == work.rows \ {work.from}
            after   == [s \in Segments |->
                          IF work.from # None /\ s \in targets
                          THEN Received(seg[s], work, now) ELSE seg[s]]
        IN IF ClaimHeld
           THEN /\ Bounded(after)
                /\ seg' = after
                /\ shown' = [s \in Segments |->
                               [shown[s] EXCEPT ![after[s].version] = @ \cup {after[s].text}]]
                /\ job' = None
           ELSE UNCHANGED <<seg, shown, job>>
  BY DEF WorkerCommit
<1>3. CASE ~ClaimHeld
  BY <1>2, <1>3
<1>4. CASE ClaimHeld
  <2> DEFINE after == [s \in Segments |->
                         IF work.from # None /\ s \in work.rows \ {work.from}
                         THEN Received(seg[s], work, now) ELSE seg[s]]
  <2>1. /\ Bounded(after) /\ seg' = after /\ job' = None
        /\ shown' = [s \in Segments |->
                       [shown[s] EXCEPT ![after[s].version] = @ \cup {after[s].text}]]
    BY <1>2, <1>4
  <2>2. \A s \in Segments : after[s].version <= MaxVersions
    BY <2>1 DEF Bounded
  <2>3. ASSUME NEW s \in Segments PROVE after[s] \in Row
    <3>1. CASE ~(work.from # None /\ s \in work.rows \ {work.from})
      BY <1>1, <3>1
    <3>2. CASE work.from # None /\ s \in work.rows \ {work.from}
      <4>1. after[s] = Received(seg[s], work, now)
        BY <3>2
      <4>2. Received(seg[s], work, now).version \in {seg[s].version, seg[s].version + 1}
        BY <1>1, VersionReceived
      <4>3. seg[s].version \in 1..MaxVersions
        BY <1>1, RowFields
      <4>4. Received(seg[s], work, now).version \in 1..MaxVersions
        BY <2>2, <4>1, <4>2, <4>3, Constants
      <4> QED
        BY <1>1, <3>2, <4>1, <4>4, ReceivedType
    <3> QED
      BY <3>1, <3>2
  <2>4. after \in [Segments -> Row]
    BY <2>3
  <2> HIDE DEF after
  <2>5. \A s \in Segments : after[s].version \in 1..MaxVersions /\ after[s].text \in Text
    BY <2>4, RowFields
  <2>6. \A s \in Segments :
          shown'[s] = [shown[s] EXCEPT ![seg'[s].version] = @ \cup {seg'[s].text}]
    BY <2>1
  <2>7. shown' \in [Segments -> [1..MaxVersions -> SUBSET Text]]
    BY <1>1, <2>1, <2>5
  <2>8. \A s \in Segments : seg'[s].text \in shown'[s][seg'[s].version]
    BY <1>1, <2>1, <2>5, <2>6
  <2> QED
    BY <2>1, <2>4, <2>6, <2>7, <2>8 DEF after
<1> QED
  BY <1>3, <1>4

-----------------------------------------------------------------------------
(* Types.  A blur in flight names a text: the outbox row takes it over. *)

BlursNameText == \A u \in Users : req[u] # None /\ req[u].op = "blur" => req[u].text \in Texts

TypeInv == TypeOK /\ BlursNameText

\* What an import leaves is a row.
LEMMA FreshRowType ==
  ASSUME NEW text \in Text, NEW source \in {"none", "machine", "sync"},
         NEW origin \in Segments \cup {None}
  PROVE  /\ FreshRow(text, source, origin) \in Row
         /\ FreshRow(text, source, origin).version = 1
         /\ FreshRow(text, source, origin).status # "confirmed"
         /\ FreshRow(text, source, origin).confirmedAt = None
<1> DEFINE now == CHOOSE t \in Stamps : TRUE
<1>1. now \in Stamps
  BY Constants
<1> HIDE DEF now
<1>2. FreshRow(text, source, origin)
        = [text |-> text, source |-> source, matched |-> source = "sync",
           status |-> IF source = "sync" THEN "exact" ELSE "none", confirmedAt |-> None,
           updatedAt |-> now, disabled |-> FALSE, protected |-> FALSE,
           version |-> 1, origin |-> origin]
  BY DEF FreshRow, now
<1>3. 1 \in 1..MaxVersions /\ (source = "sync") \in BOOLEAN
  BY Constants
<1>4. [text |-> text, source |-> source, matched |-> source = "sync",
       status |-> IF source = "sync" THEN "exact" ELSE "none", confirmedAt |-> None,
       updatedAt |-> now, disabled |-> FALSE, protected |-> FALSE,
       version |-> 1, origin |-> origin] \in Row
  BY <1>1, <1>3 DEF Row
<1> QED
  BY <1>2, <1>4

\* The rows of an initial state.
LEMMA InitialRows ==
  ASSUME Init
  PROVE  /\ seg \in [Segments -> Row]
         /\ \A s \in Segments : /\ seg[s].version = 1 /\ Timed(seg[s])
                                /\ shown[s][1] = {seg[s].text}
                                /\ \A v \in 1..MaxVersions : v # 1 => shown[s][v] = {}
         /\ shown \in [Segments -> [1..MaxVersions -> SUBSET Text]]
<1>1. seg \in [Segments -> {FreshRow(None, "none", None)}
                 \cup {FreshRow(t, "machine", None) : t \in Texts}
                 \cup {FreshRow(t, "sync", s) : t \in Texts, s \in Segments}]
  BY DEF Init
<1>2. None \in Text /\ Texts \subseteq Text
  BY DEF Text
<1>3. ASSUME NEW s \in Segments
      PROVE  \E text \in Text, source \in {"none", "machine", "sync"},
                origin \in Segments \cup {None} : seg[s] = FreshRow(text, source, origin)
  BY <1>1, <1>2
<1>4. \A s \in Segments : seg[s] \in Row /\ seg[s].version = 1 /\ Timed(seg[s])
  BY <1>3, FreshRowType DEF Timed
<1>5. seg \in [Segments -> Row]
  BY <1>1, <1>4
<1>6. \A s \in Segments : seg[s].text \in Text
  BY <1>4, RowFields
<1>7. shown = [s \in Segments |-> [v \in 1..MaxVersions |->
                                    IF v = 1 THEN {seg[s].text} ELSE {}]]
  BY DEF Init
<1>8. 1 \in 1..MaxVersions
  BY Constants
<1> QED
  BY <1>4, <1>5, <1>6, <1>7, <1>8

LEMMA TypeInit == Init => TypeInv
<1> SUFFICES ASSUME Init PROVE TypeInv
  OBVIOUS
<1>1. /\ seg \in [Segments -> Row]
      /\ shown \in [Segments -> [1..MaxVersions -> SUBSET Text]]
      /\ \A s \in Segments : seg[s].text \in shown[s][seg[s].version]
  BY InitialRows
<1> QED
  BY <1>1 DEF Init, TypeInv, TypeOK, BlursNameText

\* A confirmation is queued as one.
LEMMA EnqueuedType ==
  ASSUME NEW r, EnqueueConfirmed(r)
  PROVE  job' = job \/ (job' \in Job /\ job'.kind = "confirmed")
  BY DEF EnqueueConfirmed, Enqueued, Job

\* A claim, or its end, changes the status of the outbox row only.
LEMMA ClaimedType ==
  ASSUME NEW j \in Job
  PROVE  /\ [j EXCEPT !.status = "processing"] \in Job
         /\ [j EXCEPT !.status = "pending"] \in Job
         /\ LET c == [j EXCEPT !.status = "processing"]
            IN c.kind = j.kind /\ c.seg = j.seg /\ c.version = j.version /\ c.text = j.text
<1> DEFINE Confirmed == [status : {"pending", "processing"}, kind : {"confirmed"},
                         seg : {None}, version : {None}, text : {None}]
           Blur == [status : {"pending", "processing"}, kind : {"blur"},
                    seg : Segments, version : 1..MaxVersions, text : Texts]
<1>1. CASE j \in Confirmed
  <2>1. [j EXCEPT !.status = "processing"] \in Confirmed
    BY <1>1
  <2>2. [j EXCEPT !.status = "pending"] \in Confirmed
    BY <1>1
  <2>3. LET c == [j EXCEPT !.status = "processing"]
        IN c.kind = j.kind /\ c.seg = j.seg /\ c.version = j.version /\ c.text = j.text
    BY <1>1
  <2> QED
    BY <2>1, <2>2, <2>3 DEF Job
<1>2. CASE j \in Blur
  <2>1. [j EXCEPT !.status = "processing"] \in Blur
    BY <1>2
  <2>2. [j EXCEPT !.status = "pending"] \in Blur
    BY <1>2
  <2>3. LET c == [j EXCEPT !.status = "processing"]
        IN c.kind = j.kind /\ c.seg = j.seg /\ c.version = j.version /\ c.text = j.text
    BY <1>2
  <2> QED
    BY <2>1, <2>2, <2>3 DEF Job
<1> QED
  BY <1>1, <1>2 DEF Job

\* The lock leaves a convergence of the same job, with the rows that take part
\* and the source it has chosen.
LEMMA LockedType ==
  ASSUME TypeOK, WorkerLock
  PROVE  /\ work' \in Work /\ work'.phase = "locked" /\ work'.job = work.job
         /\ work'.rows = {s \in Segments : ~seg[s].disabled}
         /\ LET able == {s \in work'.rows : seg[s].text # None} IN
            work'.from = IF work.job.kind = "blur" THEN BlurSource(work.job, able)
                         ELSE BestSource(work'.rows, able)
         /\ work'.from # None => work'.text = seg[work'.from].text
<1>1. work \in Work /\ seg \in [Segments -> Row]
  BY DEF TypeOK, WorkerLock
<1> DEFINE rows == {s \in Segments : ~seg[s].disabled}
           able == {s \in rows : seg[s].text # None}
           from == IF work.job.kind = "blur" THEN BlurSource(work.job, able)
                   ELSE BestSource(rows, able)
           text == IF from = None THEN None ELSE seg[from].text
<1>2. work' = [work EXCEPT !.phase = "locked", !.rows = rows, !.from = from, !.text = text]
  BY DEF WorkerLock
<1>3. rows \in SUBSET Segments /\ able \in SUBSET Segments
  OBVIOUS
<1>4. from \in Segments \cup {None}
  BY <1>1, <1>3, BestSourceType DEF BlurSource
<1>5. text \in Text
  BY <1>1, <1>4, RowFields DEF Text
<1>6. work' = [phase |-> "locked", job |-> work.job, rows |-> rows, from |-> from, text |-> text]
  <2> HIDE DEF rows, from, text
  <2> QED
    BY <1>1, <1>2 DEF Work
<1>7. work.job \in Job
  BY <1>1 DEF Work
<1>8. work' \in Work
  <2> HIDE DEF rows, from, text
  <2> QED
    BY <1>3, <1>4, <1>5, <1>6, <1>7 DEF Work
<1> QED
  BY <1>6, <1>8

\* Every step keeps the types: one step per action.
LEMMA TypeNext == TypeInv /\ [Next]_vars => TypeInv'
<1> SUFFICES ASSUME TypeInv, [Next]_vars PROVE TypeInv'
  OBVIOUS
<1> USE DEF TypeInv
<1>1. /\ TypeOK /\ req \in [Users -> Request \cup {None}] /\ job \in Job \cup {None}
      /\ work \in Work \cup {None}
  BY DEF TypeOK
<1>2. ASSUME NEW s \in Segments, Save(s) PROVE TypeInv'
  <2>1. PICK r \in Row : Write(s, r) /\ EnqueueConfirmed(r)
    BY <1>2, SaveStep
  <2>2. UNCHANGED <<req, work>>
    BY <1>2 DEF Save
  <2> QED
    BY <1>1, <2>1, <2>2, WriteRow, EnqueuedType DEF TypeOK, BlursNameText
<1>3. ASSUME NEW s \in Segments, NEW op, Protect(s, op) PROVE TypeInv'
  <2>1. PICK r \in Row : Write(s, r)
    BY <1>3, ProtectStep
  <2>2. UNCHANGED <<req, job, work>>
    BY <1>3 DEF Protect
  <2> QED
    BY <1>1, <2>1, <2>2, WriteRow DEF TypeOK, BlursNameText
<1>4. ASSUME NEW u \in Users, NEW op \in Operations \ {"save", "protect", "release"},
             NEW s \in Segments, NEW text \in Text, NEW source \in {"machine", "manual"},
             NEW confirm \in BOOLEAN, Begin(u, op, s, text, source, confirm),
             op = "blur" => text \in Texts
      PROVE  TypeInv'
  <2> DEFINE q == [op |-> op, seg |-> s, snap |-> seg[s], text |-> text,
                   source |-> source, confirm |-> confirm]
  <2>1. q \in Request
    BY DEF Request, TypeOK
  <2>2. req' = [req EXCEPT ![u] = q] /\ UNCHANGED <<seg, job, work, shown>>
    BY <1>4 DEF Begin
  <2>3. q.op = "blur" => q.text \in Texts
    BY <1>4
  <2> HIDE DEF q
  <2>4. req' \in [Users -> Request \cup {None}]
    BY <1>1, <2>1, <2>2
  <2>5. BlursNameText'
    BY <1>1, <2>2, <2>3 DEF BlursNameText
  <2> QED
    BY <2>2, <2>4, <2>5 DEF TypeOK
<1>5. ASSUME NEW u \in Users, NEW s \in Segments, BeginBatch(u, s) PROVE TypeInv'
  <2>1. "batch" \in Operations
    BY <1>5 DEF BeginBatch, Begin
  <2> QED
    BY <1>4, <1>5, <2>1 DEF BeginBatch
<1>6. ASSUME NEW u \in Users, NEW s \in Segments,
             NEW op \in {"confirm", "unconfirm", "disable", "enable"}, BeginUnlocked(u, op, s)
      PROVE  TypeInv'
  <2>1. op \in Operations /\ Begin(u, op, s, None, "manual", FALSE)
    BY <1>6 DEF BeginUnlocked, Begin
  <2>2. None \in Text
    BY DEF Text
  <2> QED
    BY <1>4, <2>1, <2>2
<1>7. ASSUME NEW u \in Users, NEW s \in Segments, BeginBlur(u, s) PROVE TypeInv'
  <2>1. PICK seen \in Texts : Begin(u, "blur", s, seen, "manual", FALSE)
    BY <1>7 DEF BeginBlur
  <2>2. "blur" \in Operations /\ seen \in Text
    BY <2>1 DEF Begin, Text
  <2> QED
    BY <1>4, <2>1, <2>2
<1>8. ASSUME NEW u \in Users, CommitUnlocked(u) PROVE TypeInv'
  <2>1. PICK s \in Segments, f, c \in Row : Write(s, f) /\ (job' = job \/ EnqueueConfirmed(c))
    BY <1>8, CommitStep DEF Request
  <2>2. req' = [req EXCEPT ![u] = None] /\ work' = work
    BY <1>8 DEF CommitUnlocked
  <2>3. req' \in [Users -> Request \cup {None}] /\ BlursNameText'
    BY <1>1, <2>2 DEF BlursNameText
  <2> QED
    BY <1>1, <2>1, <2>2, <2>3, WriteRow, EnqueuedType DEF TypeOK
<1>9. ASSUME NEW u \in Users, CommitBlur(u) PROVE TypeInv'
  <2>1. /\ req[u] \in Request /\ req[u].op = "blur" /\ req[u].text \in Texts
        /\ job' = Enqueued("blur", req[u].seg, req[u].snap.version, req[u].text)
        /\ req' = [req EXCEPT ![u] = None] /\ UNCHANGED <<seg, work, shown>>
    BY <1>1, <1>9 DEF CommitBlur, BlursNameText
  <2>2. req[u].seg \in Segments /\ req[u].snap.version \in 1..MaxVersions
    BY <2>1, RowFields DEF Request
  <2>3. job' \in Job
    BY <2>1, <2>2 DEF Enqueued, Job
  <2>4. req' \in [Users -> Request \cup {None}] /\ BlursNameText'
    BY <1>1, <2>1 DEF BlursNameText
  <2> QED
    BY <1>1, <2>1, <2>3, <2>4 DEF TypeOK
<1>10. CASE WorkerClaim
  <2> DEFINE claimed == [job EXCEPT !.status = "processing"]
  <2>1. job \in Job /\ job' = claimed /\ UNCHANGED <<seg, req, shown>>
        /\ work' = [phase |-> "claimed", job |-> claimed, rows |-> {}, from |-> None,
                    text |-> None]
    BY <1>1, <1>10 DEF WorkerClaim
  <2>2. claimed \in Job
    BY <2>1, ClaimedType
  <2>3. work' \in Work
    BY <2>1, <2>2 DEF Work, Text
  <2> QED
    BY <1>1, <2>1, <2>2, <2>3 DEF TypeOK, BlursNameText
<1>11. CASE WorkerLock
  <2>1. work \in Work /\ UNCHANGED <<seg, req, job, shown>>
    BY <1>1, <1>11 DEF WorkerLock
  <2>2. work' \in Work
    BY <1>11, LockedType
  <2> QED
    BY <1>1, <2>1, <2>2 DEF TypeOK, BlursNameText
<1>12. CASE WorkerCommit
  <2>1. work' = None /\ req' = req
    BY <1>12 DEF WorkerCommit
  <2>2. /\ seg' \in [Segments -> Row] /\ job' \in Job \cup {None}
        /\ shown' \in [Segments -> [1..MaxVersions -> SUBSET Text]]
        /\ \A s \in Segments : seg'[s].text \in shown'[s][seg'[s].version]
    BY <1>1, <1>12, WorkerStep DEF TypeOK
  <2> QED
    BY <1>1, <2>1, <2>2 DEF TypeOK, BlursNameText
<1>13. CASE WorkerFails
  <2>1. /\ work' = None /\ UNCHANGED <<seg, req, shown>>
        /\ job' = IF ClaimHeld THEN [job EXCEPT !.status = "pending"] ELSE job
    BY <1>13 DEF WorkerFails
  <2>2. job' \in Job \cup {None}
    BY <1>1, <2>1, ClaimedType DEF ClaimHeld
  <2> QED
    BY <1>1, <2>1, <2>2 DEF TypeOK, BlursNameText
<1>14. CASE UNCHANGED vars
  BY <1>1, <1>14 DEF vars, TypeOK, BlursNameText
<1> QED
  BY <1>2, <1>3, <1>5, <1>6, <1>7, <1>8, <1>9, <1>10, <1>11, <1>12, <1>13, <1>14 DEF Next

\* The rows, the requests, the outbox row and the convergence in hand are
\* always what the code takes them for, whatever the endpoints in use.
THEOREM SegmentSyncTypeCorrect == Spec => []TypeOK
<1>1. TypeInv => TypeOK
  BY DEF TypeInv
<1> QED
  BY <1>1, TypeInit, TypeNext, PTL DEF Spec

-----------------------------------------------------------------------------
(* What a step changes in one row. *)

\* Before a request or the worker begins, and while it waits, the rows stand.
LEMMA RowsStand ==
  ASSUME [Next]_vars, ~WorkerCommit,
         \A s \in Segments : ~Save(s) /\ \A op : ~Protect(s, op),
         \A u \in Users : ~CommitUnlocked(u)
  PROVE  UNCHANGED <<seg, shown>>
  BY DEF Next, BeginBatch, BeginUnlocked, BeginBlur, Begin, CommitBlur, WorkerClaim, WorkerLock,
         WorkerFails, vars

\* The worker leaves the settings of a row, and a row that it may not write.
LEMMA WorkerRows ==
  ASSUME TypeOK, WorkerCommit, NEW s \in Segments
  PROVE  /\ seg'[s].disabled = seg[s].disabled /\ seg'[s].protected = seg[s].protected
         /\ ~Receivable(seg[s]) => seg'[s] = seg[s]
         /\ Timed(seg[s]) => Timed(seg'[s])
         /\ seg'[s] = seg[s] \/ seg'[s].version = seg[s].version + 1
<1>1. CASE UNCHANGED <<seg, shown, job>>
  BY <1>1
<1>2. CASE ~ UNCHANGED <<seg, shown, job>>
  <2>1. PICK now \in Stamps :
          /\ seg' \in [Segments -> Row]
          /\ seg'[s] = IF work.from # None /\ s \in work.rows \ {work.from}
                       THEN Received(seg[s], work, now) ELSE seg[s]
    BY <1>2, WorkerStep
  <2>2. work \in Work /\ seg[s] \in Row
    BY DEF TypeOK, WorkerCommit
  <2>3. seg'[s].version \in 1..MaxVersions
    BY <2>1, RowFields
  <2>4. CASE ~(work.from # None /\ s \in work.rows \ {work.from})
    BY <2>1, <2>4
  <2>5. CASE work.from # None /\ s \in work.rows \ {work.from}
    BY <2>1, <2>2, <2>3, <2>5, ReceivedType DEF Timed
  <2> QED
    BY <2>4, <2>5
<1> QED
  BY <1>1, <1>2

-----------------------------------------------------------------------------
\* Whatever runs meanwhile, no stale flush takes protection or participation
\* back: they change only where they are asked for.
THEOREM SettingsStayHolds == Spec => SettingsStay
<1> DEFINE Stay(s) ==
      /\ seg'[s].protected # seg[s].protected => req' = req /\ work' = work
      /\ seg'[s].disabled # seg[s].disabled
           => \E u \in Users : req[u] # None /\ req'[u] = None /\ req[u].seg = s
                               /\ req[u].op \in {"disable", "enable"}
<1>1. ASSUME TypeInv, [Next]_vars, NEW s \in Segments PROVE Stay(s)
  <2>1. TypeOK /\ seg \in [Segments -> Row] /\ req \in [Users -> Request \cup {None}]
    BY <1>1 DEF TypeInv, TypeOK
  <2>2. ASSUME NEW t \in Segments, Save(t) PROVE Stay(s)
    <3>1. PICK r \in Row : /\ Write(t, r) /\ r.disabled = seg[t].disabled
                           /\ r.protected = seg[t].protected
      BY <2>1, <2>2, SaveStep
    <3>2. seg' = [seg EXCEPT ![t] = r]
      BY <3>1 DEF Write
    <3> QED
      BY <2>1, <3>1, <3>2
  <2>3. ASSUME NEW t \in Segments, NEW op, Protect(t, op) PROVE Stay(s)
    <3>1. PICK r \in Row : Write(t, r) /\ r.disabled = seg[t].disabled
      BY <2>1, <2>3, ProtectStep
    <3>2. seg' = [seg EXCEPT ![t] = r] /\ UNCHANGED <<req, work>>
      BY <2>3, <3>1 DEF Write, Protect
    <3> QED
      BY <2>1, <3>1, <3>2
  <2>4. ASSUME NEW u \in Users, CommitUnlocked(u) PROVE Stay(s)
    <3> DEFINE q == req[u]
    <3>1. q # None /\ q \in Request /\ req' = [req EXCEPT ![u] = None]
      BY <2>1, <2>4, CommitStep
    <3>2. PICK c, f \in Row :
            /\ Write(q.seg, f)
            /\ f.disabled = IF c.disabled # q.snap.disabled THEN c.disabled
                            ELSE seg[q.seg].disabled
            /\ f.protected = seg[q.seg].protected
            /\ q.op \notin {"disable", "enable"} => c.disabled = q.snap.disabled
      BY <2>1, <2>4, CommitStep
    <3>3. q.seg \in Segments /\ seg' = [seg EXCEPT ![q.seg] = f] /\ req'[u] = None
      BY <2>1, <3>1, <3>2 DEF Request, Write
    <3> QED
      BY <2>1, <3>1, <3>2, <3>3
  <2>5. CASE WorkerCommit
    BY <2>1, <2>5, WorkerRows
  <2>6. CASE UNCHANGED <<seg, shown>>
    BY <2>6
  <2> QED
    BY <1>1, <2>2, <2>3, <2>4, <2>5, <2>6, RowsStand
<1>2. TypeInv /\ [Next]_vars => [\A s \in Segments : Stay(s)]_vars
  BY <1>1
<1> QED
  BY <1>2, TypeInit, TypeNext, PTL DEF Spec, SettingsStay

\* Where nobody is switched off, a text that somebody typed, confirmed or
\* protected goes away only by an edit of its segment.
THEOREM HumanTextStaysHolds ==
  ASSUME "disable" \notin Operations
  PROVE  Spec => HumanTextStays
<1> DEFINE Stay(s) == HumanWork(seg[s]) /\ seg'[s].text # seg[s].text => EditCommitted(s)
<1>1. ASSUME TypeInv, [Next]_vars, NEW s \in Segments PROVE Stay(s)
  <2>1. TypeOK /\ seg \in [Segments -> Row] /\ req \in [Users -> Request \cup {None}]
    BY <1>1 DEF TypeInv, TypeOK
  <2>2. ASSUME NEW t \in Segments, Save(t) PROVE Stay(s)
    BY <2>2 DEF Save, EditCommitted
  <2>3. ASSUME NEW t \in Segments, NEW op, Protect(t, op) PROVE Stay(s)
    BY <2>3 DEF Protect, EditCommitted
  <2>4. ASSUME NEW u \in Users, CommitUnlocked(u) PROVE Stay(s)
    <3> DEFINE q == req[u]
    <3>1. /\ q # None /\ q \in Request /\ q.op # "disable"
          /\ req' = [req EXCEPT ![u] = None]
      BY <2>1, <2>4, CommitStep DEF Request
    <3>2. PICK c, f \in Row :
            /\ Write(q.seg, f)
            /\ f.text = IF c.text # q.snap.text THEN c.text ELSE seg[q.seg].text
            /\ q.op \notin {"batch", "disable"} => c.text = q.snap.text
      BY <2>1, <2>4, CommitStep
    <3>3. q.seg \in Segments /\ seg' = [seg EXCEPT ![q.seg] = f] /\ req'[u] = None
      BY <2>1, <3>1, <3>2 DEF Request, Write
    <3> QED
      BY <2>1, <3>1, <3>2, <3>3 DEF EditCommitted
  <2>5. CASE WorkerCommit
    <3>1. HumanWork(seg[s]) => ~Receivable(seg[s])
      BY DEF HumanWork, Receivable
    <3> QED
      BY <2>1, <2>5, <3>1, WorkerRows
  <2>6. CASE UNCHANGED <<seg, shown>>
    BY <2>6
  <2> QED
    BY <1>1, <2>2, <2>3, <2>4, <2>5, <2>6, RowsStand
<1>2. TypeInv /\ [Next]_vars => [\A s \in Segments : Stay(s)]_vars
  BY <1>1
<1> QED
  BY <1>2, TypeInit, TypeNext, PTL DEF Spec, HumanTextStays

-----------------------------------------------------------------------------
(* Confirmation times, where nobody is switched off and no batch is saved:  *)
(* then a flush changes the status and the time of a row together or not at *)
(* all, because what a request has read has its time.                       *)

RequestsTimed ==
  \A u \in Users : req[u] # None =>
    /\ Timed(req[u].snap)
    /\ req[u].op = "confirm" => req[u].snap.status # "confirmed"
    /\ req[u].op = "unconfirm" => req[u].snap.status = "confirmed"

TimedInv == TypeInv /\ ConfirmationHasTime /\ RequestsTimed

LEMMA TimedNext ==
  ASSUME {"batch", "disable"} \cap Operations = {}, TimedInv, [Next]_vars
  PROVE  ConfirmationHasTime' /\ RequestsTimed'
<1>1. /\ TypeOK /\ seg \in [Segments -> Row] /\ req \in [Users -> Request \cup {None}]
      /\ \A s \in Segments : Timed(seg[s])
  BY DEF TimedInv, TypeInv, TypeOK, ConfirmationHasTime, Timed
<1>2. ASSUME NEW s \in Segments, NEW r \in Row, Timed(r), seg' = [seg EXCEPT ![s] = r]
      PROVE  ConfirmationHasTime'
  BY <1>1, <1>2 DEF ConfirmationHasTime, Timed
<1>3. ASSUME req' = req PROVE RequestsTimed'
  BY <1>3 DEF TimedInv, RequestsTimed
<1>4. ASSUME NEW u \in Users, req' = [req EXCEPT ![u] = None] PROVE RequestsTimed'
  BY <1>1, <1>4 DEF TimedInv, RequestsTimed
<1>5. ASSUME NEW s \in Segments, Save(s) PROVE ConfirmationHasTime' /\ RequestsTimed'
  <2>1. PICK r \in Row : Write(s, r) /\ Timed(r)
    BY <1>1, <1>5, SaveStep
  <2> QED
    BY <1>2, <1>3, <1>5, <2>1 DEF Save, Write
<1>6. ASSUME NEW s \in Segments, NEW op, Protect(s, op)
      PROVE  ConfirmationHasTime' /\ RequestsTimed'
  <2>1. PICK r \in Row : Write(s, r) /\ Timed(r)
    BY <1>1, <1>6, ProtectStep
  <2> QED
    BY <1>2, <1>3, <1>6, <2>1 DEF Protect, Write
<1>7. ASSUME NEW u \in Users, CommitUnlocked(u) PROVE ConfirmationHasTime' /\ RequestsTimed'
  <2> DEFINE q == req[u]
  <2>1. /\ q # None /\ q \in Request /\ q.op \in {"confirm", "unconfirm", "enable"}
        /\ req' = [req EXCEPT ![u] = None]
    <3>1. q # None /\ q \in Request /\ q.op # "blur" /\ req' = [req EXCEPT ![u] = None]
      BY <1>1, <1>7, CommitStep
    <3> QED
      BY <3>1, SegmentSyncAssumption DEF Request
  <2>2. PICK c, f \in Row :
          /\ Write(q.seg, f)
          /\ f.status = IF c.status # q.snap.status THEN c.status ELSE seg[q.seg].status
          /\ f.confirmedAt = IF c.confirmedAt # q.snap.confirmedAt THEN c.confirmedAt
                             ELSE seg[q.seg].confirmedAt
          /\ q.op = "confirm" => c.status = "confirmed" /\ c.confirmedAt # None
          /\ q.op = "unconfirm" => c.status # "confirmed" /\ c.confirmedAt = None
          /\ q.op = "enable" => c.status = q.snap.status /\ c.confirmedAt = q.snap.confirmedAt
    BY <1>1, <1>7, CommitStep
  <2>3. q.seg \in Segments /\ Timed(seg[q.seg])
    BY <1>1, <2>1 DEF Request
  <2>4. /\ Timed(q.snap)
        /\ q.op = "confirm" => q.snap.status # "confirmed"
        /\ q.op = "unconfirm" => q.snap.status = "confirmed"
    BY <2>1 DEF TimedInv, RequestsTimed
  <2>5. Timed(f)
    BY <2>1, <2>2, <2>3, <2>4 DEF Timed
  <2> QED
    BY <1>2, <1>4, <2>1, <2>2, <2>3, <2>5 DEF Write
<1>8. CASE WorkerCommit
  <2>1. ConfirmationHasTime'
    BY <1>1, <1>8, WorkerRows DEF ConfirmationHasTime, Timed
  <2> QED
    BY <1>3, <1>8, <2>1 DEF WorkerCommit
<1>9. ASSUME NEW u \in Users, NEW op, NEW s \in Segments, NEW text, NEW source, NEW confirm,
             Begin(u, op, s, text, source, confirm),
             op = "confirm" => seg[s].status # "confirmed",
             op = "unconfirm" => seg[s].status = "confirmed"
      PROVE  RequestsTimed'
  BY <1>1, <1>9 DEF Begin, TimedInv, RequestsTimed
<1>10. CASE UNCHANGED <<seg, shown>>
  <2>1. ConfirmationHasTime'
    BY <1>10 DEF TimedInv, ConfirmationHasTime
  <2>2. ASSUME NEW u \in Users, NEW s \in Segments, BeginBatch(u, s) PROVE RequestsTimed'
    BY <1>9, <2>2 DEF BeginBatch
  <2>3. ASSUME NEW u \in Users, NEW s \in Segments,
               NEW op \in {"confirm", "unconfirm", "disable", "enable"}, BeginUnlocked(u, op, s)
        PROVE  RequestsTimed'
    <3>1. Begin(u, op, s, None, "manual", FALSE)
      BY <2>3 DEF BeginUnlocked
    <3>2. op = "confirm" => seg[s].status # "confirmed"
      BY <2>3 DEF BeginUnlocked
    <3>3. op = "unconfirm" => seg[s].status = "confirmed"
      BY <2>3 DEF BeginUnlocked
    <3> QED
      BY <1>9, <3>1, <3>2, <3>3
  <2>4. ASSUME NEW u \in Users, NEW s \in Segments, BeginBlur(u, s) PROVE RequestsTimed'
    BY <1>9, <2>4 DEF BeginBlur
  <2>5. ASSUME NEW u \in Users, CommitBlur(u) PROVE RequestsTimed'
    BY <1>4, <2>5 DEF CommitBlur
  <2>6. CASE WorkerClaim \/ WorkerLock \/ WorkerFails \/ UNCHANGED vars
    <3>1. req' = req
      BY <2>6 DEF WorkerClaim, WorkerLock, WorkerFails, vars
    <3> QED
      BY <1>3, <2>1, <3>1
  <2>7. CASE WorkerCommit \/ \E s \in Segments : Save(s) \/ \E op : Protect(s, op)
    BY <1>5, <1>6, <1>8, <2>7
  <2>8. RequestsTimed'
    BY <1>7, <2>2, <2>3, <2>4, <2>5, <2>6, <2>7 DEF Next
  <2> QED
    BY <2>1, <2>8
<1> QED
  BY <1>5, <1>6, <1>7, <1>8, <1>10, RowsStand

\* Where nobody is switched off and no batch is saved, a confirmed row has the
\* time that ranks it, and a row that is not confirmed has none.
THEOREM ConfirmationHasTimeHolds ==
  ASSUME {"batch", "disable"} \cap Operations = {}
  PROVE  Spec => []ConfirmationHasTime
<1>1. Init => TimedInv
  <2> SUFFICES ASSUME Init PROVE TimedInv
    OBVIOUS
  <2>1. ConfirmationHasTime
    BY InitialRows DEF ConfirmationHasTime, Timed
  <2> QED
    BY <2>1, TypeInit DEF TimedInv, RequestsTimed, Init
<1>2. TimedInv /\ [Next]_vars => TimedInv'
  BY TypeNext, TimedNext DEF TimedInv
<1>3. TimedInv => ConfirmationHasTime
  BY DEF TimedInv
<1> QED
  BY <1>1, <1>2, <1>3, PTL DEF Spec

-----------------------------------------------------------------------------
(* The convergence.  Its source has beaten every row it has locked, and      *)
(* nothing else writes a locked row.                                         *)

WinnerStands ==
  work # None /\ work.phase = "locked" /\ work.job.kind = "confirmed" =>
    LET able == {s \in work.rows : seg[s].text # None} IN
    /\ work.from = None => Cardinality(work.rows) < 2 \/ able = {}
    /\ work.from # None => IsBest(seg, able, work.from) /\ work.text = seg[work.from].text

\* The rank of two rows depends on those rows.
LEMMA RankOfRows ==
  ASSUME NEW rows, NEW others, NEW a, NEW b, rows[a] = others[a], rows[b] = others[b]
  PROVE  Beats(rows, a, b) <=> Beats(others, a, b)
  BY DEF Beats

LEMMA WinnerKept ==
  ASSUME WinnerStands, work' = work,
         work # None /\ work.phase = "locked" => \A s \in work.rows : seg'[s] = seg[s]
  PROVE  WinnerStands'
<1> SUFFICES ASSUME work # None, work.phase = "locked", work.job.kind = "confirmed"
             PROVE  WinnerStands'
  BY DEF WinnerStands
<1> DEFINE able == {s \in work.rows : seg[s].text # None}
<1>1. {s \in work.rows : seg'[s].text # None} = able
  OBVIOUS
<1>2. /\ work.from = None => Cardinality(work.rows) < 2 \/ able = {}
      /\ work.from # None => IsBest(seg, able, work.from) /\ work.text = seg[work.from].text
  BY DEF WinnerStands
<1>3. ASSUME work.from # None
      PROVE  IsBest(seg', able, work.from) /\ work.text = seg'[work.from].text
  <2>1. work.from \in work.rows
    BY <1>2, <1>3 DEF IsBest
  <2>2. \A t \in able : Beats(seg', work.from, t) <=> Beats(seg, work.from, t)
    BY <2>1, RankOfRows
  <2> QED
    BY <1>2, <1>3, <2>1, <2>2 DEF IsBest
<1> QED
  BY <1>1, <1>2, <1>3 DEF WinnerStands

LEMMA WinnerNext == TypeInv /\ WinnerStands /\ [Next]_vars => WinnerStands'
<1> SUFFICES ASSUME TypeInv, WinnerStands, [Next]_vars PROVE WinnerStands'
  OBVIOUS
<1>1. TypeOK /\ seg \in [Segments -> Row] /\ work \in Work \cup {None}
  BY DEF TypeInv, TypeOK
<1>2. work # None => work.rows \subseteq Segments
  BY <1>1 DEF Work
<1>3. ASSUME NEW s \in Segments, NEW r, RowFree(s), Write(s, r), work' = work PROVE WinnerStands'
  <2>1. seg' = [seg EXCEPT ![s] = r]
    BY <1>3 DEF Write
  <2>2. work # None /\ work.phase = "locked" => \A t \in work.rows : seg'[t] = seg[t]
    BY <1>1, <1>2, <1>3, <2>1 DEF RowFree
  <2> QED
    BY <1>3, <2>2, WinnerKept
<1>4. ASSUME NEW s \in Segments, Save(s) PROVE WinnerStands'
  BY <1>3, <1>4 DEF Save
<1>5. ASSUME NEW s \in Segments, NEW op, Protect(s, op) PROVE WinnerStands'
  BY <1>3, <1>5 DEF Protect
<1>6. ASSUME NEW u \in Users, CommitUnlocked(u) PROVE WinnerStands'
  <2>1. req[u].seg \in Segments /\ \E f \in Row : Write(req[u].seg, f)
    BY <1>1, <1>6, CommitStep DEF Request
  <2> QED
    BY <1>3, <1>6, <2>1 DEF CommitUnlocked
<1>7. CASE WorkerLock
  <2> DEFINE able == {s \in work'.rows : seg[s].text # None}
  <2>1. /\ work'.job = work.job /\ work'.rows \subseteq Segments /\ seg' = seg
        /\ work'.from = IF work.job.kind = "blur" THEN BlurSource(work.job, able)
                        ELSE BestSource(work'.rows, able)
        /\ work'.from # None => work'.text = seg[work'.from].text
    BY <1>1, <1>7, LockedType DEF WorkerLock
  <2>2. LET b == BestSource(work'.rows, able) IN
        /\ b = None => Cardinality(work'.rows) < 2 \/ able = {}
        /\ b # None => IsBest(seg, able, b)
    BY <1>1, <2>1, BestSourceType
  <2> QED
    BY <2>1, <2>2 DEF WinnerStands
<1>8. CASE WorkerClaim
  BY <1>8 DEF WorkerClaim, WinnerStands
<1>9. CASE WorkerCommit \/ WorkerFails
  BY <1>9 DEF WorkerCommit, WorkerFails, WinnerStands
<1>10. CASE UNCHANGED <<seg, work>>
  BY <1>10, WinnerKept
<1>11. ASSUME NEW u \in Users, NEW s \in Segments,
              BeginBatch(u, s) \/ BeginBlur(u, s) \/ \E op : BeginUnlocked(u, op, s)
       PROVE  UNCHANGED <<seg, work>>
  BY <1>11 DEF BeginBatch, BeginBlur, BeginUnlocked, Begin
<1>12. ASSUME NEW u \in Users, CommitBlur(u) PROVE UNCHANGED <<seg, work>>
  BY <1>12 DEF CommitBlur
<1>13. CASE UNCHANGED vars
  BY <1>10, <1>13 DEF vars
<1> QED
  BY <1>4, <1>5, <1>6, <1>7, <1>8, <1>9, <1>10, <1>11, <1>12, <1>13 DEF Next

\* The commit of a convergence for a confirmation leaves one text.
LEMMA CommitAgrees ==
  ASSUME TypeInv, WinnerStands, WorkerCommit, job # None, job' = None,
         work.job.kind = "confirmed", Cardinality(work.rows) >= 2,
         {s \in work.rows : seg'[s].text # None} # {}
  PROVE  LET able == {s \in work.rows : seg'[s].text # None} IN
         \A s \in work.rows : Receivable(seg'[s]) => seg'[s].text = seg'[Best(seg', able)].text
<1> DEFINE old == {s \in work.rows : seg[s].text # None}
           new == {s \in work.rows : seg'[s].text # None}
           src == work.from
<1>1. /\ TypeOK /\ work \in Work /\ work # None /\ work.phase = "locked"
      /\ seg \in [Segments -> Row] /\ work.rows \in SUBSET Segments
  BY DEF TypeInv, TypeOK, WorkerCommit, Work
<1>2. PICK now \in Stamps :
        /\ seg' \in [Segments -> Row]
        /\ \A s \in Segments :
             seg'[s] = IF work.from # None /\ s \in work.rows \ {work.from}
                       THEN Received(seg[s], work, now) ELSE seg[s]
  BY <1>1, WorkerStep
<1>3. src # None /\ src \in old /\ IsBest(seg, old, src) /\ work.text = seg[src].text
  <2>1. ~(Cardinality(work.rows) < 2)
    <3>1. Cardinality(work.rows) \in Nat
      BY <1>1, Constants, FS_Subset, FS_CardinalityType
    <3> QED
      BY <3>1
  <2>2. src = None => new = old
    BY <1>1, <1>2
  <2>3. src # None
    BY <1>1, <2>1, <2>2 DEF WinnerStands
  <2> QED
    BY <1>1, <2>3 DEF WinnerStands, IsBest
<1>4. seg'[src] = seg[src] /\ src \in Segments /\ src \in new
  BY <1>1, <1>2, <1>3
<1>5. ASSUME NEW s \in work.rows
      PROVE  /\ Receivable(seg[s]) \/ s = src => seg'[s].text = work.text
             /\ ~Receivable(seg[s]) => seg'[s] = seg[s]
  <2>1. CASE s = src
    BY <1>3, <1>4, <2>1
  <2>2. CASE s # src
    <3>1. seg'[s] = Received(seg[s], work, now) /\ seg[s] \in Row /\ seg'[s] \in Row
      BY <1>1, <1>2, <1>3, <2>2
    <3>2. Received(seg[s], work, now).version \in 1..MaxVersions
      BY <3>1, RowFields
    <3> QED
      BY <1>1, <1>3, <2>2, <3>1, <3>2, ReceivedType
  <2> QED
    BY <2>1, <2>2
<1> DEFINE b == Best(seg', new)
<1>6. IsBest(seg', new, b)
  BY <1>1, <1>2, BestIsBest
<1>7. b \in work.rows /\ seg'[b].text # None
  BY <1>6 DEF IsBest
<1> HIDE DEF b
<1>8. seg'[b].text = work.text
  <2>1. CASE Receivable(seg[b]) \/ b = src
    BY <1>5, <1>7, <2>1
  <2>2. CASE ~Receivable(seg[b]) /\ b # src
    <3>1. seg'[b] = seg[b] /\ b \in old
      BY <1>5, <1>7, <2>2
    <3>2. Beats(seg, src, b)
      BY <1>3, <2>2, <3>1 DEF IsBest
    <3>3. Beats(seg', b, src)
      BY <1>4, <1>6, <2>2 DEF IsBest
    <3>4. Beats(seg, b, src)
      BY <1>4, <3>1, <3>3, RankOfRows
    <3> QED
      BY <1>1, <1>4, <1>7, <2>2, <3>2, <3>4, RankIsOrder
  <2> QED
    BY <2>1, <2>2
<1>9. ASSUME NEW s \in work.rows, Receivable(seg'[s]) PROVE seg'[s].text = work.text
  BY <1>5, <1>9
<1> QED
  BY <1>8, <1>9 DEF b

\* Whatever requests run beside it, a convergence that is committed leaves every
\* segment that it may write with the text of the segment that wins by then.
THEOREM ConvergenceAgreesHolds == Spec => ConvergenceAgrees
<1> DEFINE Agrees ==
      work # None /\ work' = None /\ job # None /\ job' = None
      => LET able == {s \in work.rows : seg'[s].text # None} IN
         work.job.kind = "confirmed" /\ Cardinality(work.rows) >= 2 /\ able # {}
         => \A s \in work.rows : Receivable(seg'[s]) => seg'[s].text = seg'[Best(seg', able)].text
           Inv == TypeInv /\ WinnerStands
<1>1. Init => Inv
  BY TypeInit DEF Init, WinnerStands
<1>2. Inv /\ [Next]_vars => Inv'
  BY TypeNext, WinnerNext
<1>3. Inv /\ [Next]_vars => [Agrees]_vars
  <2> SUFFICES ASSUME Inv, [Next]_vars, work # None, work' = None, job # None, job' = None
               PROVE  WorkerCommit
    BY CommitAgrees
  <2>1. job \in Job
    BY DEF TypeInv, TypeOK
  <2>2. CASE WorkerFails
    <3>1. job' = job \/ job' = [job EXCEPT !.status = "pending"]
      BY <2>2 DEF WorkerFails
    <3> QED
      BY <2>1, <3>1, ClaimedType, Constants
  <2>3. ASSUME ~WorkerFails, ~WorkerCommit PROVE FALSE
    BY <2>3 DEF Next, vars, Save, Protect, BeginBatch, BeginUnlocked, BeginBlur, Begin,
                CommitUnlocked, CommitBlur, WorkerClaim, WorkerLock
  <2> QED
    BY <2>2, <2>3
<1> QED
  BY <1>1, <1>2, <1>3, PTL DEF Spec, ConvergenceAgrees

-----------------------------------------------------------------------------
(* Versions and blurs, where every write locks its row: then a version is    *)
(* left with one text, and a blur that waits asks for a text of the version  *)
(* it names.                                                                 *)

LockedOnly == Operations \subseteq {"save", "protect", "release", "blur"}

\* The texts of a row by version: one for each it has had, none for those to come.
OneText(r, texts) ==
  /\ texts[r.version] = {r.text}
  /\ \A v \in 1..MaxVersions : /\ v > r.version => texts[v] = {}
                               /\ \A x, y \in texts[v] : x = y

Histories == \A s \in Segments : OneText(seg[s], shown[s])

BlursKnown ==
  /\ \A u \in Users : req[u] # None /\ req[u].op = "blur"
       => req[u].text \in shown[req[u].seg][req[u].snap.version]
  /\ job # None /\ job.kind = "blur" => job.text \in shown[job.seg][job.version]
  /\ work # None /\ work.job.kind = "blur"
       => work.job.text \in shown[work.job.seg][work.job.version]

LockedInv == TypeInv /\ Histories /\ BlursKnown /\ BlurSpreadsWhatWasSeen

\* A row that stays, or gets the next version, has one text under each.
LEMMA OneTextStep ==
  ASSUME NEW r \in Row, NEW n \in Row, NEW texts \in [1..MaxVersions -> SUBSET Text],
         OneText(r, texts), n = r \/ n.version = r.version + 1
  PROVE  OneText(n, [texts EXCEPT ![n.version] = @ \cup {n.text}])
<1>1. r.version \in 1..MaxVersions /\ n.version \in 1..MaxVersions
  BY RowFields
<1> DEFINE new == [texts EXCEPT ![n.version] = @ \cup {n.text}]
<1>2. CASE n = r
  <2>1. new = texts
    BY <1>1, <1>2 DEF OneText
  <2> QED
    BY <1>2, <2>1
<1>3. CASE n.version = r.version + 1
  <2>1. texts[n.version] = {}
    BY <1>1, <1>3, Constants DEF OneText
  <2>2. new[n.version] = {n.text} /\ \A v \in 1..MaxVersions : v # n.version => new[v] = texts[v]
    BY <1>1, <2>1
  <2> HIDE DEF new
  <2>3. \A v \in 1..MaxVersions : v > n.version => v > r.version /\ v # n.version
    BY <1>1, <1>3, Constants
  <2> QED
    BY <2>2, <2>3 DEF OneText, new
<1> QED
  BY <1>2, <1>3

\* Every step adds to the history of a segment the text of its row, which has
\* stayed or has the next version.
LEMMA HistoryStep ==
  ASSUME LockedOnly, TypeInv, [Next]_vars, NEW s \in Segments
  PROVE  \/ seg'[s] = seg[s] /\ shown'[s] = shown[s]
         \/ /\ seg'[s] = seg[s] \/ seg'[s].version = seg[s].version + 1
            /\ shown'[s] = [shown[s] EXCEPT ![seg'[s].version] = @ \cup {seg'[s].text}]
<1>1. /\ TypeOK /\ seg \in [Segments -> Row]
      /\ shown \in [Segments -> [1..MaxVersions -> SUBSET Text]]
  BY DEF TypeInv, TypeOK
<1> DEFINE Grown ==
      /\ seg'[s] = seg[s] \/ seg'[s].version = seg[s].version + 1
      /\ shown'[s] = [shown[s] EXCEPT ![seg'[s].version] = @ \cup {seg'[s].text}]
           Same == seg'[s] = seg[s] /\ shown'[s] = shown[s]
<1>2. ASSUME NEW t \in Segments, NEW r \in Row, Write(t, r),
             r = seg[t] \/ r.version = seg[t].version + 1
      PROVE  Same \/ Grown
  <2>1. /\ seg' = [seg EXCEPT ![t] = r]
        /\ shown' = [shown EXCEPT ![t][r.version] = @ \cup {r.text}]
    BY <1>2 DEF Write
  <2>2. CASE t = s
    BY <1>1, <1>2, <2>1, <2>2
  <2>3. CASE t # s
    BY <1>1, <2>1, <2>3
  <2> QED
    BY <2>2, <2>3
<1>3. ASSUME NEW t \in Segments, Save(t) PROVE Same \/ Grown
  BY <1>1, <1>2, <1>3, SaveStep
<1>4. ASSUME NEW t \in Segments, NEW op, Protect(t, op) PROVE Same \/ Grown
  BY <1>1, <1>2, <1>4, ProtectStep
<1>5. ASSUME NEW u \in Users PROVE ~CommitUnlocked(u)
  BY <1>1, CommitStep DEF LockedOnly, Request
<1>6. CASE WorkerCommit
  <2>1. seg'[s] = seg[s] \/ seg'[s].version = seg[s].version + 1
    BY <1>1, <1>6, WorkerRows
  <2> QED
    BY <1>1, <1>6, <2>1, WorkerStep
<1>7. CASE UNCHANGED <<seg, shown>>
  BY <1>7
<1> QED
  BY <1>3, <1>4, <1>5, <1>6, <1>7, RowsStand

\* Only a blur begins a request for one.
LEMMA BlurBegins ==
  ASSUME TypeInv, [Next]_vars, NEW u \in Users, req'[u] # req[u], req'[u] # None,
         req'[u].op = "blur"
  PROVE  \E s \in Segments : BeginBlur(u, s)
<1>1. req \in [Users -> Request \cup {None}]
  BY DEF TypeInv, TypeOK
<1>2. ASSUME NEW w \in Users, NEW op, NEW s \in Segments, NEW text, NEW source, NEW confirm,
             Begin(w, op, s, text, source, confirm)
      PROVE  w = u /\ op = "blur"
  BY <1>1, <1>2 DEF Begin
<1>3. ASSUME NEW w \in Users, NEW s \in Segments, BeginBatch(w, s) PROVE FALSE
  BY <1>2, <1>3 DEF BeginBatch
<1>4. ASSUME NEW w \in Users, NEW s \in Segments,
             NEW op \in {"confirm", "unconfirm", "disable", "enable"}, BeginUnlocked(w, op, s)
      PROVE  FALSE
  BY <1>2, <1>4 DEF BeginUnlocked
<1>5. ASSUME NEW w \in Users, NEW s \in Segments, BeginBlur(w, s) PROVE w = u
  BY <1>2, <1>5 DEF BeginBlur
<1>6. ASSUME NEW w \in Users, CommitUnlocked(w) \/ CommitBlur(w) PROVE FALSE
  BY <1>1, <1>6 DEF CommitUnlocked, CommitBlur
<1>7. ~(req' = req)
  OBVIOUS
<1>8. ASSUME NEW s \in Segments, Save(s) \/ \E op : Protect(s, op) PROVE FALSE
  BY <1>7, <1>8 DEF Save, Protect
<1>9. ~(WorkerClaim \/ WorkerLock \/ WorkerCommit \/ WorkerFails \/ UNCHANGED vars)
  BY <1>7 DEF WorkerClaim, WorkerLock, WorkerCommit, WorkerFails, vars
<1> QED
  BY <1>3, <1>4, <1>5, <1>6, <1>8, <1>9 DEF Next

\* What the outbox row asks for stays, unless it is asked again.
LEMMA JobStep ==
  ASSUME TypeInv, [Next]_vars, \A u \in Users : ~CommitBlur(u), job' # None, job'.kind = "blur"
  PROVE  /\ job \in Job /\ job.kind = "blur" /\ job'.text = job.text
         /\ job'.seg = job.seg /\ job'.version = job.version
<1>1. TypeOK /\ job \in Job \cup {None}
  BY DEF TypeInv, TypeOK
<1>2. job' = job => job \in Job
  BY <1>1
<1>3. ASSUME NEW r, EnqueueConfirmed(r) PROVE job' = job
  BY <1>3, EnqueuedType
<1>4. ASSUME NEW s \in Segments, Save(s) PROVE job' = job
  BY <1>1, <1>3, <1>4, SaveStep
<1>5. ASSUME NEW u \in Users, CommitUnlocked(u) PROVE job' = job
  BY <1>1, <1>3, <1>5, CommitStep
<1>6. CASE WorkerClaim
  BY <1>1, <1>6, ClaimedType DEF WorkerClaim
<1>7. CASE WorkerFails
  BY <1>1, <1>2, <1>7, ClaimedType DEF WorkerFails, ClaimHeld
<1>8. CASE WorkerCommit
  BY <1>1, <1>2, <1>8, WorkerStep
<1>9. ASSUME ~WorkerClaim, ~WorkerFails, ~WorkerCommit,
             \A s \in Segments : ~Save(s), \A u \in Users : ~CommitUnlocked(u)
      PROVE  job' = job
  BY <1>9 DEF Next, vars, Protect, BeginBatch, BeginUnlocked, BeginBlur, Begin, WorkerLock
<1> QED
  BY <1>2, <1>4, <1>5, <1>6, <1>7, <1>8, <1>9

\* A convergence keeps its job from its claim to its end.
LEMMA WorkStep ==
  ASSUME TypeInv, [Next]_vars, ~WorkerClaim, work' # None
  PROVE  work # None /\ work \in Work /\ work'.job = work.job
<1>1. TypeOK /\ work \in Work \cup {None}
  BY DEF TypeInv, TypeOK
<1>2. CASE WorkerLock
  BY <1>1, <1>2, LockedType DEF WorkerLock
<1>3. CASE ~WorkerLock
  <2>1. work' = work
    BY <1>3 DEF Next, vars, Save, Protect, BeginBatch, BeginUnlocked, BeginBlur, Begin,
                CommitUnlocked, CommitBlur, WorkerCommit, WorkerFails
  <2> QED
    BY <1>1, <2>1
<1> QED
  BY <1>2, <1>3

LEMMA LockedNext ==
  ASSUME LockedOnly, LockedInv, [Next]_vars
  PROVE  Histories' /\ BlursKnown' /\ BlurSpreadsWhatWasSeen'
<1>1. /\ TypeInv /\ TypeOK /\ seg \in [Segments -> Row]
      /\ shown \in [Segments -> [1..MaxVersions -> SUBSET Text]]
      /\ req \in [Users -> Request \cup {None}] /\ job \in Job \cup {None}
      /\ work \in Work \cup {None}
  BY DEF LockedInv, TypeInv, TypeOK
<1>2. seg' \in [Segments -> Row]
  BY <1>1, TypeNext DEF TypeInv, TypeOK
<1>3. Histories'
  <2> SUFFICES ASSUME NEW s \in Segments PROVE OneText(seg'[s], shown'[s])
    BY DEF Histories
  <2>1. seg[s] \in Row /\ seg'[s] \in Row /\ shown[s] \in [1..MaxVersions -> SUBSET Text]
        /\ OneText(seg[s], shown[s])
    BY <1>1, <1>2 DEF LockedInv, Histories
  <2> QED
    <3> DEFINE next == [shown[s] EXCEPT ![seg'[s].version] = @ \cup {seg'[s].text}]
    <3>1. seg'[s] = seg[s] \/ seg'[s].version = seg[s].version + 1 => OneText(seg'[s], next)
      BY <2>1, OneTextStep
    <3>2. \/ seg'[s] = seg[s] /\ shown'[s] = shown[s]
          \/ (seg'[s] = seg[s] \/ seg'[s].version = seg[s].version + 1) /\ shown'[s] = next
      BY <1>1, HistoryStep
    <3> HIDE DEF next
    <3> QED
      BY <2>1, <3>1, <3>2
<1>4. \A s \in Segments, v \in 1..MaxVersions : shown[s][v] \subseteq shown'[s][v]
  <2> SUFFICES ASSUME NEW s \in Segments, NEW v \in 1..MaxVersions
               PROVE  shown[s][v] \subseteq shown'[s][v]
    OBVIOUS
  <2>1. shown[s] \in [1..MaxVersions -> SUBSET Text]
    BY <1>1
  <2>2. \/ shown'[s] = shown[s]
        \/ shown'[s] = [shown[s] EXCEPT ![seg'[s].version] = @ \cup {seg'[s].text}]
    BY <1>1, HistoryStep
  <2> QED
    BY <2>1, <2>2
<1>5. BlursKnown'
  <2>1. ASSUME NEW u \in Users, req'[u] # None, req'[u].op = "blur"
        PROVE  req'[u].text \in shown'[req'[u].seg][req'[u].snap.version]
    <3>1. CASE req'[u] = req[u]
      <4>1. /\ req[u] \in Request /\ req[u].seg \in Segments
            /\ req[u].snap.version \in 1..MaxVersions
        BY <1>1, <2>1, <3>1, RowFields DEF Request
      <4> QED
        BY <1>4, <2>1, <3>1, <4>1 DEF LockedInv, BlursKnown
    <3>2. CASE req'[u] # req[u]
      <4>1. PICK s \in Segments : BeginBlur(u, s)
        BY <1>1, <2>1, <3>2, BlurBegins
      <4>2. PICK seen \in shown[s][seg[s].version] : Begin(u, "blur", s, seen, "manual", FALSE)
        BY <4>1 DEF BeginBlur
      <4>3. /\ req'[u].seg = s /\ req'[u].snap = seg[s] /\ req'[u].text = seen
            /\ shown' = shown
        BY <1>1, <4>2 DEF Begin
      <4> QED
        BY <4>2, <4>3
    <3> QED
      BY <3>1, <3>2
  <2>2. ASSUME job' # None, job'.kind = "blur" PROVE job'.text \in shown'[job'.seg][job'.version]
    <3>1. CASE \E u \in Users : CommitBlur(u)
      <4>1. PICK u \in Users : CommitBlur(u)
        BY <3>1
      <4>2. /\ req[u].text \in shown[req[u].seg][req[u].snap.version] /\ shown' = shown
            /\ job' = Enqueued("blur", req[u].seg, req[u].snap.version, req[u].text)
        BY <4>1 DEF CommitBlur, LockedInv, BlursKnown
      <4> QED
        BY <4>2 DEF Enqueued
    <3>2. CASE ~ \E u \in Users : CommitBlur(u)
      <4>1. /\ job \in Job /\ job.kind = "blur" /\ job'.text = job.text
            /\ job'.seg = job.seg /\ job'.version = job.version
        BY <1>1, <2>2, <3>2, JobStep
      <4>2. job # None /\ job.seg \in Segments /\ job.version \in 1..MaxVersions
        BY <4>1, Constants DEF Job
      <4> QED
        BY <1>4, <4>1, <4>2 DEF LockedInv, BlursKnown
    <3> QED
      BY <3>1, <3>2
  <2>3. ASSUME work' # None, work'.job.kind = "blur"
        PROVE  work'.job.text \in shown'[work'.job.seg][work'.job.version]
    <3>1. CASE WorkerClaim
      <4>1. /\ job \in Job /\ job # None /\ shown' = shown
            /\ work'.job = [job EXCEPT !.status = "processing"]
        BY <1>1, <3>1 DEF WorkerClaim
      <4>2. /\ work'.job.kind = job.kind /\ work'.job.seg = job.seg
            /\ work'.job.version = job.version /\ work'.job.text = job.text
        BY <4>1, ClaimedType
      <4> QED
        BY <2>3, <4>1, <4>2 DEF LockedInv, BlursKnown
    <3>2. CASE ~WorkerClaim
      <4>1. work # None /\ work \in Work /\ work'.job = work.job
        BY <1>1, <2>3, <3>2, WorkStep
      <4>2. work.job.seg \in Segments /\ work.job.version \in 1..MaxVersions
        BY <2>3, <4>1 DEF Work, Job
      <4> QED
        BY <1>4, <2>3, <4>1, <4>2 DEF LockedInv, BlursKnown
    <3> QED
      BY <3>1, <3>2
  <2> QED
    BY <2>1, <2>2, <2>3 DEF BlursKnown
<1>6. BlurSpreadsWhatWasSeen'
  <2>1. CASE WorkerLock
    <3> DEFINE c == work.job
               able == {s \in work'.rows : seg[s].text # None}
    <3>1. /\ work # None /\ work'.job = c /\ work'.rows \subseteq Segments
          /\ c.kind = "blur" => work'.from = BlurSource(c, able)
          /\ work'.from # None => work'.text = seg[work'.from].text
      BY <1>1, <2>1, LockedType DEF WorkerLock
    <3>2. ASSUME c.kind = "blur", work'.from # None PROVE work'.text = c.text
      <4>1. c.seg \in Segments /\ work'.from = c.seg /\ seg[c.seg].version = c.version
        BY <3>1, <3>2 DEF BlurSource
      <4>2. c.text \in shown[c.seg][seg[c.seg].version]
        BY <3>1, <3>2, <4>1 DEF LockedInv, BlursKnown
      <4>3. shown[c.seg][seg[c.seg].version] = {seg[c.seg].text}
        BY <4>1 DEF LockedInv, Histories, OneText
      <4> QED
        BY <3>1, <3>2, <4>1, <4>2, <4>3
    <3> QED
      BY <3>1, <3>2 DEF BlurSpreadsWhatWasSeen
  <2>2. CASE WorkerClaim
    BY <2>2 DEF WorkerClaim, BlurSpreadsWhatWasSeen
  <2>3. CASE ~WorkerLock /\ ~WorkerClaim
    <3>1. work' = None \/ work' = work
      BY <2>3 DEF Next, vars, Save, Protect, BeginBatch, BeginUnlocked, BeginBlur, Begin,
                  CommitUnlocked, CommitBlur, WorkerCommit, WorkerFails
    <3> QED
      BY <3>1 DEF LockedInv, BlurSpreadsWhatWasSeen
  <2> QED
    BY <2>1, <2>2, <2>3
<1> QED
  BY <1>3, <1>5, <1>6

LEMMA LockedInit == Init => LockedInv
<1> SUFFICES ASSUME Init PROVE LockedInv
  OBVIOUS
<1>1. TypeInv
  BY TypeInit
<1>2. \A s \in Segments : /\ seg[s].version = 1 /\ shown[s][1] = {seg[s].text}
                          /\ \A v \in 1..MaxVersions : v # 1 => shown[s][v] = {}
  BY InitialRows
<1>3. \A v \in 1..MaxVersions : v > 1 => v # 1
  BY Constants
<1>4. Histories
  <2> SUFFICES ASSUME NEW s \in Segments PROVE OneText(seg[s], shown[s])
    BY DEF Histories
  <2>1. \A v \in 1..MaxVersions : \A x, y \in shown[s][v] : x = y
    <3> SUFFICES ASSUME NEW v \in 1..MaxVersions PROVE \A x, y \in shown[s][v] : x = y
      OBVIOUS
    <3>1. shown[s][v] = {} \/ shown[s][v] = {seg[s].text}
      BY <1>2
    <3> QED
      BY <3>1
  <2> QED
    BY <1>2, <1>3, <2>1 DEF OneText
<1> QED
  BY <1>1, <1>4 DEF Init, LockedInv, BlursKnown, BlurSpreadsWhatWasSeen

\* Where every write locks its row, a version number stands for one text of its
\* segment.
THEOREM VersionNamesOneTextHolds ==
  ASSUME LockedOnly
  PROVE  Spec => []VersionNamesOneText
<1>1. LockedInv /\ [Next]_vars => LockedInv'
  BY TypeNext, LockedNext DEF LockedInv
<1>2. LockedInv => VersionNamesOneText
  <2> SUFFICES ASSUME LockedInv, NEW s \in Segments, NEW v \in 1..MaxVersions
               PROVE  Cardinality(shown[s][v]) <= 1
    BY DEF VersionNamesOneText
  <2>1. \A x, y \in shown[s][v] : x = y
    BY DEF LockedInv, Histories, OneText
  <2>2. shown[s][v] = {} \/ \E x : shown[s][v] = {x}
    BY <2>1
  <2>3. Cardinality(shown[s][v]) = 0 \/ Cardinality(shown[s][v]) = 1
    BY <2>2, FS_EmptySet, FS_Singleton
  <2> QED
    BY <2>3
<1> QED
  BY <1>1, <1>2, LockedInit, PTL DEF Spec

\* Where every write locks its row, a blur spreads the text its client saw.
THEOREM BlurSpreadsWhatWasSeenHolds ==
  ASSUME LockedOnly
  PROVE  Spec => []BlurSpreadsWhatWasSeen
<1>1. LockedInv /\ [Next]_vars => LockedInv'
  BY TypeNext, LockedNext DEF LockedInv
<1>2. LockedInv => BlurSpreadsWhatWasSeen
  BY DEF LockedInv
<1> QED
  BY <1>1, <1>2, LockedInit, PTL DEF Spec
=============================================================================
