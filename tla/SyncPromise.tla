----------------------------- MODULE SyncPromise -----------------------------
(***************************************************************************)
(* What the project-sync outbox promises, without rows, generations,       *)
(* leases or workers: a confirmed save makes its key due; a due key is met *)
(* by one indivisible convergence that sees every save committed so far,   *)
(* or it is dropped; a met key may be forgotten.                           *)
(***************************************************************************)
EXTENDS Naturals

CONSTANT Keys

VARIABLES
  want,   \* confirmed saves, per key
  got,    \* saves seen by the last convergence
  due     \* none | due | met | dropped

vars == <<want, got, due>>

Init ==
  /\ want = [k \in Keys |-> 0]
  /\ got = [k \in Keys |-> 0]
  /\ due = [k \in Keys |-> "none"]

Request(K) ==
  /\ want' = [k \in Keys |-> want[k] + IF k \in K THEN 1 ELSE 0]
  /\ due' = [k \in Keys |-> IF k \in K THEN "due" ELSE due[k]]
  /\ UNCHANGED got

Meet(k) ==
  /\ due[k] = "due"
  /\ got' = [got EXCEPT ![k] = want[k]]
  /\ due' = [due EXCEPT ![k] = "met"]
  /\ UNCHANGED want

Drop(k) ==
  /\ due[k] = "due"
  /\ due' = [due EXCEPT ![k] = "dropped"]
  /\ UNCHANGED <<want, got>>

Forget(K) ==
  /\ \A k \in K : due[k] = "met"
  /\ due' = [k \in Keys |-> IF k \in K THEN "none" ELSE due[k]]
  /\ UNCHANGED <<want, got>>

Next ==
  \/ \E K \in SUBSET Keys : Request(K) \/ Forget(K)
  \/ \E k \in Keys : Meet(k) \/ Drop(k)

Spec == Init /\ [][Next]_vars
=============================================================================
