---------------------- MODULE FileOperationLock_proofs ----------------------
(***************************************************************************)
(* What holds of the operation lock for any number of clients and tokens.  *)
(***************************************************************************)
EXTENDS FileOperationLock, TLAPS

\* The initial row, requests and tokens have their types.
LEMMA TypeInit == Init => TypeOK
  BY FileOperationLockAssumption DEF Init, TypeOK, Lock, Free

\* No request and no expiry takes a variable out of its type.
LEMMA TypeStep == TypeOK /\ [Next]_vars => TypeOK'
<1> SUFFICES ASSUME TypeOK, [Next]_vars PROVE TypeOK'
  OBVIOUS
<1> USE DEF TypeOK
<1>1. ASSUME NEW c \in Clients, NEW kind \in Kind, Read(c, kind) PROVE TypeOK'
  BY <1>1 DEF Read, Request, Lock
<1>2. ASSUME NEW c \in Clients, Acquire(c) PROVE TypeOK'
  <2> USE <1>2 DEF Acquire, Answer
  <2>1. req' \in [Clients -> Request \cup {None}] /\ writer' \in Clients \cup {None}
    OBVIOUS
  <2>2. CASE Active(req[c].snap)
    BY <2>1, <2>2
  <2>3. CASE ~Active(req[c].snap)
    <3>1. issued' = issued + 1 /\ lock' = [token |-> issued + 1, stale |-> FALSE]
      BY <2>3
    <3>2. mine' = [mine EXCEPT ![c] = issued + 1] /\ expired' = expired
      BY <2>3
    <3>3. mine' \in [Clients -> 0..issued']
      BY <3>1, <3>2
    <3>4. expired' \subseteq 1..issued'
      BY <3>1, <3>2
    <3>5. lock' \in Lock /\ lock'.token <= issued' /\ issued' \in Nat
      BY <3>1 DEF Lock
    <3> QED BY <2>1, <3>3, <3>4, <3>5
  <2> QED BY <2>2, <2>3
<1>3. ASSUME NEW c \in Clients, Write(c) PROVE TypeOK'
  <2>1. lock' \in Lock /\ lock'.token <= issued'
    BY <1>3 DEF Write, Lock, Free
  <2> QED BY <1>3, <2>1 DEF Write, Answer
<1>4. ASSUME NEW c \in Clients, Release(c) PROVE TypeOK'
  BY <1>4 DEF Release, Answer, Lock, Free
<1>5. ASSUME NEW c \in Clients, Vanish(c) PROVE TypeOK'
  BY <1>5 DEF Vanish
<1>6. ASSUME Expire PROVE TypeOK'
  <2>1. lock.token \in 1..issued
    BY <1>6 DEF Expire, Active, Lock
  <2>2. expired' \subseteq 1..issued'
    BY <1>6, <2>1 DEF Expire
  <2> QED BY <1>6, <2>2 DEF Expire, Lock
<1>7. CASE UNCHANGED vars
  BY <1>7 DEF vars
<1> QED
  BY <1>1, <1>2, <1>3, <1>4, <1>5, <1>6, <1>7 DEF Next

\* Type correctness, with overlapping requests or without: in particular every
\* token in a row or with a client was issued.
THEOREM LockTypeCorrect == Spec => []TypeOK
  BY TypeInit, TypeStep, PTL DEF Spec

-----------------------------------------------------------------------------
(* Requests one at a time: the invariant LockInv is inductive. *)

\* Before the first request nobody holds anything.
LEMMA LockInit == Init => LockInv
  BY TypeInit DEF Init, LockInv, TokensAreOwned, LiveLockStands, NoForeignWrite,
                  CopiesAreCurrent, Holds

\* A request that is alone decides on the row as it is, so an acquire finds no
\* live lock, a release meets its own, and a write is let through by its own.
LEMMA LockStep ==
  ASSUME ~Overlap, LockInv, [Next]_vars
  PROVE  LockInv'
<1> USE DEF LockInv
<1>0. TypeOK'
  BY TypeStep
<1> DEFINE Rest == TokensAreOwned /\ LiveLockStands /\ NoForeignWrite /\ CopiesAreCurrent
<1>1. ASSUME NEW c \in Clients, NEW kind \in Kind, Read(c, kind) PROVE Rest'
  <2> USE <1>1 DEF Read
  <2>1. TokensAreOwned' /\ LiveLockStands' /\ NoForeignWrite'
    BY DEF TokensAreOwned, LiveLockStands, NoForeignWrite, Holds
  <2>2. CopiesAreCurrent'
    BY DEF CopiesAreCurrent, TypeOK
  <2> QED BY <2>1, <2>2
<1>2. ASSUME NEW c \in Clients, Acquire(c) PROVE Rest'
  <2> USE <1>2 DEF Acquire, Answer
  <2>1. CopiesAreCurrent'
    BY DEF CopiesAreCurrent, TypeOK
  <2>2. NoForeignWrite'
    BY DEF NoForeignWrite
  <2>3. CASE Active(req[c].snap)
    BY <2>1, <2>2, <2>3 DEF TokensAreOwned, LiveLockStands, Holds
  <2>4. CASE ~Active(req[c].snap)
    <3>1. /\ lock' = [token |-> issued + 1, stale |-> FALSE]
          /\ mine' = [mine EXCEPT ![c] = issued + 1]
          /\ expired' = expired
      BY <2>4
    <3>2. lock.token = 0 \/ lock.stale
      BY <2>4 DEF Active, CopiesAreCurrent, TypeOK, Request, Lock
    <3>3. \A d \in Clients : ~Holds(d)
      BY <3>2 DEF LiveLockStands, Holds, TypeOK
    <3>4. \A d \in Clients : mine[d] # issued + 1 /\ mine[d] \in Nat
      BY DEF TypeOK
    <3>5. TokensAreOwned'
      BY <3>1, <3>4 DEF TokensAreOwned, TypeOK
    <3>6. LiveLockStands'
      BY <3>1, <3>3 DEF LiveLockStands, Holds, TypeOK
    <3> QED BY <2>1, <2>2, <3>5, <3>6
  <2> QED BY <2>3, <2>4
<1>3. ASSUME NEW c \in Clients, Write(c) PROVE Rest'
  <2> USE <1>3 DEF Write, Answer
  <2>1. TokensAreOwned' /\ CopiesAreCurrent'
    BY DEF TokensAreOwned, CopiesAreCurrent, TypeOK
  <2>2. /\ lock.token = req[c].snap.token
        /\ req[c].snap.stale => lock.stale
    BY DEF CopiesAreCurrent
  <2>3. LiveLockStands'
    BY <2>2 DEF LiveLockStands, Holds, TypeOK, Lock, Free
  <2>4. NoForeignWrite'
    BY <2>2 DEF NoForeignWrite, LiveLockStands, TokensAreOwned, Holds, Admitted, Active, TypeOK
  <2> QED BY <2>1, <2>3, <2>4
<1>4. ASSUME NEW c \in Clients, Release(c) PROVE Rest'
  <2> USE <1>4 DEF Release, Answer
  <2>1. TokensAreOwned' /\ CopiesAreCurrent' /\ NoForeignWrite'
    BY DEF TokensAreOwned, CopiesAreCurrent, NoForeignWrite, TypeOK
  <2>2. /\ lock.token = req[c].snap.token
        /\ req[c].snap.stale => lock.stale
    BY DEF CopiesAreCurrent
  <2>3. LiveLockStands'
    BY <2>2 DEF LiveLockStands, TokensAreOwned, Holds, TypeOK, Lock, Free
  <2> QED BY <2>1, <2>3
<1>5. ASSUME NEW c \in Clients, Vanish(c) PROVE Rest'
  BY <1>5 DEF Vanish, TokensAreOwned, LiveLockStands, NoForeignWrite, CopiesAreCurrent,
              Holds, TypeOK
<1>6. ASSUME Expire PROVE Rest'
  <2> USE <1>6 DEF Expire
  <2>1. TokensAreOwned' /\ NoForeignWrite'
    BY DEF TokensAreOwned, NoForeignWrite
  <2>2. LiveLockStands'
    BY DEF LiveLockStands, Holds, TypeOK
  <2>3. CopiesAreCurrent'
    BY DEF CopiesAreCurrent, TypeOK, Lock
  <2> QED BY <2>1, <2>2, <2>3
<1>7. CASE UNCHANGED vars
  BY <1>7 DEF vars, TypeOK, TokensAreOwned, LiveLockStands, NoForeignWrite, CopiesAreCurrent, Holds
<1> QED
  BY <1>0, <1>1, <1>2, <1>3, <1>4, <1>5, <1>6, <1>7 DEF Next

\* When no two requests on the file overlap, a lock stands until its holder
\* releases it or lets it go stale, so that no two clients hold one.
THEOREM LockStands ==
  ASSUME ~Overlap
  PROVE  Spec => []LiveLockStands
<1>1. LockInv => LiveLockStands
  BY DEF LockInv
<1>2. LockInv /\ [Next]_vars => LockInv'
  BY LockStep
<1> QED
  BY <1>1, <1>2, LockInit, PTL DEF Spec

\* Nor is a write let through while another client holds the lock.
THEOREM LockExcludesWrites ==
  ASSUME ~Overlap
  PROVE  Spec => []NoForeignWrite
<1>1. LockInv => NoForeignWrite
  BY DEF LockInv
<1>2. LockInv /\ [Next]_vars => LockInv'
  BY LockStep
<1> QED
  BY <1>1, <1>2, LockInit, PTL DEF Spec
=============================================================================
