------------------------- MODULE FileOperationLock --------------------------
(***************************************************************************)
(* The operation lock of one file (file_operation_lock_service.py and the  *)
(* operation-lock endpoints of app/routers/api.py): a token in the row of  *)
(* the file, given to whoever starts a long operation, renewed by its      *)
(* heartbeats and writes, and open to everybody once it is stale.          *)
(*                                                                         *)
(* Every request reads the row when it looks the file up and decides on    *)
(* that copy.  acquire_file_operation_lock does select the row again, FOR  *)
(* UPDATE, but the session keeps the object it has loaded already, so its  *)
(* decision too is about the first read: a request is a read and a commit. *)
(***************************************************************************)
EXTENDS Integers

CONSTANTS
  Clients,    \* browsers, and the pretranslation tasks of the server
  None,       \* no request, no writer
  Overlap,    \* whether requests may be in flight together
  MaxTokens   \* bound: tokens issued

ASSUME FileOperationLockAssumption ==
  /\ None \notin [kind: {"acquire", "write", "release"}, snap: [token: Nat, stale: BOOLEAN]]
  /\ None \notin Clients
  /\ Overlap \in BOOLEAN
  /\ MaxTokens \in Nat

VARIABLES
  lock,      \* the lock columns of the file: token 0 is no lock
  issued,    \* tokens issued so far: uuid4 never repeats one
  mine,      \* the token each client works with, 0 for none
  req,       \* the request each client has in flight
  expired,   \* history: tokens that went stale
  writer     \* history: whose write the last step let through, or None

vars == <<lock, issued, mine, req, expired, writer>>

-----------------------------------------------------------------------------
Kind    == {"acquire", "write", "release"}
Lock    == [token: Nat, stale: BOOLEAN]
Request == [kind: Kind, snap: Lock]
Free    == [token |-> 0, stale |-> FALSE]

\* A token in use was issued.
TypeOK ==
  /\ lock \in Lock /\ lock.token <= issued
  /\ issued \in Nat
  /\ mine \in [Clients -> 0..issued]
  /\ req \in [Clients -> Request \cup {None}]
  /\ expired \subseteq 1..issued
  /\ writer \in Clients \cup {None}

Init ==
  /\ lock = Free
  /\ issued = 0
  /\ mine = [c \in Clients |-> 0]
  /\ req = [c \in Clients |-> None]
  /\ expired = {}
  /\ writer = None

\* get_file_record_model: the request's copy of the row.  A client acquires
\* when it has no token and releases when it has one; it writes (or sends a
\* heartbeat) with or without.
Read(c, kind) ==
  /\ req[c] = None
  /\ Overlap \/ \A d \in Clients : req[d] = None
  /\ kind = "acquire" => mine[c] = 0
  /\ kind = "release" => mine[c] # 0
  /\ req' = [req EXCEPT ![c] = [kind |-> kind, snap |-> lock]]
  /\ writer' = None
  /\ UNCHANGED <<lock, issued, mine, expired>>

Answer(c, kind) ==
  /\ req[c] # None /\ req[c].kind = kind
  /\ req' = [req EXCEPT ![c] = None]

\* A lock that is neither stale nor absent, as the request has read it.
Active(snap) == snap.token # 0 /\ ~snap.stale

\* Mutant: the check for an active operation is dropped.
AcquireUnchecked(c) ==
  /\ Answer(c, "acquire")
  /\ issued < MaxTokens
  /\ issued' = issued + 1
  /\ lock' = [token |-> issued + 1, stale |-> FALSE]
  /\ mine' = [mine EXCEPT ![c] = issued + 1]
  /\ writer' = None
  /\ UNCHANGED expired

\* Mutant: the token is not a new one.
AcquireOldToken(c) ==
  /\ Answer(c, "acquire")
  /\ IF Active(req[c].snap)
     THEN UNCHANGED <<lock, issued, mine>>
     ELSE /\ issued < MaxTokens
          /\ issued' = issued
          /\ lock' = [token |-> issued + 1, stale |-> FALSE]
          /\ mine' = [mine EXCEPT ![c] = issued + 1]
  /\ writer' = None
  /\ UNCHANGED expired

\* acquire_file_operation_lock: 409 while an operation is active; a stale one
\* is cleared, and the columns are written.
Acquire(c) ==
  /\ Answer(c, "acquire")
  /\ IF Active(req[c].snap)
     THEN UNCHANGED <<lock, issued, mine>>
     ELSE /\ issued < MaxTokens
          /\ issued' = issued + 1
          /\ lock' = [token |-> issued + 1, stale |-> FALSE]
          /\ mine' = [mine EXCEPT ![c] = issued + 1]
  /\ writer' = None
  /\ UNCHANGED expired

\* Mutant: any token opens the lock.
AdmittedWithAnyToken(c) == Active(req[c].snap) => mine[c] # 0

\* ensure_file_record_write_allowed lets the request through.
Admitted(c) == Active(req[c].snap) => mine[c] = req[c].snap.token

\* A write or a heartbeat: a stale lock is cleared, the sender's own is
\* renewed (updated_at, whatever lock the row carries by then); what is not
\* admitted is answered 409 and changes nothing.
Write(c) ==
  /\ Answer(c, "write")
  /\ LET snap == req[c].snap IN
       lock' = IF snap.token # 0 /\ snap.stale THEN Free
               ELSE IF Active(snap) /\ Admitted(c) THEN [token |-> lock.token, stale |-> FALSE]
               ELSE lock
  /\ writer' = IF Admitted(c) THEN c ELSE None
  /\ UNCHANGED <<issued, mine, expired>>

\* release_file_operation_lock: a stale lock is cleared whoever it belongs to;
\* another's is refused.  The client is through with its token either way.
Release(c) ==
  /\ Answer(c, "release")
  /\ LET snap == req[c].snap IN
       lock' = IF snap.token # 0 /\ (snap.stale \/ snap.token = mine[c]) THEN Free ELSE lock
  /\ mine' = [mine EXCEPT ![c] = 0]
  /\ writer' = None
  /\ UNCHANGED <<issued, expired>>

\* The client vanishes between two requests, and forgets its token.
Vanish(c) ==
  /\ mine[c] # 0 /\ req[c] = None
  /\ mine' = [mine EXCEPT ![c] = 0]
  /\ writer' = None
  /\ UNCHANGED <<lock, issued, req, expired>>

\* Ten minutes without a renewal.
Expire ==
  /\ Active(lock)
  /\ lock' = [token |-> lock.token, stale |-> TRUE]
  /\ expired' = expired \cup {lock.token}
  /\ writer' = None
  /\ UNCHANGED <<issued, mine, req>>

Next ==
  \/ \E c \in Clients : \/ \E kind \in Kind : Read(c, kind)
                        \/ Acquire(c) \/ Write(c) \/ Release(c) \/ Vanish(c)
  \/ Expire

Spec == Init /\ [][Next]_vars

-----------------------------------------------------------------------------
(* Properties. *)

\* The client was given a token that never went stale since.
Holds(c) == mine[c] # 0 /\ mine[c] \notin expired

\* Nobody takes a lock away that its holder keeps renewing: as long as it has
\* not gone stale, the row carries its token.  So no two clients hold one.
LiveLockStands ==
  \A c \in Clients : Holds(c) => lock.token = mine[c] /\ ~lock.stale

\* While a client holds the lock, no write of another client is let through.
NoForeignWrite == \A c \in Clients : writer # None /\ Holds(c) => writer = c
-----------------------------------------------------------------------------
(* Why they hold when requests do not overlap. *)

\* What a request decides on is still so, but that its lock may have expired.
CopiesAreCurrent ==
  \A c \in Clients : req[c] # None =>
    /\ \A d \in Clients \ {c} : req[d] = None
    /\ lock.token = req[c].snap.token
    /\ req[c].snap.stale => lock.stale

TokensAreOwned ==
  \A c, d \in Clients : mine[c] = mine[d] /\ mine[c] # 0 => c = d

LockInv == TypeOK /\ TokensAreOwned /\ LiveLockStands /\ NoForeignWrite /\ CopiesAreCurrent
=============================================================================
