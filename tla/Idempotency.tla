------------------------------ MODULE Idempotency ------------------------------
(***************************************************************************)
(* Commands that carry an Idempotency-Key (web/commands.py and             *)
(* infrastructure/idempotency.py) and the sweep that purges their records. *)
(* A client that lost a reply sends its command again under the same key:  *)
(* another request, at any time, beside the first or long after it.        *)
(*                                                                         *)
(* One request is one transaction at READ COMMITTED, and one action is one *)
(* of its statements.  A row of idempotency_records is named by the        *)
(* request that inserts it, and so is the result of the command that       *)
(* request runs.  All requests are of one actor, who may have several      *)
(* sessions, and all commands of a scope are of one kind:                  *)
(*   - those that lock the row of their case when they are authorized and  *)
(*     count up the version their If-Match names (Guarded);                *)
(*   - those that lock the case and need no version, as a message of       *)
(*     support (Locking, not Guarded);                                     *)
(*   - those that lock nothing, as marking a notification read.            *)
(* All are about one case and one version, where they disturb one another  *)
(* most.                                                                   *)
(***************************************************************************)
EXTENDS Integers

CONSTANTS
    Requests,
    Sessions,
    Scopes,      \* actor, method, path and key
    Locking,     \* the scopes whose commands lock the case
    Guarded,     \* the scopes whose commands need If-Match
    Bodies,
    None,        \* a NULL column, a free lock
    Purge,       \* the transaction of the sweep
    MaxVersion   \* bound on the versions a client names

ASSUME RequestAssumption ==
    None \notin Requests /\ Purge \notin Requests /\ None # Purge
ASSUME ScopeAssumption == Guarded \subseteq Locking /\ Locking \subseteq Scopes
ASSUME VersionAssumption == MaxVersion \in Nat

VARIABLES
    request,      \* request[n]: one request with its transaction
    row,          \* row[n]: the state of the row request n inserted
    holder,       \* holder[n]: who holds the row lock of that row
    sessionLock,  \* sessionLock[s]: who holds the row lock of a session
    caseLock,     \* who holds the row lock of the case
    version       \* the version of what the commands write, as committed

vars == <<request, row, holder, sessionLock, caseLock, version>>

\* The fingerprint: what the request says, and its If-Match header.
Fingerprint == [body: Bodies, ifMatch: 0..MaxVersion]
NoFingerprint == [body |-> None, ifMatch |-> 0]

Running == {"touch", "authorize", "insert", "select", "lock", "run", "commit"}
Ended == {"done", "failed"}

Request == [pc: {"new"} \cup Running \cup Ended,
            session: Sessions \cup {None}, scope: Scopes \cup {None},
            fingerprint: Fingerprint \cup {NoFingerprint},
            result: Requests \cup {None}]  \* whose result it returns

NewRequest == [pc |-> "new", session |-> None, scope |-> None,
               fingerprint |-> NoFingerprint, result |-> None]

\* A committed record is kept until 24 hours have passed and the sweep finds it.
Committed == {"kept", "expired"}
Live == {"inserted"} \cup Committed
RowStates == {"absent", "purged"} \cup Live

Init ==
    /\ request = [n \in Requests |-> NewRequest]
    /\ row = [n \in Requests |-> "absent"]
    /\ holder = [n \in Requests |-> None]
    /\ sessionLock = [s \in Sessions |-> None]
    /\ caseLock = None
    /\ version = 1

-----------------------------------------------------------------------------

\* The rows the unique index of the scope knows, and those of them a statement
\* sees: what is inserted and not committed is in the index only.
LiveRows(k) == {m \in Requests : row[m] \in Live /\ request[m].scope = k}
SeenRows(k) == {m \in LiveRows(k) : row[m] \in Committed}

Own(n) == request[n].result = n

\* Mutant: the lock of the case outlives the transaction.
Release_CaseKept(n) ==
    /\ holder' = [m \in Requests |-> IF holder[m] = n THEN None ELSE holder[m]]
    /\ sessionLock' = [s \in Sessions |->
           IF sessionLock[s] = n THEN None ELSE sessionLock[s]]
    /\ UNCHANGED caseLock

\* The locks are free that the transaction of n holds when it ends.
Release(n) ==
    /\ holder' = [m \in Requests |-> IF holder[m] = n THEN None ELSE holder[m]]
    /\ sessionLock' = [s \in Sessions |->
           IF sessionLock[s] = n THEN None ELSE sessionLock[s]]
    /\ caseLock' = IF caseLock = n THEN None ELSE caseLock

Rollback(n) ==
    /\ request' = [request EXCEPT ![n].pc = "failed"]
    /\ row' = [row EXCEPT ![n] = "absent"]
    /\ Release(n)
    /\ UNCHANGED version

Advance(n, pc) == request' = [request EXCEPT ![n].pc = pc]

-----------------------------------------------------------------------------
(* A request.                                                               *)

Receive(n, s, k, fingerprint) ==
    /\ request[n].pc = "new"
    /\ fingerprint.ifMatch # 0 <=> k \in Guarded
    /\ request' = [request EXCEPT ![n] =
           [pc |-> "touch", session |-> s, scope |-> k,
            fingerprint |-> fingerprint, result |-> None]]
    /\ UNCHANGED <<row, holder, sessionLock, caseLock, version>>

\* session_record takes the lock of the session before anything else, so that
\* the requests of one session follow one another.
TouchSession(n) ==
    /\ request[n].pc = "touch"
    /\ sessionLock[request[n].session] = None
    /\ sessionLock' = [sessionLock EXCEPT ![request[n].session] = n]
    /\ Advance(n, "authorize")
    /\ UNCHANGED <<row, holder, caseLock, version>>

\* Mutant: authorizing takes no lock.
Authorize_NoLock(n) ==
    /\ request[n].pc = "authorize"
    /\ Advance(n, "insert")
    /\ UNCHANGED <<row, holder, sessionLock, caseLock, version>>

\* authorize(), which comes first even for a replay.
Authorize(n) ==
    /\ request[n].pc = "authorize"
    /\ IF request[n].scope \in Locking
       THEN caseLock = None /\ caseLock' = n
       ELSE UNCHANGED caseLock
    /\ Advance(n, "insert")
    /\ UNCHANGED <<row, holder, sessionLock, version>>

\* Mutant: no unique constraint, every request inserts a row of its own.
Insert_NotUnique(n) ==
    /\ request[n].pc = "insert"
    /\ row' = [row EXCEPT ![n] = "inserted"]
    /\ holder' = [holder EXCEPT ![n] = n]
    /\ request' = [request EXCEPT ![n].pc = "run", ![n].result = n]
    /\ UNCHANGED <<sessionLock, caseLock, version>>

\* INSERT ... ON CONFLICT DO NOTHING: it waits for a transaction that inserts or
\* deletes a row of the scope, and does nothing when a committed one is there.
Insert(n) ==
    /\ request[n].pc = "insert"
    /\ \/ /\ LiveRows(request[n].scope) = {}
          /\ row' = [row EXCEPT ![n] = "inserted"]
          /\ holder' = [holder EXCEPT ![n] = n]
          /\ request' = [request EXCEPT ![n].pc = "run", ![n].result = n]
       \/ /\ \E m \in SeenRows(request[n].scope) : holder[m] # Purge
          /\ Advance(n, "select")
          /\ UNCHANGED <<row, holder>>
    /\ UNCHANGED <<sessionLock, caseLock, version>>

\* SELECT ... FOR UPDATE of a row the insert did not make takes its snapshot
\* here; when the row is gone, it is the RuntimeError of execute_once.
Select(n) ==
    /\ request[n].pc = "select"
    /\ \/ SeenRows(request[n].scope) = {} /\ Rollback(n)
       \/ /\ \E m \in SeenRows(request[n].scope) :
                request' = [request EXCEPT ![n].pc = "lock", ![n].result = m]
          /\ UNCHANGED <<row, holder, sessionLock, caseLock, version>>

\* Mutant: whatever the record says, it is replayed.
SameFingerprint_Any(n, m) == TRUE

\* IDEMPOTENCY_CONFLICT, when it is not so.
SameFingerprint(n, m) == request[n].fingerprint = request[m].fingerprint

\* The same statement gets the lock of the row: the result it finds there is
\* replayed, refused, or gone.
LockRow(n) ==
    LET m == request[n].result IN
        /\ request[n].pc = "lock"
        /\ holder[m] = None
        /\ \/ /\ row[m] \in Committed /\ SameFingerprint(n, m)
              /\ holder' = [holder EXCEPT ![m] = n]
              /\ Advance(n, "commit")
              /\ UNCHANGED <<row, sessionLock, caseLock, version>>
           \/ /\ ~(row[m] \in Committed /\ SameFingerprint(n, m))
              /\ Rollback(n)

\* command(): require_version, and the writes of the handler.
Run(n) ==
    /\ request[n].pc = "run"
    /\ \/ /\ request[n].fingerprint.ifMatch \in {0, version}
          /\ Advance(n, "commit")
          /\ UNCHANGED <<row, holder, sessionLock, caseLock, version>>
       \/ /\ request[n].fingerprint.ifMatch \notin {0, version}
          /\ Rollback(n)

\* Mutant: the record is not part of the transaction of the command.
Commit_NoRecord(n) ==
    /\ request[n].pc = "commit"
    /\ Advance(n, "done")
    /\ row' = [row EXCEPT ![n] = "absent"]
    /\ version' = IF Own(n) /\ request[n].scope \in Guarded THEN version + 1 ELSE version
    /\ Release(n)

\* The writes of the command and its record are committed together; a replay
\* commits nothing.
Commit(n) ==
    /\ request[n].pc = "commit"
    /\ Advance(n, "done")
    /\ row' = IF Own(n) THEN [row EXCEPT ![n] = "kept"] ELSE row
    /\ version' = IF Own(n) /\ request[n].scope \in Guarded THEN version + 1 ELSE version
    /\ Release(n)

\* A timeout of a lock or a statement, an error of the handler, a crash.
Fail(n) == request[n].pc \in Running /\ Rollback(n)

-----------------------------------------------------------------------------
(* The sweep, purge_expired.                                                *)

\* 24 hours pass.
Expire(m) ==
    /\ row[m] = "kept"
    /\ row' = [row EXCEPT ![m] = "expired"]
    /\ UNCHANGED <<request, holder, sessionLock, caseLock, version>>

\* DELETE comes to the row, when nobody has it locked.
PurgeRow(m) ==
    /\ row[m] = "expired"
    /\ holder[m] = None
    /\ holder' = [holder EXCEPT ![m] = Purge]
    /\ UNCHANGED <<request, row, sessionLock, caseLock, version>>

\* The transaction of the sweep commits, or it fails.
EndPurge(committed) ==
    /\ \E m \in Requests : holder[m] = Purge
    /\ row' = [m \in Requests |->
           IF committed /\ holder[m] = Purge THEN "purged" ELSE row[m]]
    /\ holder' = [m \in Requests |-> IF holder[m] = Purge THEN None ELSE holder[m]]
    /\ UNCHANGED <<request, sessionLock, caseLock, version>>

-----------------------------------------------------------------------------

Steps(n) ==
    \/ TouchSession(n) \/ Authorize(n) \/ Insert(n) \/ Select(n) \/ LockRow(n)
    \/ Run(n) \/ Commit(n)

Sweep ==
    \/ \E m \in Requests : Expire(m) \/ PurgeRow(m)
    \/ \E committed \in BOOLEAN : EndPurge(committed)

Next ==
    \/ \E n \in Requests :
          \/ \E s \in Sessions, k \in Scopes, fingerprint \in Fingerprint :
                Receive(n, s, k, fingerprint)
          \/ Steps(n)
          \/ Fail(n)
    \/ Sweep

Spec == Init /\ [][Next]_vars

\* A transaction goes on when no lock stops it, and gets a lock that others give
\* back again and again: PostgreSQL serves those that wait for a row in order.
\* The sweep ends.
FairSpec ==
    /\ Spec
    /\ \A n \in Requests : SF_vars(Steps(n))
    /\ WF_vars(\E committed \in BOOLEAN : EndPurge(committed))

-----------------------------------------------------------------------------
(* Properties.                                                              *)

\* Requests, rows and locks are well formed, and a scope has one row
\* (uq_idempotency_scope).
TypeOK ==
    /\ request \in [Requests -> Request]
    /\ row \in [Requests -> RowStates]
    /\ holder \in [Requests -> Requests \cup {None, Purge}]
    /\ sessionLock \in [Sessions -> Requests \cup {None}]
    /\ caseLock \in Requests \cup {None}
    /\ version \in Nat \ {0}
    /\ \A k \in Scopes : \A m, n \in LiveRows(k) : m = n

\* The command of n was run and committed.
Applied(n) == request[n].pc = "done" /\ Own(n)

\* A command is applied once under a key, however often and however close
\* together it is sent, until the record of it is purged (execute_once).
AppliedOnce ==
    \A m, n \in Requests :
        (m # n /\ Applied(m) /\ Applied(n) /\ request[m].scope = request[n].scope)
            => "purged" \in {row[m], row[n]}

\* What is replayed is the result of the same command under the same key, and it
\* was committed: never one that was rolled back, never another command's
\* (execute_once, the fingerprint and response_status of the record).
ReplayIsFaithful ==
    \A n \in Requests : request[n].pc = "done" =>
        LET m == request[n].result IN
            /\ m \in Requests
            /\ Applied(m)
            /\ request[m].scope = request[n].scope
            /\ request[m].fingerprint = request[n].fingerprint

\* Of two commands with the same If-Match at most one is applied, under one key
\* or two, within the life of the records or after it (require_version runs
\* under the lock of the case that authorize takes).
NoLostUpdate ==
    \A m, n \in Requests :
        (/\ m # n /\ Applied(m) /\ Applied(n)
         /\ {request[m].scope, request[n].scope} \subseteq Guarded)
            => request[m].fingerprint.ifMatch # request[n].fingerprint.ifMatch

\* Requests and the sweep never wait for one another in a circle: the locks of
\* session, case and record are always taken in this order, and every request
\* ends without the help of a timeout.
EveryRequestEnds ==
    \A n \in Requests : request[n].pc \in Running ~> request[n].pc \in Ended

\* docs/proposals/architecture-v0.1/architecture.md:181 on records that have
\* expired: business constraints still prevent that something is created twice.
CreatedOnce ==
    \A m, n \in Requests :
        (m # n /\ Applied(m) /\ Applied(n) /\ request[m].scope = request[n].scope)
            => request[m].fingerprint # request[n].fingerprint

=============================================================================
