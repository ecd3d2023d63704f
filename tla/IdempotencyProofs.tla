-------------------------- MODULE IdempotencyProofs --------------------------
(***************************************************************************)
(* Proofs about Idempotency, for any number of requests, sessions, scopes  *)
(* and versions: a command is applied once under its key, a replay is the  *)
(* result of the same command, and no update is lost.                      *)
(***************************************************************************)
EXTENDS Idempotency, TLAPS

-----------------------------------------------------------------------------
(* The inductive invariant.                                                 *)

\* Where a request is tells the state of the row it inserted in its scope.
RowInv ==
    \A n \in Requests :
        /\ row[n] = "inserted" <=> request[n].pc \in {"run", "commit"} /\ Own(n)
        /\ row[n] \in Committed \cup {"purged"} <=> Applied(n)
        /\ request[n].pc \in {"run", "commit", "done"} => request[n].result # None
        /\ request[n].pc = "run" => Own(n)
        /\ request[n].pc # "new" => request[n].scope \in Scopes

\* The sweep holds no row but those that have expired.
SweepInv == \A m \in Requests : holder[m] = Purge => row[m] = "expired"

\* The result a request found is one that was committed in its scope, and the
\* one it returns has its fingerprint.
ResultInv ==
    \A n \in Requests :
        LET m == request[n].result IN
            (request[n].pc \in {"lock", "commit", "done"} /\ m # n) =>
                /\ m \in Requests
                /\ Applied(m)
                /\ request[m].scope = request[n].scope
                /\ request[n].pc # "lock" =>
                       request[m].fingerprint = request[n].fingerprint

\* A command that needs the case is alone from its authorization to its end.
LockInv ==
    \A n \in Requests :
        (/\ request[n].pc \in {"insert", "select", "lock", "run", "commit"}
         /\ request[n].scope \in Locking)
            => caseLock = n

\* What was applied named a lower version than the present one, and what is
\* about to be committed names the present one.
VersionInv ==
    \A n \in Requests :
        /\ request[n].pc # "new" =>
               (request[n].fingerprint.ifMatch # 0 <=> request[n].scope \in Guarded)
        /\ (request[n].scope \in Guarded /\ Applied(n)) =>
               request[n].fingerprint.ifMatch < version
        /\ (request[n].scope \in Guarded /\ request[n].pc = "commit" /\ Own(n)) =>
               request[n].fingerprint.ifMatch = version

\* uq_idempotency_scope.
Unique == \A k \in Scopes : \A m, n \in LiveRows(k) : m = n

IInv ==
    /\ TypeOK
    /\ RowInv
    /\ SweepInv
    /\ ResultInv
    /\ LockInv
    /\ VersionInv
    /\ NoLostUpdate

-----------------------------------------------------------------------------
(* Types.                                                                   *)

USE RequestAssumption, ScopeAssumption, VersionAssumption

\* The well-formedness of what the tables hold, without their unique constraint.
Types ==
    /\ request \in [Requests -> Request]
    /\ row \in [Requests -> RowStates]
    /\ holder \in [Requests -> Requests \cup {None, Purge}]
    /\ sessionLock \in [Sessions -> Requests \cup {None}]
    /\ caseLock \in Requests \cup {None}
    /\ version \in Nat \ {0}

\* A statement that moves a request on, and may note a result, keeps the type.
LEMMA RequestTypes ==
    ASSUME Types, NEW n \in Requests,
           NEW pc \in {"new"} \cup Running \cup Ended
    PROVE  /\ [request EXCEPT ![n].pc = pc] \in [Requests -> Request]
           /\ \A result \in Requests \cup {None} :
                 [request EXCEPT ![n].pc = pc, ![n].result = result]
                     \in [Requests -> Request]
<1>1. request[n] \in Request
  BY DEF Types
<1>2. [request[n] EXCEPT !.pc = pc] \in Request
  BY <1>1 DEF Request
<1>3. ASSUME NEW result \in Requests \cup {None}
      PROVE  [request[n] EXCEPT !.pc = pc, !.result = result] \in Request
  BY <1>1 DEF Request
<1>4. QED
  BY <1>2, <1>3 DEF Types

\* The end of a transaction keeps the type of the locks.
LEMMA ReleaseTypes ==
    ASSUME Types, NEW n \in Requests, Release(n)
    PROVE  /\ holder' \in [Requests -> Requests \cup {None, Purge}]
           /\ sessionLock' \in [Sessions -> Requests \cup {None}]
           /\ caseLock' \in Requests \cup {None}
BY DEF Types, Release

\* So does a transaction that is undone.
LEMMA RollbackTypes ==
    ASSUME Types, NEW n \in Requests, Rollback(n)
    PROVE  Types'
<1>1. request' \in [Requests -> Request]
  BY RequestTypes DEF Rollback, Ended
<1>2. row' \in [Requests -> RowStates]
  BY DEF Rollback, Types, RowStates
<1>3. QED
  BY <1>1, <1>2, ReleaseTypes DEF Rollback, Types

\* Every step keeps the type.
LEMMA TypesNext ==
    ASSUME Types, [Next]_vars
    PROVE  Types'
<1>1. ASSUME NEW n \in Requests, NEW s \in Sessions, NEW k \in Scopes,
             NEW fingerprint \in Fingerprint, Receive(n, s, k, fingerprint)
      PROVE  Types'
  BY <1>1 DEF Types, Receive, Request, Running
<1>2. ASSUME NEW n \in Requests, TouchSession(n)
      PROVE  Types'
  <2>1. request' \in [Requests -> Request]
    BY <1>2, RequestTypes DEF TouchSession, Advance, Running
  <2>2. QED
    BY <1>2, <2>1 DEF Types, TouchSession
<1>3. ASSUME NEW n \in Requests, Authorize(n)
      PROVE  Types'
  <2>1. request' \in [Requests -> Request]
    BY <1>3, RequestTypes DEF Authorize, Advance, Running
  <2>2. QED
    BY <1>3, <2>1 DEF Types, Authorize
<1>4. ASSUME NEW n \in Requests, Insert(n)
      PROVE  Types'
  <2>1. /\ [request EXCEPT ![n].pc = "run", ![n].result = n] \in [Requests -> Request]
        /\ [request EXCEPT ![n].pc = "select"] \in [Requests -> Request]
    BY RequestTypes DEF Running
  <2>2. request' \in [Requests -> Request]
    BY <1>4, <2>1 DEF Insert, Advance
  <2>3. QED
    BY <1>4, <2>2 DEF Types, Insert, RowStates, Live
<1>5. ASSUME NEW n \in Requests, Select(n)
      PROVE  Types'
  <2>1. CASE Rollback(n)
    BY <2>1, RollbackTypes
  <2>2. CASE ~Rollback(n)
    <3>1. PICK m \in Requests :
             request' = [request EXCEPT ![n].pc = "lock", ![n].result = m]
      BY <1>5, <2>2 DEF Select, SeenRows, LiveRows
    <3>2. request' \in [Requests -> Request]
      BY <3>1, RequestTypes DEF Running
    <3>3. QED
      BY <1>5, <2>2, <3>2 DEF Types, Select
  <2>3. QED
    BY <2>1, <2>2
<1>6. ASSUME NEW n \in Requests, LockRow(n)
      PROVE  Types'
  <2>1. CASE Rollback(n)
    BY <2>1, RollbackTypes
  <2>2. CASE ~Rollback(n)
    <3>1. [request EXCEPT ![n].pc = "commit"] \in [Requests -> Request]
      BY RequestTypes DEF Running
    <3>2. request' \in [Requests -> Request]
      BY <1>6, <2>2, <3>1 DEF LockRow, Advance
    <3>3. QED
      BY <1>6, <2>2, <3>2 DEF Types, LockRow
  <2>3. QED
    BY <2>1, <2>2
<1>7. ASSUME NEW n \in Requests, Run(n)
      PROVE  Types'
  <2>1. CASE Rollback(n)
    BY <2>1, RollbackTypes
  <2>2. CASE ~Rollback(n)
    <3>1. [request EXCEPT ![n].pc = "commit"] \in [Requests -> Request]
      BY RequestTypes DEF Running
    <3>2. request' \in [Requests -> Request]
      BY <1>7, <2>2, <3>1 DEF Run, Advance
    <3>3. QED
      BY <1>7, <2>2, <3>2 DEF Types, Run
  <2>3. QED
    BY <2>1, <2>2
<1>8. ASSUME NEW n \in Requests, Commit(n)
      PROVE  Types'
  <2>1. request' \in [Requests -> Request]
    BY <1>8, RequestTypes DEF Commit, Advance, Ended
  <2>2. row' \in [Requests -> RowStates]
    BY <1>8 DEF Types, Commit, RowStates, Live, Committed
  <2>3. QED
    BY <1>8, <2>1, <2>2, ReleaseTypes DEF Types, Commit
<1>9. ASSUME NEW n \in Requests, Fail(n)
      PROVE  Types'
  BY <1>9, RollbackTypes DEF Fail
<1>10. ASSUME NEW m \in Requests, Expire(m)
       PROVE  Types'
  BY <1>10 DEF Types, Expire, RowStates, Live, Committed
<1>11. ASSUME NEW m \in Requests, PurgeRow(m)
       PROVE  Types'
  BY <1>11 DEF Types, PurgeRow
<1>12. ASSUME NEW committed \in BOOLEAN, EndPurge(committed)
       PROVE  Types'
  BY <1>12 DEF Types, EndPurge, RowStates
<1>13. ASSUME UNCHANGED vars
       PROVE  Types'
  BY <1>13 DEF Types, vars
<1>14. QED
  BY <1>1, <1>2, <1>3, <1>4, <1>5, <1>6, <1>7, <1>8, <1>9, <1>10, <1>11, <1>12,
     <1>13
  DEF Next, Steps, Sweep

-----------------------------------------------------------------------------
(* Every step keeps the inductive invariant.                                *)

\* What a step of request n leaves of the requests: the others as they are, and
\* n at pc with its command and the result r.
Moves(n, pc, r) ==
    /\ \A m \in Requests \ {n} : request'[m] = request[m]
    /\ request'[n].pc = pc
    /\ request'[n].result = r
    /\ request'[n].scope = request[n].scope
    /\ request'[n].fingerprint = request[n].fingerprint

\* To advance a request changes nothing else of the requests.
LEMMA AdvanceMoves ==
    ASSUME Types, NEW n \in Requests, NEW pc, Advance(n, pc)
    PROVE  Moves(n, pc, request[n].result)
BY DEF Types, Advance, Moves, Request

\* Nor does noting the result that a request found or has made its own.
LEMMA ResultMoves ==
    ASSUME Types, NEW n \in Requests, NEW pc, NEW r,
           request' = [request EXCEPT ![n].pc = pc, ![n].result = r]
    PROVE  Moves(n, pc, r)
BY DEF Types, Moves, Request

\* A transaction that is undone leaves no trace: its row was in the index only.
LEMMA RollbackStep ==
    ASSUME IInv, Types', NEW n \in Requests, request[n].pc \in Running, Rollback(n)
    PROVE  IInv'
<1>0. Types /\ Types' /\ Unique
  BY DEF IInv, TypeOK, Types, Unique
<1>1. Rollback(n) /\ request[n].pc \in Running
  OBVIOUS
<1>2. Moves(n, "failed", request[n].result)
  BY <1>1, <1>0, AdvanceMoves DEF Rollback, Advance
<1>3. Unique'
  BY <1>0, <1>1, <1>2
  DEF IInv, Unique, LiveRows, RowInv, Live, Committed, Own, Applied, Rollback,
      Moves, Release, Running, Types
<1>4. RowInv'
  BY <1>0, <1>1, <1>2
  DEF IInv, RowInv, Own, Applied, Committed, Rollback, Moves, Release, Running,
      Types
<1>5. SweepInv'
  BY <1>0, <1>1, <1>2
  DEF IInv, SweepInv, RowInv, Own, Applied, Committed, Rollback, Moves, Release,
      Running, Types
<1>6. ResultInv'
  BY <1>0, <1>1, <1>2
  DEF IInv, ResultInv, Applied, Own, RowInv, Rollback, Moves, Release, Running,
      Types
<1>7. LockInv'
  BY <1>0, <1>1, <1>2
  DEF IInv, LockInv, Rollback, Moves, Release, Running, Types
<1>8. VersionInv'
  BY <1>0, <1>1, <1>2
  DEF IInv, VersionInv, RowInv, LockInv, Applied, Own, Rollback, Moves, Release,
      Running, Types
<1>9. NoLostUpdate'
  BY <1>0, <1>1, <1>2
  DEF IInv, NoLostUpdate, VersionInv, Applied, Own, Rollback, Moves, Release,
      Running, Types
<1>10. QED
  BY <1>0, <1>3, <1>4, <1>5, <1>6, <1>7, <1>8, <1>9 DEF IInv, TypeOK, Types, Unique

\* Every step keeps the inductive invariant.
LEMMA IInvNext ==
    ASSUME IInv, [Next]_vars
    PROVE  IInv'
<1>0. Types /\ Types' /\ Unique
  BY TypesNext DEF IInv, TypeOK, Types, Unique
<1>1. ASSUME NEW n \in Requests, NEW s \in Sessions, NEW k \in Scopes,
             NEW fingerprint \in Fingerprint, Receive(n, s, k, fingerprint)
      PROVE  IInv'
  <2>1. Unique' /\ RowInv' /\ SweepInv'
    BY <1>1, <1>0
    DEF IInv, Unique, LiveRows, RowInv, Live, Committed, Own, Applied, SweepInv,
        Receive, Types
  <2>2. ResultInv' /\ LockInv' /\ VersionInv' /\ NoLostUpdate'
    BY <1>1, <1>0
    DEF IInv, ResultInv, Applied, Own, RowInv, LockInv, VersionInv,
        NoLostUpdate, Receive, Types
  <2>3. QED
    BY <1>0, <2>1, <2>2 DEF IInv, TypeOK, Types, Unique
<1>2. ASSUME NEW n \in Requests, TouchSession(n)
      PROVE  IInv'
  <2>1. Moves(n, "authorize", request[n].result)
    BY <1>2, <1>0, AdvanceMoves DEF TouchSession
  <2>2. Unique' /\ RowInv' /\ SweepInv'
    BY <1>2, <1>0, <2>1
    DEF IInv, Unique, LiveRows, RowInv, Live, Committed, Own, Applied, SweepInv,
        TouchSession, Moves, Types
  <2>3. ResultInv' /\ LockInv' /\ VersionInv' /\ NoLostUpdate'
    BY <1>2, <1>0, <2>1
    DEF IInv, ResultInv, Applied, Own, RowInv, LockInv, VersionInv,
        NoLostUpdate, TouchSession, Moves, Types
  <2>4. QED
    BY <1>0, <2>2, <2>3 DEF IInv, TypeOK, Types, Unique
<1>3. ASSUME NEW n \in Requests, Authorize(n)
      PROVE  IInv'
  <2>1. Moves(n, "insert", request[n].result)
    BY <1>3, <1>0, AdvanceMoves DEF Authorize
  <2>2. Unique' /\ RowInv' /\ SweepInv'
    BY <1>3, <1>0, <2>1
    DEF IInv, Unique, LiveRows, RowInv, Live, Committed, Own, Applied, SweepInv,
        Authorize, Moves, Types
  <2>3. ResultInv' /\ LockInv' /\ VersionInv' /\ NoLostUpdate'
    BY <1>3, <1>0, <2>1
    DEF IInv, ResultInv, Applied, Own, RowInv, LockInv, VersionInv,
        NoLostUpdate, Authorize, Moves, Types
  <2>4. QED
    BY <1>0, <2>2, <2>3 DEF IInv, TypeOK, Types, Unique
<1>4. ASSUME NEW n \in Requests, Insert(n)
      PROVE  IInv'
  <2>1. CASE LiveRows(request[n].scope) = {}
    <3>1. Moves(n, "run", n)
      BY <1>4, <2>1, <1>0, ResultMoves DEF Insert, SeenRows
    <3>2. Unique'
      BY <1>4, <2>1, <1>0, <3>1
      DEF IInv, Unique, LiveRows, RowInv, Live, Committed, Own, Applied, Insert,
          Moves, SeenRows, Types
    <3>3. RowInv'
      BY <1>4, <2>1, <1>0, <3>1
      DEF IInv, RowInv, Own, Applied, Committed, Insert, Moves, SeenRows,
          LiveRows, Live, Types
    <3>4. SweepInv'
      BY <1>4, <2>1, <1>0, <3>1
      DEF IInv, SweepInv, RowInv, Own, Applied, Committed, Insert, Moves,
          SeenRows, LiveRows, Live, Types
    <3>5. ResultInv'
      BY <1>4, <2>1, <1>0, <3>1
      DEF IInv, ResultInv, Applied, Own, RowInv, Insert, Moves, SeenRows,
          LiveRows, Live, Committed, Types
    <3>6. LockInv'
      BY <1>4, <2>1, <1>0, <3>1
      DEF IInv, LockInv, Insert, Moves, SeenRows, LiveRows, Live, Committed, Types
    <3>7. VersionInv'
      BY <1>4, <2>1, <1>0, <3>1
      DEF IInv, VersionInv, RowInv, LockInv, Applied, Own, Insert, Moves,
          SeenRows, LiveRows, Live, Committed, Types
    <3>8. NoLostUpdate'
      BY <1>4, <2>1, <1>0, <3>1
      DEF IInv, NoLostUpdate, VersionInv, Applied, Own, Insert, Moves, SeenRows,
          LiveRows, Live, Committed, Types
    <3>9. QED
      BY <1>0, <3>2, <3>3, <3>4, <3>5, <3>6, <3>7, <3>8
      DEF IInv, TypeOK, Types, Unique
  <2>2. CASE LiveRows(request[n].scope) # {}
    <3>1. Moves(n, "select", request[n].result)
      BY <1>4, <2>2, <1>0, AdvanceMoves DEF Insert
    <3>2. Unique'
      BY <1>4, <2>2, <1>0, <3>1
      DEF IInv, Unique, LiveRows, RowInv, Live, Committed, Own, Applied, Insert,
          Moves, Types
    <3>3. RowInv'
      BY <1>4, <2>2, <1>0, <3>1
      DEF IInv, RowInv, Own, Applied, Committed, Insert, Moves, Types
    <3>4. SweepInv'
      BY <1>4, <2>2, <1>0, <3>1
      DEF IInv, SweepInv, RowInv, Own, Applied, Committed, Insert, Moves, Types
    <3>5. ResultInv'
      BY <1>4, <2>2, <1>0, <3>1
      DEF IInv, ResultInv, Applied, Own, RowInv, Insert, Moves, Types
    <3>6. LockInv'
      BY <1>4, <2>2, <1>0, <3>1
      DEF IInv, LockInv, Insert, Moves, Types
    <3>7. VersionInv'
      BY <1>4, <2>2, <1>0, <3>1
      DEF IInv, VersionInv, RowInv, LockInv, Applied, Own, Insert, Moves, Types
    <3>8. NoLostUpdate'
      BY <1>4, <2>2, <1>0, <3>1
      DEF IInv, NoLostUpdate, VersionInv, Applied, Own, Insert, Moves, Types
    <3>9. QED
      BY <1>0, <3>2, <3>3, <3>4, <3>5, <3>6, <3>7, <3>8
      DEF IInv, TypeOK, Types, Unique
  <2>3. QED
    BY <1>4, <2>1, <2>2 DEF Insert
<1>5. ASSUME NEW n \in Requests, Select(n)
      PROVE  IInv'
  <2>1. CASE Rollback(n)
    BY <1>5, <2>1, RollbackStep, <1>0 DEF Select, Running
  <2>2. CASE ~Rollback(n)
    <3>1. PICK m \in SeenRows(request[n].scope) :
             request' = [request EXCEPT ![n].pc = "lock", ![n].result = m]
      BY <1>5, <2>2 DEF Select
    <3>2. /\ request[n].pc = "select"
          /\ UNCHANGED <<row, holder, sessionLock, caseLock, version>>
      BY <1>5, <2>2 DEF Select
    <3>3. /\ m \in Requests
          /\ row[m] \in Committed
          /\ request[m].scope = request[n].scope
      BY DEF SeenRows, LiveRows
    <3>4. Moves(n, "lock", m)
      BY <1>0, <3>1, <3>3, ResultMoves
    <3>5. Applied(m) /\ m # n
      BY <3>2, <3>3 DEF IInv, RowInv, Applied
    <3>6. Unique'
      BY <1>0, <3>2, <3>3, <3>4, <3>5
      DEF IInv, Unique, LiveRows, RowInv, Live, Committed, Own, Applied, Moves,
          Types
    <3>7. RowInv'
      BY <1>0, <3>2, <3>3, <3>4, <3>5
      DEF IInv, RowInv, Own, Applied, Committed, Moves, Types
    <3>8. SweepInv'
      BY <1>0, <3>2, <3>3, <3>4, <3>5
      DEF IInv, SweepInv, RowInv, Own, Applied, Committed, Moves, Types
    <3>9. ResultInv'
      BY <1>0, <3>2, <3>3, <3>4, <3>5
      DEF IInv, ResultInv, Applied, Own, RowInv, Moves, Types
    <3>10. LockInv'
      BY <1>0, <3>2, <3>3, <3>4, <3>5
      DEF IInv, LockInv, Moves, Types
    <3>11. VersionInv'
      BY <1>0, <3>2, <3>3, <3>4, <3>5
      DEF IInv, VersionInv, RowInv, LockInv, Applied, Own, Moves, Types
    <3>12. NoLostUpdate'
      BY <1>0, <3>2, <3>3, <3>4, <3>5
      DEF IInv, NoLostUpdate, VersionInv, Applied, Own, Moves, Types
    <3>13. QED
      BY <1>0, <3>6, <3>7, <3>8, <3>9, <3>10, <3>11, <3>12
      DEF IInv, TypeOK, Types, Unique
  <2>3. QED
    BY <2>1, <2>2
<1>6. ASSUME NEW n \in Requests, LockRow(n)
      PROVE  IInv'
  <2>1. CASE Rollback(n)
    BY <1>0, <1>6, <2>1, RollbackStep DEF LockRow, Running
  <2>2. CASE ~Rollback(n)
    <3>1. /\ request[n].pc = "lock"
          /\ row[request[n].result] \in Committed
          /\ SameFingerprint(n, request[n].result)
          /\ holder' = [holder EXCEPT ![request[n].result] = n]
          /\ Advance(n, "commit")
          /\ UNCHANGED <<row, sessionLock, caseLock, version>>
      BY <1>6, <2>2 DEF LockRow
    <3>2. request[n].result # n
      BY <3>1 DEF IInv, RowInv, Applied
    <3>3. request[n].result \in Requests
      BY <3>1, <3>2 DEF IInv, ResultInv
    <3>4. Moves(n, "commit", request[n].result)
      BY <1>0, <3>1, AdvanceMoves
    <3>5. Unique'
      BY <1>0, <3>1, <3>2, <3>3, <3>4
      DEF IInv, Unique, LiveRows, RowInv, Live, Committed, Own, Applied, Moves,
          Types
    <3>6. RowInv'
      BY <1>0, <3>1, <3>2, <3>3, <3>4
      DEF IInv, RowInv, Own, Applied, Committed, Moves, Types
    <3>7. SweepInv'
      BY <1>0, <3>1, <3>2, <3>3, <3>4
      DEF IInv, SweepInv, RowInv, Own, Applied, Committed, Moves, Types
    <3>8. ResultInv'
      BY <1>0, <3>1, <3>2, <3>3, <3>4
      DEF IInv, ResultInv, Applied, Own, RowInv, Moves, Types, SameFingerprint
    <3>9. LockInv'
      BY <1>0, <3>1, <3>2, <3>3, <3>4
      DEF IInv, LockInv, Moves, Types
    <3>10. VersionInv'
      BY <1>0, <3>1, <3>2, <3>3, <3>4
      DEF IInv, VersionInv, RowInv, LockInv, Applied, Own, Moves, Types
    <3>11. NoLostUpdate'
      BY <1>0, <3>1, <3>2, <3>3, <3>4
      DEF IInv, NoLostUpdate, VersionInv, Applied, Own, Moves, Types
    <3>12. QED
      BY <1>0, <3>5, <3>6, <3>7, <3>8, <3>9, <3>10, <3>11
      DEF IInv, TypeOK, Types, Unique
  <2>3. QED
    BY <2>1, <2>2
<1>7. ASSUME NEW n \in Requests, Run(n)
      PROVE  IInv'
  <2>1. CASE Rollback(n)
    BY <1>7, <2>1, RollbackStep, <1>0 DEF Run, Running
  <2>2. CASE ~Rollback(n)
    <3>1. Moves(n, "commit", request[n].result)
      BY <1>7, <2>2, <1>0, AdvanceMoves DEF Run
    <3>2. Unique'
      BY <1>7, <2>2, <1>0, <3>1
      DEF IInv, Unique, LiveRows, RowInv, Live, Committed, Own, Applied, Run,
          Moves, SameFingerprint, Types
    <3>3. RowInv'
      BY <1>7, <2>2, <1>0, <3>1
      DEF IInv, RowInv, Own, Applied, Committed, Run, Moves, SameFingerprint, Types
    <3>4. SweepInv'
      BY <1>7, <2>2, <1>0, <3>1
      DEF IInv, SweepInv, RowInv, Own, Applied, Committed, Run, Moves,
          SameFingerprint, Types
    <3>5. ResultInv'
      BY <1>7, <2>2, <1>0, <3>1
      DEF IInv, ResultInv, Applied, Own, RowInv, Run, Moves, SameFingerprint, Types
    <3>6. LockInv'
      BY <1>7, <2>2, <1>0, <3>1
      DEF IInv, LockInv, Run, Moves, SameFingerprint, Types
    <3>7. VersionInv'
      BY <1>7, <2>2, <1>0, <3>1
      DEF IInv, VersionInv, RowInv, LockInv, Applied, Own, Run, Moves,
          SameFingerprint, Types
    <3>8. NoLostUpdate'
      BY <1>7, <2>2, <1>0, <3>1
      DEF IInv, NoLostUpdate, VersionInv, Applied, Own, Run, Moves,
          SameFingerprint, Types
    <3>9. QED
      BY <1>0, <3>2, <3>3, <3>4, <3>5, <3>6, <3>7, <3>8
      DEF IInv, TypeOK, Types, Unique
  <2>3. QED
    BY <1>7, <2>1, <2>2 DEF Run
<1>8. ASSUME NEW n \in Requests, Commit(n)
      PROVE  IInv'
  <2>1. Moves(n, "done", request[n].result)
    BY <1>8, <1>0, AdvanceMoves DEF Commit
  <2>2. Unique'
    BY <1>8, <1>0, <2>1
    DEF IInv, Unique, LiveRows, RowInv, Live, Committed, Own, Applied, Commit,
        Moves, Release, Types
  <2>3. RowInv'
    BY <1>8, <1>0, <2>1
    DEF IInv, RowInv, Own, Applied, Committed, Commit, Moves, Release, Types
  <2>4. SweepInv'
    BY <1>8, <1>0, <2>1
    DEF IInv, SweepInv, RowInv, Own, Applied, Committed, Commit, Moves, Release,
        Types
  <2>5. ResultInv'
    BY <1>8, <1>0, <2>1
    DEF IInv, ResultInv, Applied, Own, RowInv, Commit, Moves, Release, Types
  <2>6. LockInv'
    BY <1>8, <1>0, <2>1
    DEF IInv, LockInv, Commit, Moves, Release, Types
  <2>7. VersionInv'
    <3>1. ASSUME NEW m \in Requests, request[m].scope \in Guarded, Applied(m)
          PROVE  request[m].fingerprint.ifMatch < version'
      <4>1. request[m].fingerprint.ifMatch \in Nat
        BY <1>0, <3>1 DEF Types, Request, Fingerprint, NoFingerprint
      <4>2. request[m].fingerprint.ifMatch < version
        BY <3>1 DEF IInv, VersionInv
      <4>3. QED
        BY <1>0, <1>8, <4>1, <4>2 DEF Types, Commit
    <3>2. ASSUME request[n].scope \in Guarded, Own(n)
          PROVE  request[n].fingerprint.ifMatch < version'
      <4>1. request[n].fingerprint.ifMatch = version
        BY <1>8, <3>2 DEF IInv, VersionInv, Commit
      <4>2. QED
        BY <1>0, <1>8, <3>2, <4>1 DEF Types, Commit
    <3>3. ASSUME NEW m \in Requests \ {n}, request[m].scope \in Guarded,
                 request[m].pc = "commit", Own(m)
          PROVE  request[m].fingerprint.ifMatch = version'
      <4>1. caseLock = m
        BY <3>3 DEF IInv, LockInv
      <4>2. request[n].scope \notin Guarded
        BY <1>8, <3>3, <4>1 DEF IInv, LockInv, Commit
      <4>3. QED
        BY <1>8, <3>3, <4>2 DEF IInv, VersionInv, Commit
    <3>4. QED
      BY <1>8, <2>1, <3>1, <3>2, <3>3
      DEF IInv, VersionInv, Applied, Own, Moves, Commit
  <2>8. NoLostUpdate'
    BY <1>8, <1>0, <2>1
    DEF IInv, NoLostUpdate, VersionInv, Applied, Own, Commit, Moves, Release, Types
  <2>9. QED
    BY <1>0, <2>2, <2>3, <2>4, <2>5, <2>6, <2>7, <2>8
    DEF IInv, TypeOK, Types, Unique
<1>9. ASSUME NEW n \in Requests, Fail(n)
      PROVE  IInv'
  BY <1>9, <1>0, RollbackStep DEF Fail
<1>10. ASSUME NEW m \in Requests, Expire(m)
       PROVE  IInv'
  <2>1. Unique' /\ RowInv' /\ SweepInv'
    BY <1>10, <1>0
    DEF IInv, Unique, LiveRows, RowInv, Live, Committed, Own, Applied, SweepInv,
        Expire, Types
  <2>2. ResultInv' /\ LockInv' /\ VersionInv' /\ NoLostUpdate'
    BY <1>10, <1>0
    DEF IInv, ResultInv, Applied, Own, RowInv, LockInv, VersionInv,
        NoLostUpdate, Expire, Types
  <2>3. QED
    BY <1>0, <2>1, <2>2 DEF IInv, TypeOK, Types, Unique
<1>11. ASSUME NEW m \in Requests, PurgeRow(m)
       PROVE  IInv'
  <2>1. Unique' /\ RowInv' /\ SweepInv'
    BY <1>11, <1>0
    DEF IInv, Unique, LiveRows, RowInv, Live, Committed, Own, Applied, SweepInv,
        PurgeRow, Types
  <2>2. ResultInv' /\ LockInv' /\ VersionInv' /\ NoLostUpdate'
    BY <1>11, <1>0
    DEF IInv, ResultInv, Applied, Own, RowInv, LockInv, VersionInv,
        NoLostUpdate, PurgeRow, Types
  <2>3. QED
    BY <1>0, <2>1, <2>2 DEF IInv, TypeOK, Types, Unique
<1>12. ASSUME NEW committed \in BOOLEAN, EndPurge(committed)
       PROVE  IInv'
  <2>1. Unique' /\ RowInv' /\ SweepInv'
    BY <1>12, <1>0
    DEF IInv, Unique, LiveRows, RowInv, Live, Committed, Own, Applied, SweepInv,
        EndPurge, Types
  <2>2. ResultInv' /\ LockInv' /\ VersionInv' /\ NoLostUpdate'
    BY <1>12, <1>0
    DEF IInv, ResultInv, Applied, Own, RowInv, LockInv, VersionInv,
        NoLostUpdate, EndPurge, Types
  <2>3. QED
    BY <1>0, <2>1, <2>2 DEF IInv, TypeOK, Types, Unique
<1>13. ASSUME UNCHANGED vars
       PROVE  IInv'
  <2>1. Unique' /\ RowInv' /\ SweepInv'
    BY <1>13, <1>0
    DEF IInv, Unique, LiveRows, RowInv, Live, Committed, Own, Applied, SweepInv,
        vars, Types
  <2>2. ResultInv' /\ LockInv' /\ VersionInv' /\ NoLostUpdate'
    BY <1>13, <1>0
    DEF IInv, ResultInv, Applied, Own, RowInv, LockInv, VersionInv,
        NoLostUpdate, vars, Types
  <2>3. QED
    BY <1>0, <2>1, <2>2 DEF IInv, TypeOK, Types, Unique
<1>14. QED
  BY <1>1, <1>2, <1>3, <1>4, <1>5, <1>6, <1>7, <1>8, <1>9, <1>10, <1>11, <1>12,
     <1>13
  DEF Next, Steps, Sweep

-----------------------------------------------------------------------------
(* The theorems.                                                            *)

\* No request, no row and no lock to begin with.
LEMMA IInvInit == Init => IInv
<1>1. SUFFICES ASSUME Init PROVE IInv
  OBVIOUS
<1>2. TypeOK
  BY <1>1
  DEF Init, TypeOK, Request, NewRequest, RowStates, LiveRows, Live, Committed
<1>3. RowInv /\ SweepInv
  BY <1>1 DEF Init, RowInv, SweepInv, NewRequest, Applied, Own, Committed
<1>4. ResultInv /\ LockInv /\ VersionInv /\ NoLostUpdate
  BY <1>1
  DEF Init, ResultInv, LockInv, VersionInv, NoLostUpdate, NewRequest, Applied
<1>5. QED
  BY <1>2, <1>3, <1>4 DEF IInv

\* The invariant is inductive.
LEMMA InductiveInvariant == Spec => []IInv
<1>1. IInv /\ [Next]_vars => IInv'
  BY IInvNext
<1>2. QED
  BY IInvInit, <1>1, PTL DEF Spec

\* Two commands that were applied under one key and whose records are there are
\* the one row of the scope.
LEMMA OneRowApplied ==
    ASSUME IInv
    PROVE  AppliedOnce
<1>1. SUFFICES ASSUME NEW m \in Requests, NEW n \in Requests,
                      Applied(m), Applied(n), request[m].scope = request[n].scope,
                      "purged" \notin {row[m], row[n]}
               PROVE  m = n
  BY DEF AppliedOnce
<1>2. row[m] \in Live /\ row[n] \in Live
  BY <1>1 DEF IInv, RowInv, Live
<1>3. request[n].scope \in Scopes
  BY <1>1 DEF IInv, RowInv, Applied
<1>4. QED
  BY <1>1, <1>2, <1>3 DEF IInv, TypeOK, LiveRows

\* The result a request returns is its own, or one it found committed.
LEMMA FoundIsFaithful ==
    ASSUME IInv
    PROVE  ReplayIsFaithful
BY DEF IInv, TypeOK, Request, RowInv, ResultInv, ReplayIsFaithful, Applied, Own

\* Commands under keys are well formed and every scope has one record at most
\* (execute_once over uq_idempotency_scope).
THEOREM TypeCorrect == Spec => []TypeOK
<1>1. IInv => TypeOK
  BY DEF IInv
<1>2. QED
  BY InductiveInvariant, <1>1, PTL

\* A command is applied once under its key while its record lives (execute_once).
THEOREM ExecuteOnce == Spec => []AppliedOnce
<1>1. IInv => AppliedOnce
  BY OneRowApplied
<1>2. QED
  BY InductiveInvariant, <1>1, PTL

\* What is replayed is the committed result of the same command (execute_once).
THEOREM ReplaysAreFaithful == Spec => []ReplayIsFaithful
<1>1. IInv => ReplayIsFaithful
  BY FoundIsFaithful
<1>2. QED
  BY InductiveInvariant, <1>1, PTL

\* Two commands with one If-Match are never both applied, whatever their keys
\* and however old their records (authorize and require_version).
THEOREM UpdatesAreKept == Spec => []NoLostUpdate
<1>1. IInv => NoLostUpdate
  BY DEF IInv
<1>2. QED
  BY InductiveInvariant, <1>1, PTL

=============================================================================
