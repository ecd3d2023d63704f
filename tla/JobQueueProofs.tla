---------------------------- MODULE JobQueueProofs ----------------------------
(***************************************************************************)
(* What holds of the job table for any number of jobs, workers, attempts,  *)
(* any lease and any lag of a transaction's clock: a claim has one holder, *)
(* and the table keeps its contract.  And what holds of the periodic       *)
(* sweeps on that table for any period and any number of slots: a finished *)
(* sweep has a successor, and one sweep at most waits ahead of its slot.   *)
(*                                                                         *)
(* Both facts about sweeps need the time a job waits: a sweep armed ahead  *)
(* is pending, and not due before its slot begins; so it is not run,       *)
(* retried or closed before.                                               *)
(***************************************************************************)
EXTENDS Periodic, TLAPS

USE QueueAssumption

-----------------------------------------------------------------------------
(* Rows.                                                                    *)

\* The bounds of the fields, as facts about integers.
LEMMA Bounds ==
    /\ 0 \in -MaxLag..Lease /\ 0 \in -MaxLag..MaxDelay /\ 0 \in Attempts
    /\ Attempts \subseteq Nat
    /\ \A lag \in Lags : lag \in Nat /\ Lease - lag \in 1..Lease
    /\ \A n \in Attempts, lag \in Lags : Backoff(n) - lag \in -MaxLag..MaxDelay
    /\ \A left \in -MaxLag..Lease : Earlier(left) \in -MaxLag..Lease
    /\ \A left \in -MaxLag..MaxDelay : Earlier(left) \in -MaxLag..MaxDelay
<1>1. \A n \in Attempts : Backoff(n) \in 1..MaxBackoff
  BY DEF Backoff
<1>2. QED
  BY <1>1 DEF Attempts, Lags, Earlier

\* A running row has the token of its latest attempt, any other row none.
TokenOK(row) == row.token = IF row.state = "running" THEN row.attempts ELSE 0

GoodRow(row) ==
    /\ row \in Row
    /\ TokenOK(row)
    /\ row.state = "running" => row.attempts > 0
    /\ row.state = "absent" => row.attempts = 0

\* What the statements of the table make of a good row.
LEMMA RowSteps ==
    ASSUME NEW row, GoodRow(row), NEW lag \in Lags
    PROVE  /\ GoodRow(Absent)
           /\ GoodRow([row EXCEPT !.state = "failed", !.token = 0, !.lease = 0])
           /\ row.state = "running" => GoodRow([row EXCEPT !.lease = Lease - lag])
           /\ row.state = "running" => GoodRow([row EXCEPT !.lease = Earlier(@)])
           /\ row.state = "pending" => GoodRow([row EXCEPT !.due = Earlier(@)])
           /\ \A error \in Errors : GoodRow(Closed(row, error, lag))
           /\ \A delay \in 0..MaxDelay :
                 GoodRow(Fresh(delay))
<1> USE Bounds DEF GoodRow, TokenOK
<1>1. GoodRow(Absent)
  BY DEF Absent, Row
<1>2. GoodRow([row EXCEPT !.state = "failed", !.token = 0, !.lease = 0])
  BY DEF Row
<1>3. row.state = "running" => GoodRow([row EXCEPT !.lease = Lease - lag])
  BY DEF Row
<1>4. row.state = "running" => GoodRow([row EXCEPT !.lease = Earlier(@)])
  BY DEF Row
<1>5. row.state = "pending" => GoodRow([row EXCEPT !.due = Earlier(@)])
  BY DEF Row
<1>6. ASSUME NEW error \in Errors
      PROVE  GoodRow(Closed(row, error, lag))
  BY DEF Closed, Row
<1>7. ASSUME NEW delay \in 0..MaxDelay
      PROVE  GoodRow(Fresh(delay))
  BY DEF Fresh, Row
<1>8. QED
  BY <1>1, <1>2, <1>3, <1>4, <1>5, <1>6, <1>7

-----------------------------------------------------------------------------
(* The inductive invariant: good rows; a busy worker works on an attempt    *)
(* that was made; and no two workers on the same attempt.                   *)

Rows == job \in [Jobs -> Row] /\ \A j \in Jobs : GoodRow(job[j])

Claims ==
    /\ worker \in [Workers -> Process]
    /\ \A w \in Workers : worker[w].pc # "idle" =>
          /\ worker[w].job \in Jobs
          /\ worker[w].token \in 1..job[worker[w].job].attempts

Distinct ==
    \A j \in Jobs, v, w \in Workers :
        Busy(v, j) /\ Busy(w, j) /\ v # w => worker[v].token # worker[w].token

IInv == Rows /\ Claims /\ Distinct

\* The invariant says what the theorem does: two holders of a job would have its
\* latest attempt both.
LEMMA IInvImplies == IInv => TypeOK /\ OneHolder
<1> SUFFICES ASSUME IInv PROVE TypeOK /\ OneHolder
  OBVIOUS
<1>1. \A j \in Jobs : job[j].state = "running" <=> job[j].token # 0
  <2>1. ASSUME NEW j \in Jobs, job[j].state = "running"
        PROVE  job[j].token # 0
    BY <2>1 DEF IInv, Rows, GoodRow, TokenOK, Row, Attempts
  <2>2. ASSUME NEW j \in Jobs, job[j].state # "running"
        PROVE  job[j].token = 0
    BY <2>2 DEF IInv, Rows, GoodRow, TokenOK
  <2>3. QED
    BY <2>1, <2>2
<1>2. TypeOK
  BY <1>1 DEF IInv, Rows, Claims, TypeOK
<1>3. OneHolder
  BY DEF IInv, Distinct, OneHolder
<1>4. QED
  BY <1>2, <1>3

\* There are no rows and no busy workers to begin with.
LEMMA IInvInit == Init => IInv
<1> SUFFICES ASSUME Init PROVE IInv
  OBVIOUS
<1>1. Absent \in Row /\ GoodRow(Absent)
  BY Bounds DEF Absent, Row, GoodRow, TokenOK
<1>2. Idle \in Process /\ Idle.pc = "idle"
  BY Bounds DEF Idle, Process, Errors
<1>3. QED
  BY <1>1, <1>2 DEF Init, QueueInit, IInv, Rows, Claims, Distinct, Busy

\* A change of the table that counts no attempt keeps the claims of workers.
LEMMA TableStep ==
    ASSUME IInv, Rows', UNCHANGED worker,
           \A j \in Jobs : job'[j].attempts = job[j].attempts
    PROVE  IInv'
<1>1. Claims'
  BY DEF IInv, Claims
<1>2. Distinct'
  BY DEF IInv, Distinct, Busy
<1>3. QED
  BY <1>1, <1>2 DEF IInv

\* A worker that becomes idle, or goes on with its claim, keeps the others'.
LEMMA WorkerStep ==
    ASSUME IInv, Rows', NEW w \in Workers,
           \A j \in Jobs : job'[j].attempts = job[j].attempts,
           NEW p \in Process, worker' = [worker EXCEPT ![w] = p],
           \/ p.pc = "idle"
           \/ worker[w].pc # "idle" /\ p.job = worker[w].job /\ p.token = worker[w].token
    PROVE  IInv'
<1>1. worker' \in [Workers -> Process]
  BY DEF IInv, Claims
<1>2. \A v \in Workers : worker'[v].pc # "idle" =>
         /\ worker[v].pc # "idle"
         /\ worker'[v].job = worker[v].job /\ worker'[v].token = worker[v].token
  BY DEF IInv, Claims
<1>3. Claims'
  BY <1>1, <1>2 DEF IInv, Claims
<1>4. Distinct'
  BY <1>2 DEF IInv, Distinct, Busy
<1>5. QED
  BY <1>3, <1>4 DEF IInv

\* Giving up exhausted jobs leaves good rows and no attempt is made by it.
LEMMA SweptRows ==
    ASSUME IInv, NEW lag \in Lags
    PROVE  /\ Swept(lag) \in [Jobs -> Row]
           /\ \A j \in Jobs : /\ GoodRow(Swept(lag)[j])
                              /\ Swept(lag)[j].attempts = job[j].attempts
<1>1. \A j \in Jobs : GoodRow(job[j]) /\ job[j] \in Row
  BY DEF IInv, Rows, GoodRow
<1>2. \A j \in Jobs :
         LET row == [job[j] EXCEPT !.state = "failed", !.token = 0, !.lease = 0]
         IN  GoodRow(row) /\ row \in Row /\ row.attempts = job[j].attempts
  BY <1>1, RowSteps DEF GoodRow, Row
<1>3. QED
  BY <1>1, <1>2 DEF Swept

\* Claiming gives out a number that no worker has.
LEMMA ClaimStep ==
    ASSUME IInv, NEW w \in Workers, NEW j \in Jobs, NEW lag \in Lags, Claim(w, j, lag)
    PROVE  IInv'
<1>1. /\ GoodRow(job[j]) /\ job[j] \in Row
      /\ job[j].attempts \in Nat /\ job[j].attempts < MaxAttempts
  BY Bounds DEF IInv, Rows, Claim, Claimable, Row
<1>2. GoodRow(Leased(j, lag)) /\ Leased(j, lag) \in Row
  BY <1>1, Bounds DEF Leased, GoodRow, TokenOK, Row, Attempts
<1>3. /\ job' \in [Jobs -> Row]
      /\ job'[j] = Leased(j, lag)
      /\ \A k \in Jobs \ {j} : job'[k] = Swept(lag)[k]
  BY <1>2, SweptRows DEF Claim
<1>4. Rows'
  BY <1>2, <1>3, SweptRows DEF Rows
<1>5. /\ worker'[w] = [pc |-> "running", job |-> j, token |-> job[j].attempts + 1,
                       heart |-> "beating", error |-> "none"]
      /\ \A v \in Workers \ {w} : worker'[v] = worker[v]
  BY DEF Claim, Leased, IInv, Claims
<1>6. worker'[w] \in Process
  BY <1>1, <1>5 DEF Process, Attempts, Errors
<1>7. /\ job'[j].attempts = job[j].attempts + 1
      /\ \A k \in Jobs \ {j} : job'[k].attempts = job[k].attempts
  BY <1>3, SweptRows DEF Leased
<1>8. \A k \in Jobs : job[k].attempts \in Nat
  BY Bounds DEF IInv, Rows, Row
<1>9. Claims'
  <2>1. worker' \in [Workers -> Process]
    BY <1>5, <1>6 DEF Claim, IInv, Claims
  <2>2. ASSUME NEW v \in Workers, worker'[v].pc # "idle"
        PROVE  worker'[v].job \in Jobs /\ worker'[v].token \in 1..job'[worker'[v].job].attempts
    <3>1. CASE v = w
      BY <1>1, <1>5, <1>7, <3>1
    <3>2. CASE v # w
      BY <1>5, <1>7, <1>8, <2>2, <3>2 DEF IInv, Claims
    <3>3. QED
      BY <3>1, <3>2
  <2>3. QED
    BY <2>1, <2>2 DEF Claims
<1>10. Distinct'
  <2>1. \A v \in Workers \ {w} : Busy(v, j)' => worker'[v].token # worker'[w].token
    BY <1>1, <1>5 DEF IInv, Claims, Busy
  <2>2. QED
    BY <1>5, <2>1 DEF IInv, Distinct, Busy
<1>11. QED
  BY <1>4, <1>9, <1>10 DEF IInv

\* What is enqueued is a good row without attempts, and known rows stay.
LEMMA EnqueuedRows ==
    ASSUME NEW jobs \in [Jobs -> Row], \A j \in Jobs : GoodRow(jobs[j]),
           NEW js, NEW delay \in 0..MaxDelay
    PROVE  /\ Enqueued(jobs, js, delay) \in [Jobs -> Row]
           /\ \A j \in Jobs : /\ GoodRow(Enqueued(jobs, js, delay)[j])
                              /\ Enqueued(jobs, js, delay)[j].attempts = jobs[j].attempts
                              /\ jobs[j].state # "absent" =>
                                    Enqueued(jobs, js, delay)[j] = jobs[j]
<1>1. GoodRow(Fresh(delay)) /\ Fresh(delay) \in Row
  BY Bounds DEF Fresh, GoodRow, TokenOK, Row
<1>2. QED
  BY <1>1 DEF Enqueued, Fresh, GoodRow

\* The passing of time changes neither tokens nor attempts.
LEMMA TickStep ==
    ASSUME IInv, Tick
    PROVE  IInv'
<1>1. \A j \in Jobs : GoodRow(job'[j]) /\ job'[j] \in Row /\ job'[j].attempts = job[j].attempts
  <2>1. ASSUME NEW j \in Jobs
        PROVE  GoodRow(job'[j]) /\ job'[j] \in Row /\ job'[j].attempts = job[j].attempts
    <3>1. GoodRow(job[j]) /\ job[j] \in Row /\ 0 \in Lags
      BY DEF IInv, Rows, Lags
    <3>2. CASE job[j].state = "running"
      <4>1. job'[j] = [job[j] EXCEPT !.lease = Earlier(@)]
        BY <3>2 DEF Tick
      <4>2. GoodRow([job[j] EXCEPT !.lease = Earlier(@)])
        BY <3>1, <3>2, RowSteps
      <4>3. QED
        BY <3>1, <4>1, <4>2 DEF GoodRow, Row
    <3>3. CASE job[j].state = "pending"
      <4>1. job'[j] = [job[j] EXCEPT !.due = Earlier(@)]
        BY <3>3 DEF Tick
      <4>2. GoodRow([job[j] EXCEPT !.due = Earlier(@)])
        BY <3>1, <3>3, RowSteps
      <4>3. QED
        BY <3>1, <4>1, <4>2 DEF GoodRow, Row
    <3>4. CASE job[j].state \notin {"running", "pending"}
      BY <3>1, <3>4 DEF Tick
    <3>5. QED
      BY <3>2, <3>3, <3>4
  <2>2. QED
    BY <2>1
<1>2. Rows'
  BY <1>1 DEF Rows, Tick
<1>3. QED
  BY <1>1, <1>2, TableStep DEF Tick

\* Nor does a poll that finds nothing to take: the jobs it gives up lose their token.
LEMMA SweepStep ==
    ASSUME IInv, NEW w \in Workers, NEW lag \in Lags, Sweep(w, lag)
    PROVE  IInv'
<1>1. Rows'
  BY SweptRows DEF Rows, Sweep
<1>2. QED
  BY <1>1, SweptRows, TableStep DEF Sweep

\* Nor does enqueueing.
LEMMA EnqueueStep ==
    ASSUME IInv, NEW j \in Jobs, Enqueue(j)
    PROVE  IInv'
<1>1. 0 \in 0..MaxDelay
  OBVIOUS
<1>2. Rows'
  BY <1>1, EnqueuedRows DEF Rows, Enqueue, IInv
<1>3. QED
  BY <1>1, <1>2, EnqueuedRows, TableStep DEF Enqueue, IInv, Rows

\* A renewal changes the time of a lease only.
LEMMA HeartbeatStep ==
    ASSUME IInv, NEW w \in Workers, NEW lag \in Lags, Heartbeat(w, lag)
    PROVE  IInv'
<1> DEFINE j == worker[w].job
<1>1. worker[w] \in Process /\ worker[w].pc # "idle" /\ j \in Jobs
  BY DEF Heartbeat, IInv, Claims
<1>2. GoodRow(job[j]) /\ job[j] \in Row /\ job[j].attempts \in Nat
  BY <1>1, Bounds DEF IInv, Rows, Row
<1>3. CASE Holds(w, lag)
  <2>1. job' = [job EXCEPT ![j].lease = Lease - lag] /\ UNCHANGED worker
    BY <1>3 DEF Heartbeat
  <2>2. GoodRow([job[j] EXCEPT !.lease = Lease - lag]) /\ [job[j] EXCEPT !.lease = Lease - lag] \in Row
    BY <1>2, <1>3, RowSteps DEF Holds, GoodRow
  <2>3. Rows'
    BY <1>1, <2>1, <2>2 DEF IInv, Rows
  <2>4. \A k \in Jobs : job'[k].attempts = job[k].attempts
    BY <2>1, Bounds DEF IInv, Rows, Row
  <2>5. QED
    BY <2>1, <2>3, <2>4, TableStep
<1>4. CASE ~Holds(w, lag)
  <2> DEFINE p == [worker[w] EXCEPT !.heart = "stopped"]
  <2>1. worker' = [worker EXCEPT ![w] = p] /\ UNCHANGED job
    BY <1>4 DEF Heartbeat
  <2>2. p \in Process /\ p.job = worker[w].job /\ p.token = worker[w].token
    BY <1>1 DEF Process
  <2>3. Rows'
    BY <2>1 DEF IInv, Rows
  <2>4. QED
    BY <1>1, <2>1, <2>2, <2>3, WorkerStep
<1>5. QED
  BY <1>3, <1>4

\* A heartbeat that stops leaves the claim as it is.
LEMMA HeartStopsStep ==
    ASSUME IInv, NEW w \in Workers, HeartStops(w)
    PROVE  IInv'
<1> DEFINE p == [worker[w] EXCEPT !.heart = "stopped"]
<1>1. worker[w] \in Process
  BY DEF IInv, Claims
<1>2. /\ p \in Process /\ p.pc = worker[w].pc
      /\ p.job = worker[w].job /\ p.token = worker[w].token
  BY <1>1 DEF Process
<1>3. worker' = [worker EXCEPT ![w] = p] /\ UNCHANGED job
  BY DEF HeartStops
<1>4. Rows'
  BY <1>3 DEF IInv, Rows
<1>5. QED
  BY <1>2, <1>3, <1>4, WorkerStep

\* So does a handler that returns.
LEMMA HandlerReturnsStep ==
    ASSUME IInv, NEW w \in Workers, NEW error \in Errors, HandlerReturns(w, error)
    PROVE  IInv'
<1> DEFINE p == [worker[w] EXCEPT !.pc = "returned", !.error = error]
<1>1. worker[w] \in Process /\ worker[w].pc # "idle"
  BY DEF HandlerReturns, IInv, Claims
<1>2. p \in Process /\ p.job = worker[w].job /\ p.token = worker[w].token
  BY <1>1 DEF Process
<1>3. worker' = [worker EXCEPT ![w] = p] /\ UNCHANGED job
  BY DEF HandlerReturns
<1>4. Rows'
  BY <1>3 DEF IInv, Rows
<1>5. QED
  BY <1>1, <1>2, <1>3, <1>4, WorkerStep

\* A crash drops a claim.
LEMMA AbandonStep ==
    ASSUME IInv, NEW w \in Workers, Abandon(w)
    PROVE  IInv'
<1>1. Idle \in Process /\ Idle.pc = "idle"
  BY Bounds DEF Idle, Process, Errors
<1>2. Rows'
  BY DEF Abandon, IInv, Rows
<1>3. QED
  BY <1>1, <1>2, WorkerStep DEF Abandon

\* An accepted result closes one row and keeps the number of its attempts.
LEMMA ClosedRows ==
    ASSUME IInv, NEW w \in Workers, NEW lag \in Lags,
           worker[w].pc # "idle", Holds(w, lag)
    PROVE  LET j == worker[w].job
               jobs == [job EXCEPT ![j] = Closed(@, worker[w].error, lag)]
           IN  /\ j \in Jobs
               /\ jobs \in [Jobs -> Row]
               /\ \A k \in Jobs : /\ GoodRow(jobs[k])
                                  /\ jobs[k].attempts = job[k].attempts
               /\ jobs[j].state \in {"done", "failed", "pending"}
               /\ jobs[j].state = "pending" => job[j].attempts < MaxAttempts
               /\ jobs[j] = Closed(job[j], worker[w].error, lag)
               /\ \A k \in Jobs \ {j} : jobs[k] = job[k]
<1> DEFINE j == worker[w].job
           row == Closed(job[j], worker[w].error, lag)
           jobs == [job EXCEPT ![j] = Closed(@, worker[w].error, lag)]
<1>1. j \in Jobs /\ worker[w].error \in Errors
  BY DEF IInv, Claims, Process
<1>2. GoodRow(job[j]) /\ job[j] \in Row /\ job[j].attempts \in Nat
  BY <1>1, Bounds DEF IInv, Rows, Row
<1>3. GoodRow(row) /\ row \in Row
  BY <1>1, <1>2, RowSteps DEF GoodRow
<1>4. /\ row.attempts = job[j].attempts
      /\ row.state \in {"done", "failed", "pending"}
      /\ row.state = "pending" => job[j].attempts < MaxAttempts
  BY <1>2 DEF Closed, Final, Row
<1>5. jobs[j] = row /\ \A k \in Jobs \ {j} : jobs[k] = job[k]
  BY <1>1 DEF IInv, Rows
<1>6. jobs \in [Jobs -> Row]
  BY <1>1, <1>3 DEF IInv, Rows
<1>7. \A k \in Jobs : GoodRow(jobs[k]) /\ jobs[k].attempts = job[k].attempts
  BY <1>3, <1>4, <1>5 DEF IInv, Rows
<1>8. QED
  BY <1>1, <1>4, <1>5, <1>6, <1>7

\* A result is accepted, with the follow-up jobs enqueued, or it is refused.
LEMMA FinishStep ==
    ASSUME IInv, NEW w \in Workers, NEW lag \in Lags,
           NEW followUps, NEW delay \in 0..MaxDelay, Finish(w, lag, followUps, delay)
    PROVE  IInv'
<1>1. Idle \in Process /\ Idle.pc = "idle"
  BY Bounds DEF Idle, Process, Errors
<1>2. worker' = [worker EXCEPT ![w] = Idle] /\ worker[w].pc # "idle"
  BY DEF Finish
<1>3. Rows' /\ \A j \in Jobs : job'[j].attempts = job[j].attempts
  <2>1. CASE Holds(w, lag)
    <3> DEFINE jobs == [job EXCEPT ![worker[w].job] = Closed(@, worker[w].error, lag)]
    <3>1. /\ jobs \in [Jobs -> Row]
          /\ \A k \in Jobs : GoodRow(jobs[k]) /\ jobs[k].attempts = job[k].attempts
      BY <1>2, <2>1, ClosedRows
    <3>2. job' = Enqueued(jobs, followUps, delay)
      BY <2>1 DEF Finish
    <3> HIDE DEF jobs
    <3>3. /\ Enqueued(jobs, followUps, delay) \in [Jobs -> Row]
          /\ \A j \in Jobs : /\ GoodRow(Enqueued(jobs, followUps, delay)[j])
                             /\ Enqueued(jobs, followUps, delay)[j].attempts = jobs[j].attempts
      BY <3>1, EnqueuedRows
    <3>4. QED
      BY <3>1, <3>2, <3>3 DEF Rows
  <2>2. CASE ~Holds(w, lag)
    BY <2>2 DEF Finish, IInv, Rows
  <2>3. QED
    BY <2>1, <2>2
<1>4. QED
  BY <1>1, <1>2, <1>3, WorkerStep

\* Every step keeps the invariant.
LEMMA IInvNext == IInv /\ [Next]_queueVars => IInv'
<1> SUFFICES ASSUME IInv, [Next]_queueVars PROVE IInv'
  OBVIOUS
<1>1. CASE Tick
  BY <1>1, TickStep
<1>2. ASSUME NEW j \in Jobs, Enqueue(j) PROVE IInv'
  BY <1>2, EnqueueStep
<1>3. ASSUME NEW w \in Workers, NEW lag \in Lags,
             \/ \E j \in Jobs : Claim(w, j, lag)
             \/ Sweep(w, lag)
             \/ Heartbeat(w, lag)
      PROVE  IInv'
  BY <1>3, ClaimStep, SweepStep, HeartbeatStep
<1>4. ASSUME NEW w \in Workers, NEW lag \in Lags, Finish(w, lag, {}, 0) PROVE IInv'
  <2>1. 0 \in 0..MaxDelay
    OBVIOUS
  <2>2. QED
    BY <1>4, <2>1, FinishStep
<1>5. ASSUME NEW w \in Workers,
             \/ \E error \in Errors : HandlerReturns(w, error)
             \/ HeartStops(w)
             \/ Abandon(w)
      PROVE  IInv'
  BY <1>5, HandlerReturnsStep, HeartStopsStep, AbandonStep
<1>6. CASE UNCHANGED queueVars
  BY <1>6 DEF queueVars, IInv, Rows, Claims, Distinct, Busy
<1>7. QED
  BY <1>1, <1>2, <1>3, <1>4, <1>5, <1>6 DEF Next, Run

\* The invariant is inductive.
LEMMA InductiveInvariant == Spec => []IInv
<1>1. Init => IInv
  BY IInvInit
<1>2. IInv /\ [Next]_queueVars => IInv'
  BY IInvNext
<1>3. QED
  BY <1>1, <1>2, PTL DEF Spec

\* A step that is not a claim counts no attempt.
LEMMA AttemptsCounted ==
    ASSUME IInv, [Next]_queueVars,
           \A w \in Workers, j \in Jobs, lag \in Lags : ~Claim(w, j, lag)
    PROVE  \A j \in Jobs : job'[j].attempts = job[j].attempts
<1>1. \A j \in Jobs : job[j] \in Row
  BY DEF IInv, Rows
<1>2. CASE Tick
  BY <1>1, <1>2 DEF Tick, Row
<1>3. ASSUME NEW js, job' = Enqueued(job, js, 0)
      PROVE  \A j \in Jobs : job'[j].attempts = job[j].attempts
  BY <1>3, EnqueuedRows DEF IInv, Rows
<1>4. ASSUME NEW w \in Workers, NEW lag \in Lags, Sweep(w, lag)
      PROVE  \A j \in Jobs : job'[j].attempts = job[j].attempts
  BY <1>4, SweptRows DEF Sweep
<1>5. ASSUME NEW w \in Workers, NEW lag \in Lags, Heartbeat(w, lag)
      PROVE  \A j \in Jobs : job'[j].attempts = job[j].attempts
  BY <1>1, <1>5 DEF Heartbeat, Row, IInv, Rows
<1>6. ASSUME NEW w \in Workers, NEW lag \in Lags, Finish(w, lag, {}, 0)
      PROVE  \A j \in Jobs : job'[j].attempts = job[j].attempts
  <2>1. CASE ~Holds(w, lag)
    BY <1>6, <2>1 DEF Finish
  <2>2. CASE Holds(w, lag)
    <3> DEFINE jobs == [job EXCEPT ![worker[w].job] = Closed(@, worker[w].error, lag)]
    <3>1. /\ jobs \in [Jobs -> Row]
          /\ \A k \in Jobs : GoodRow(jobs[k]) /\ jobs[k].attempts = job[k].attempts
      BY <1>6, <2>2, ClosedRows DEF Finish
    <3>2. job' = Enqueued(jobs, {}, 0)
      BY <1>6, <2>2 DEF Finish
    <3> HIDE DEF jobs
    <3>3. QED
      BY <3>1, <3>2, EnqueuedRows
  <2>3. QED
    BY <2>1, <2>2
<1>7. CASE UNCHANGED job
  BY <1>7
<1>8. QED
  BY <1>2, <1>3, <1>4, <1>5, <1>6, <1>7
     DEF Next, Run, Enqueue, HandlerReturns, HeartStops, Abandon, queueVars

\* Whatever the workers do, every row is well formed and has a token exactly while
\* it is running.
THEOREM RowsCorrect == Spec => []TypeOK
BY InductiveInvariant, IInvImplies, PTL

\* However workers crash, stall or overtake one another, at most one of them holds
\* the claim on a job (claim, renew, finish).
THEOREM JobsCorrect == Spec => []OneHolder
BY InductiveInvariant, IInvImplies, PTL

\* Only a claim counts an attempt, and of a running job only after the lease has run
\* out, however old the now() of the claim (claim).
THEOREM NoTakeoverBeforeExpiry == Spec => NoEarlyTakeover
<1> DEFINE Kept == \A j \in Jobs :
        (job[j].state = "running" /\ job'[j].attempts > job[j].attempts) => job[j].lease <= 0
<1>1. ASSUME IInv, [Next]_queueVars
      PROVE  Kept
  <2>1. \A j \in Jobs : job[j].attempts \in Nat /\ job[j].lease \in Int
    <3>1. \A j \in Jobs : job[j] \in Row
      BY <1>1 DEF IInv, Rows
    <3>2. ASSUME NEW j \in Jobs
          PROVE  job[j].attempts \in Nat /\ job[j].lease \in Int
      <4>1. job[j].attempts \in Attempts /\ job[j].lease \in -MaxLag..Lease
        BY <3>1 DEF Row
      <4>2. QED
        BY <4>1 DEF Attempts
    <3>3. QED
      BY <3>2
  <2>2. ASSUME \A j \in Jobs : job'[j].attempts = job[j].attempts
        PROVE  Kept
    BY <2>1, <2>2
  <2>3. ASSUME NEW w \in Workers, NEW j \in Jobs, NEW lag \in Lags, Claim(w, j, lag)
        PROVE  Kept
    <3>1. \A k \in Jobs \ {j} : job'[k].attempts = job[k].attempts
      BY <1>1, <2>3, SweptRows DEF Claim
    <3>2. job[j].state = "running" => job[j].lease <= -lag
      BY <2>3 DEF Claim, Claimable, Expired
    <3>3. lag \in Nat
      BY DEF Lags
    <3>4. QED
      BY <2>1, <3>1, <3>2, <3>3
  <2>4. QED
    BY <1>1, <2>2, <2>3, AttemptsCounted
<1>2. IInv /\ [Next]_queueVars => [Kept]_queueVars
  BY <1>1
<1>3. QED
  BY <1>2, InductiveInvariant, PTL DEF Spec, NoEarlyTakeover

-----------------------------------------------------------------------------
(* The refinement: each step of the queue is a step of the contract, or     *)
(* leaves what the contract sees as it was.                                 *)

ContractVars == <<Status, Tries, ClaimOf>>

\* Nothing enqueued and no worker busy is where the contract begins.
LEMMA ContractInit == Init => Contract!Init
BY DEF Init, QueueInit, Absent, Idle, Status, Tries, ClaimOf, Contract!Init, Contract!Free

\* What a row's attempts and state tell the contract.
LEMMA Seen ==
    ASSUME IInv
    PROVE  \A j \in Jobs :
              /\ job[j].attempts \in Nat
              /\ Tries[j] = job[j].attempts
              /\ Status[j] = "waiting" <=> job[j].state = "pending"
              /\ Status[j] = "held" <=> job[j].state = "running"
              /\ Status[j] = "absent" <=> job[j].state = "absent"
<1>1. \A j \in Jobs : job[j] \in Row /\ job[j].attempts \in Nat
  BY Bounds DEF IInv, Rows, Row
<1>2. QED
  BY <1>1 DEF Status, Tries, Row

\* A poll that closes the lost jobs, as the contract sees it.
LEMMA SweptSeen ==
    ASSUME IInv, NEW lag \in Lags
    PROVE  LET js == {j \in Jobs : Exhausted(j, lag)}
           IN  /\ js \in SUBSET Contract!Lost
               /\ \A j \in Jobs : Contract!GivenUp(js)[j] =
                     IF Exhausted(j, lag) THEN "failed" ELSE Status[j]
<1>1. \A j \in Jobs : Exhausted(j, lag) => Status[j] = "held" /\ Tries[j] = MaxAttempts
  BY Seen DEF Exhausted, Expired
<1>2. QED
  BY <1>1 DEF Contract!Lost, Contract!GivenUp

\* A poll that finds a job takes the next try of it.
LEMMA ClaimIsPoll ==
    ASSUME IInv, NEW w \in Workers, NEW j \in Jobs, NEW lag \in Lags, Claim(w, j, lag)
    PROVE  Contract!Poll(w)
<1> DEFINE js == {k \in Jobs : Exhausted(k, lag)}
<1>1. /\ worker[w].pc = "idle"
      /\ Claimable(j, lag)
      /\ job' = [Swept(lag) EXCEPT ![j] = Leased(j, lag)]
      /\ worker' = [worker EXCEPT ![w] =
             [pc |-> "running", job |-> j, token |-> job[j].attempts + 1,
              heart |-> "beating", error |-> "none"]]
  BY DEF Claim, Leased
<1>2. j \in Jobs \ js /\ Status[j] \in {"waiting", "held"} /\ Tries[j] < MaxAttempts
  BY <1>1, Seen, QueueAssumption DEF Claimable, Exhausted, Expired
<1>3. /\ job'[j] = Leased(j, lag)
      /\ \A k \in Jobs \ {j} : job'[k] = Swept(lag)[k]
  BY <1>1, SweptRows
<1>4. Status' = [Contract!GivenUp(js) EXCEPT ![j] = "held"]
  <2>1. Contract!GivenUp(js) = [k \in Jobs |-> IF Exhausted(k, lag) THEN "failed" ELSE Status[k]]
    BY DEF Contract!GivenUp
  <2>2. Status'[j] = "held"
    BY <1>3 DEF Status, Leased
  <2>3. \A k \in Jobs \ {j} :
           Status'[k] = IF Exhausted(k, lag) THEN "failed" ELSE Status[k]
    <3>1. SUFFICES ASSUME NEW k \in Jobs \ {j}
                   PROVE  Status'[k] = IF Exhausted(k, lag) THEN "failed" ELSE Status[k]
      OBVIOUS
    <3>2. job'[k] = IF Exhausted(k, lag)
                    THEN [job[k] EXCEPT !.state = "failed", !.token = 0, !.lease = 0]
                    ELSE job[k]
      BY <1>3 DEF Swept
    <3>3. job[k] \in Row
      BY DEF IInv, Rows
    <3>4. QED
      BY <3>2, <3>3 DEF Status, Row
  <2>4. QED
    BY <2>1, <2>2, <2>3 DEF Status
<1>5. Tries' = [Tries EXCEPT ![j] = @ + 1]
  <2>1. job'[j].attempts = job[j].attempts + 1
    BY <1>3 DEF Leased
  <2>2. \A k \in Jobs \ {j} : job'[k].attempts = job[k].attempts
    BY <1>3, SweptRows
  <2>3. QED
    BY <2>1, <2>2 DEF Tries
<1>6. ClaimOf' = [ClaimOf EXCEPT ![w] = [job |-> j, try |-> Tries'[j]]]
  <2>1. Tries'[j] = job[j].attempts + 1
    BY <1>3 DEF Tries, Leased
  <2>2. /\ worker'[w] = [pc |-> "running", job |-> j, token |-> job[j].attempts + 1,
                         heart |-> "beating", error |-> "none"]
        /\ \A v \in Workers \ {w} : worker'[v] = worker[v]
    BY <1>1 DEF IInv, Claims
  <2>3. ClaimOf'[w] = [job |-> j, try |-> Tries'[j]]
    BY <2>1, <2>2 DEF ClaimOf
  <2>4. \A v \in Workers \ {w} : ClaimOf'[v] = ClaimOf[v]
    BY <2>2 DEF ClaimOf
  <2>5. QED
    BY <2>3, <2>4 DEF ClaimOf
<1>7. ClaimOf[w] = Contract!Free
  BY <1>1 DEF ClaimOf, Contract!Free
<1>8. QED
  BY <1>2, <1>4, <1>5, <1>6, <1>7, SweptSeen DEF Contract!Poll

\* A poll that finds none gives up the lost jobs.
LEMMA SweepIsPoll ==
    ASSUME IInv, NEW w \in Workers, NEW lag \in Lags, Sweep(w, lag)
    PROVE  Contract!Poll(w)
<1> DEFINE js == {k \in Jobs : Exhausted(k, lag)}
<1>1. \A k \in Jobs : job'[k] = IF Exhausted(k, lag)
                    THEN [job[k] EXCEPT !.state = "failed", !.token = 0, !.lease = 0]
                    ELSE job[k]
  BY DEF Sweep, Swept
<1>2. \A k \in Jobs : job[k] \in Row
  BY DEF IInv, Rows
<1>3. Status' = Contract!GivenUp(js)
  BY <1>1, <1>2 DEF Status, Row, Contract!GivenUp
<1>4. Tries' = Tries /\ ClaimOf' = ClaimOf
  BY SweptRows DEF Sweep, Tries, ClaimOf
<1>5. QED
  BY <1>3, <1>4, SweptSeen DEF Contract!Poll

\* enqueue adds a job.
LEMMA EnqueueIsAdd ==
    ASSUME IInv, NEW j \in Jobs, Enqueue(j)
    PROVE  {j} \in SUBSET Contract!Absent /\ Contract!Add({j})
<1>1. job[j].state = "absent" /\ job[j].attempts = 0 /\ worker' = worker
  BY DEF Enqueue, IInv, Rows, GoodRow
<1>2. job' = [k \in Jobs |-> IF k = j THEN Fresh(0) ELSE job[k]]
  BY <1>1 DEF Enqueue, Enqueued
<1>3. {j} \in SUBSET Contract!Absent
  BY <1>1, Seen DEF Contract!Absent
<1>4. Status' = Contract!AddedTo(Status, {j})
  BY <1>2 DEF Status, Fresh, Contract!AddedTo
<1>5. Tries' = Tries /\ ClaimOf' = ClaimOf
  BY <1>1, <1>2 DEF Tries, ClaimOf, Fresh
<1>6. QED
  BY <1>3, <1>4, <1>5 DEF Contract!Add

\* A worker that goes idle gives its claim back, whatever it claimed.
LEMMA IdleIsFree ==
    ASSUME IInv, NEW w \in Workers, worker[w].pc # "idle",
           worker' = [worker EXCEPT ![w] = Idle]
    PROVE  /\ ClaimOf[w] # Contract!Free
           /\ ClaimOf' = [ClaimOf EXCEPT ![w] = Contract!Free]
<1>1. worker[w].job \in Jobs /\ None \notin Jobs
  BY QueueAssumption DEF IInv, Claims
<1>2. ClaimOf[w] = [job |-> worker[w].job, try |-> worker[w].token]
  BY DEF ClaimOf
<1>3. ClaimOf[w].job # Contract!Free.job
  BY <1>1, <1>2 DEF Contract!Free
<1>4. ClaimOf' = [ClaimOf EXCEPT ![w] = Contract!Free]
  BY DEF IInv, Claims, ClaimOf, Idle, Contract!Free
<1>5. QED
  BY <1>3, <1>4

\* A result that is accepted settles the latest try; one that is refused is
\* dropped.
LEMMA FinishIsSettle ==
    ASSUME IInv, NEW w \in Workers, NEW lag \in Lags, Finish(w, lag, {}, 0)
    PROVE  \/ \E outcome \in {"done", "failed", "waiting"} : Contract!Settle(w, outcome)
           \/ Contract!Drop(w)
<1>1. worker[w].pc # "idle" /\ worker' = [worker EXCEPT ![w] = Idle]
  BY DEF Finish
<1>2. /\ ClaimOf[w] # Contract!Free
      /\ ClaimOf' = [ClaimOf EXCEPT ![w] = Contract!Free]
  BY <1>1, IdleIsFree
<1>3. CASE ~Holds(w, lag)
  <2>1. job' = job
    BY <1>3 DEF Finish
  <2>2. Status' = Status /\ Tries' = Tries
    BY <2>1 DEF Status, Tries
  <2>3. QED
    BY <1>2, <2>2 DEF Contract!Drop
<1>4. CASE Holds(w, lag)
  <2> DEFINE j == worker[w].job
             jobs == [job EXCEPT ![j] = Closed(@, worker[w].error, lag)]
             outcome == IF jobs[j].state = "pending" THEN "waiting" ELSE jobs[j].state
  <2>1. /\ j \in Jobs /\ jobs \in [Jobs -> Row]
        /\ \A k \in Jobs : jobs[k].attempts = job[k].attempts
        /\ jobs[j].state \in {"done", "failed", "pending"}
        /\ jobs[j].state = "pending" => job[j].attempts < MaxAttempts
        /\ \A k \in Jobs \ {j} : jobs[k] = job[k]
    BY <1>1, <1>4, ClosedRows
  <2>2. job' = Enqueued(jobs, {}, 0)
    BY <1>4 DEF Finish
  <2> HIDE DEF jobs
  <2>3. \A k \in Jobs : job'[k] = jobs[k]
    BY <2>2 DEF Enqueued
  <2>4. Status' = Contract!AddedTo([Status EXCEPT ![j] = outcome], {})
    BY <2>1, <2>3 DEF Status, Contract!AddedTo
  <2>5. Tries' = Tries
    BY <2>1, <2>3 DEF Tries
  <2>6. Contract!Latest(w, j)
    <3>1. job[j].state = "running" /\ job[j].token = worker[w].token
      BY <1>4 DEF Holds
    <3>2. job[j].token = job[j].attempts
      BY <2>1, <3>1 DEF IInv, Rows, GoodRow, TokenOK
    <3>3. ClaimOf[w] = [job |-> j, try |-> Tries[j]]
      BY <1>1, <2>1, <3>1, <3>2 DEF ClaimOf, Tries
    <3>4. Status[j] = "held"
      BY <2>1, <3>1, Seen
    <3>5. QED
      BY <3>3, <3>4 DEF Contract!Latest
  <2>7. outcome \in {"done", "failed", "waiting"} /\ (outcome = "waiting" => Tries[j] < MaxAttempts)
    BY <2>1, Seen
  <2> HIDE DEF outcome
  <2>8. Contract!Settle(w, outcome)
    <3>1. {} \in SUBSET Contract!Absent
      OBVIOUS
    <3>2. QED
      BY <3>1, <1>2, <2>1, <2>4, <2>5, <2>6, <2>7 DEF Contract!Settle
  <2>9. QED
    BY <2>7, <2>8
<1>5. QED
  BY <1>3, <1>4

\* A worker that crashes drops its claim.
LEMMA AbandonIsDrop ==
    ASSUME IInv, NEW w \in Workers, Abandon(w)
    PROVE  Contract!Drop(w)
<1>1. Status' = Status /\ Tries' = Tries
  BY DEF Abandon, Status, Tries
<1>2. QED
  BY <1>1, IdleIsFree DEF Abandon, Contract!Drop

\* The contract does not see the clock, the leases, or how far a worker is.
LEMMA Unseen ==
    ASSUME IInv,
           \/ Tick
           \/ \E w \in Workers :
                 \/ \E lag \in Lags : Heartbeat(w, lag)
                 \/ \E error \in Errors : HandlerReturns(w, error)
                 \/ HeartStops(w)
           \/ UNCHANGED queueVars
    PROVE  UNCHANGED ContractVars
<1>1. \A j \in Jobs : job[j] \in Row
  BY DEF IInv, Rows
<1>2. \A w \in Workers : worker[w] \in Process
  BY DEF IInv, Claims
<1>3. CASE Tick
  <2>1. \A j \in Jobs : job'[j].state = job[j].state /\ job'[j].attempts = job[j].attempts
    BY <1>1, <1>3 DEF Tick, Row
  <2>2. QED
    BY <1>3, <2>1 DEF Tick, ContractVars, Status, Tries, ClaimOf
<1>4. ASSUME NEW w \in Workers, NEW lag \in Lags, Heartbeat(w, lag)
      PROVE  UNCHANGED ContractVars
  <2>1. worker[w].job \in Jobs
    BY <1>4 DEF Heartbeat, IInv, Claims
  <2>2. \A j \in Jobs : job'[j].state = job[j].state /\ job'[j].attempts = job[j].attempts
    BY <1>1, <1>4, <2>1 DEF Heartbeat, Row, IInv, Rows
  <2>3. \A v \in Workers : /\ worker'[v].pc = worker[v].pc
                           /\ worker'[v].job = worker[v].job
                           /\ worker'[v].token = worker[v].token
    BY <1>2, <1>4 DEF Heartbeat, Process, IInv, Claims
  <2>4. QED
    BY <2>2, <2>3 DEF ContractVars, Status, Tries, ClaimOf
<1>5. ASSUME NEW w \in Workers,
             (\E error \in Errors : HandlerReturns(w, error)) \/ HeartStops(w)
      PROVE  UNCHANGED ContractVars
  <2>1. job' = job
    BY <1>5 DEF HandlerReturns, HeartStops
  <2>2. \A v \in Workers : /\ worker'[v].pc = "idle" <=> worker[v].pc = "idle"
                           /\ worker'[v].job = worker[v].job
                           /\ worker'[v].token = worker[v].token
    BY <1>2, <1>5 DEF HandlerReturns, HeartStops, Process, IInv, Claims
  <2>3. QED
    BY <2>1, <2>2 DEF ContractVars, Status, Tries, ClaimOf
<1>6. CASE UNCHANGED queueVars
  BY <1>6 DEF queueVars, ContractVars, Status, Tries, ClaimOf
<1>7. QED
  BY <1>3, <1>4, <1>5, <1>6

\* Each step of the queue is one of the contract, or is not seen by it.
LEMMA StepRefines == IInv /\ [Next]_queueVars => [Contract!Next]_ContractVars
<1> SUFFICES ASSUME IInv, [Next]_queueVars PROVE [Contract!Next]_ContractVars
  OBVIOUS
<1>1. ASSUME NEW j \in Jobs, Enqueue(j) PROVE Contract!Next
  BY <1>1, EnqueueIsAdd DEF Contract!Next
<1>2. ASSUME NEW w \in Workers, NEW lag \in Lags,
             (\E j \in Jobs : Claim(w, j, lag)) \/ Sweep(w, lag)
      PROVE  Contract!Next
  BY <1>2, ClaimIsPoll, SweepIsPoll DEF Contract!Next
<1>3. ASSUME NEW w \in Workers, NEW lag \in Lags, Finish(w, lag, {}, 0)
      PROVE  Contract!Next
  BY <1>3, FinishIsSettle DEF Contract!Next
<1>4. ASSUME NEW w \in Workers, Abandon(w) PROVE Contract!Next
  BY <1>4, AbandonIsDrop DEF Contract!Next
<1>5. QED
  BY <1>1, <1>2, <1>3, <1>4, Unseen DEF Next, Run

\* The queue keeps its contract: only the worker of the latest attempt settles a
\* job, a job is tried at most MaxAttempts times and given up only then or for
\* want of a handler, and a settled job stays settled (claim, finish).
THEOREM ImplementsContract == Spec => KeepsContract
<1>1. Init => Contract!Init
  BY ContractInit
<1>2. IInv /\ [Next]_queueVars => [Contract!Next]_<<Status, Tries, ClaimOf>>
  BY StepRefines DEF ContractVars
<1>3. QED
  BY <1>1, <1>2, InductiveInvariant, PTL DEF Spec, KeepsContract, Contract!Spec

-----------------------------------------------------------------------------
(* The sweeps.                                                              *)

USE PeriodicAssumption

-----------------------------------------------------------------------------
(* Slots of the clock.                                                      *)

\* Multiples of the period are as far apart as it is long.
LEMMA Multiples ==
    ASSUME NEW a \in Int, NEW b \in Int
    PROVE  /\ a < b <=> a * Period < b * Period
           /\ a < b <=> a * Period + Period <= b * Period
<1>1. Period \in Nat /\ Period > 0
  OBVIOUS
<1>2. a < b => a * Period + Period <= b * Period
  <2>1. ASSUME a < b
        PROVE  a * Period + Period <= b * Period
    <3>1. PICK d \in Nat : b = a + 1 + d
      <4>1. b - a - 1 \in Nat /\ b = a + 1 + (b - a - 1)
        BY <2>1
      <4>2. QED
        BY <4>1
    <3>2. b * Period = a * Period + Period + d * Period /\ d * Period >= 0
      BY <1>1, <3>1
    <3>3. QED
      BY <1>1, <3>2
  <2>2. QED
    BY <2>1
<1>3. b <= a => b * Period <= a * Period
  <2>1. ASSUME b <= a
        PROVE  b * Period <= a * Period
    <3>1. PICK d \in Nat : a = b + d
      <4>1. a - b \in Nat /\ a = b + (a - b)
        BY <2>1
      <4>2. QED
        BY <4>1
    <3>2. a * Period = b * Period + d * Period /\ d * Period >= 0
      BY <1>1, <3>1
    <3>3. QED
      BY <1>1, <3>2
  <2>2. QED
    BY <2>1
<1>4. a * Period \in Int /\ b * Period \in Int
  BY <1>1
<1>5. QED
  BY <1>1, <1>2, <1>3, <1>4

\* A moment lies in its slot.
LEMMA Slots ==
    ASSUME NEW now \in Nat
    PROVE  /\ Slot(now) \in Int
           /\ Slot(now) * Period <= now
           /\ now < Slot(now) * Period + Period
<1>1. Period \in Nat /\ Period > 0
  OBVIOUS
<1>2. QED
  BY <1>1 DEF Slot

\* The slots that are enqueued: the one that is running, and the one after it.
LEMMA ArmedSlots ==
    ASSUME clock \in Nat, clock < LastSlot * Period
    PROVE  /\ Slot(clock) * Period <= clock
           /\ NextSlot \in Jobs
           /\ NextSlot * Period <= clock + Period
           /\ clock < NextSlot * Period
           /\ Until(NextSlot) = NextSlot * Period - clock /\ Until(NextSlot) \in 0..MaxDelay
<1>1. Period \in Nat /\ Period > 0 /\ Period <= MaxDelay /\ MaxDelay \in Nat
  OBVIOUS
<1>2. clock + Period \in Nat
  BY <1>1
<1>3. /\ Slot(clock) * Period <= clock
      /\ NextSlot \in Int /\ NextSlot * Period <= clock + Period
      /\ clock + Period < NextSlot * Period + Period
  BY <1>2, Slots DEF NextSlot
<1>4. NextSlot * Period \in Int /\ LastSlot * Period \in Int
  BY <1>1, <1>3
<1>5. 0 <= NextSlot
  <2>1. 0 * Period < NextSlot * Period
    BY <1>1, <1>3, <1>4
  <2>2. QED
    BY <1>3, <2>1, Multiples
<1>6. NextSlot <= LastSlot
  <2>1. CASE LastSlot < NextSlot
    <3>1. LastSlot * Period + Period <= NextSlot * Period
      BY <1>3, <2>1, Multiples
    <3>2. QED
      BY <1>1, <1>3, <1>4, <3>1
  <2>2. QED
    BY <1>3, <2>1
<1>7. Until(NextSlot) = NextSlot * Period - clock
  BY <1>1, <1>3, <1>4 DEF Until
<1>8. QED
  BY <1>1, <1>3, <1>4, <1>5, <1>6, <1>7

-----------------------------------------------------------------------------
(* The inductive invariant: a job that exists is at most one period ahead,  *)
(* and one that is ahead is pending and waits for its slot.                 *)

Ahead(s) == clock < s * Period

Waits(s) == job[s].state = "pending" /\ s * Period - clock <= job[s].due

Timing ==
    \A s \in Jobs : job[s].state # "absent" =>
        /\ s * Period <= clock + Period
        /\ Ahead(s) => Waits(s)

Clock == clock \in Nat /\ clock < LastSlot * Period

PeriodicInv == IInv /\ Clock /\ Timing /\ DoneHasSuccessor

\* What a row may become while the clock stands still: a job that waits for its slot
\* is left alone, and a new one is the running slot's, or waits for the next.
Moved(s) ==
    \/ job'[s] = job[s]
    \/ /\ job[s].state = "absent"
       /\ \/ job'[s] = Fresh(0) /\ s * Period <= clock
          \/ job'[s] = Fresh(Until(s)) /\ s = NextSlot
    \/ /\ job[s].state # "absent" /\ job'[s].state # "absent"
       /\ ~(job[s].state = "pending" /\ job[s].due > 0)

\* Such moves keep the invariant of time.
LEMMA MovedTiming ==
    ASSUME PeriodicInv, UNCHANGED clock, \A s \in Jobs : Moved(s)
    PROVE  Timing'
<1> SUFFICES ASSUME NEW s \in Jobs, job'[s].state # "absent"
             PROVE  /\ s * Period <= clock + Period
                    /\ Ahead(s) => Waits(s)'
  BY DEF Timing, Ahead
<1>1. Period \in Nat /\ clock \in Nat /\ s * Period \in Int /\ s \in Nat
  BY DEF PeriodicInv, Clock
<1>2. CASE job'[s] = job[s]
  BY <1>2 DEF PeriodicInv, Timing, Ahead, Waits
<1>3. CASE job'[s] = Fresh(0) /\ s * Period <= clock
  BY <1>1, <1>3 DEF Ahead
<1>4. CASE job'[s] = Fresh(Until(s)) /\ s = NextSlot
  BY <1>4, ArmedSlots DEF PeriodicInv, Clock, Waits, Fresh
<1>5. CASE job[s].state # "absent" /\ ~(job[s].state = "pending" /\ job[s].due > 0)
  <2>1. job[s].state = "pending" => job[s].due \in Int
    BY DEF PeriodicInv, IInv, Rows, Row
  <2>2. ~Ahead(s)
    BY <1>1, <1>5, <2>1 DEF PeriodicInv, Timing, Ahead, Waits
  <2>3. QED
    BY <1>1, <1>5, <2>2 DEF PeriodicInv, Timing, Ahead
<1>6. QED
  BY <1>2, <1>3, <1>4, <1>5 DEF Moved

\* Unless a job is done that was not, its successor needs no thought: rows are
\* never removed.
LEMMA MovedSuccessors ==
    ASSUME PeriodicInv, \A s \in Jobs : Moved(s),
           \A s \in Jobs : job'[s].state = "done" => job[s].state = "done"
    PROVE  DoneHasSuccessor'
<1>1. \A t \in Jobs : job[t].state # "absent" => job'[t].state # "absent"
  BY DEF Moved
<1>2. QED
  BY <1>1 DEF PeriodicInv, DoneHasSuccessor

-----------------------------------------------------------------------------
(* The steps of the workers.                                                *)

\* A poll moves jobs that may run, or that a lost worker left behind.
LEMMA PollKeeps ==
    ASSUME PeriodicInv, NEW w \in Workers, NEW lag \in Lags, UNCHANGED clock,
           (\E j \in Jobs : Claim(w, j, lag)) \/ Sweep(w, lag)
    PROVE  PeriodicInv'
<1>1. IInv'
  BY ClaimStep, SweepStep DEF PeriodicInv
<1>2. \A s \in Jobs :
         \/ Swept(lag)[s] = job[s]
         \/ Swept(lag)[s].state = "failed" /\ job[s].state = "running"
  BY DEF Swept, Exhausted, Expired, PeriodicInv, IInv, Rows, Row
<1>3. \A s \in Jobs : Moved(s) /\ (job'[s].state = "done" => job[s].state = "done")
  <2>1. CASE Sweep(w, lag)
    BY <1>2, <2>1 DEF Sweep, Moved
  <2>2. ASSUME NEW j \in Jobs, Claim(w, j, lag)
        PROVE  \A s \in Jobs : Moved(s) /\ (job'[s].state = "done" => job[s].state = "done")
    <3>1. /\ job'[j] = Leased(j, lag)
          /\ \A s \in Jobs \ {j} : job'[s] = Swept(lag)[s]
      BY <2>2, SweptRows DEF Claim, PeriodicInv
    <3>2. /\ job[j].state \in {"pending", "running"}
          /\ ~(job[j].state = "pending" /\ job[j].due > 0)
      <4>1. lag \in Nat /\ (job[j].state = "pending" => job[j].due \in Int)
        BY DEF Lags, PeriodicInv, IInv, Rows, Row
      <4>2. QED
        BY <2>2, <4>1 DEF Claim, Claimable, Expired
    <3>3. job'[j].state = "running"
      BY <3>1 DEF Leased
    <3>4. QED
      BY <1>2, <3>1, <3>2, <3>3 DEF Moved
  <2>3. QED
    BY <2>1, <2>2
<1>4. QED
  BY <1>1, <1>3, MovedTiming, MovedSuccessors DEF PeriodicInv, Clock

\* A renewal changes a lease, and other steps of a worker no row.
LEMMA WorkKeeps ==
    ASSUME PeriodicInv, NEW w \in Workers, NEW lag \in Lags, UNCHANGED clock,
           \/ Heartbeat(w, lag)
           \/ \E error \in Errors : HandlerReturns(w, error)
           \/ HeartStops(w)
           \/ Abandon(w)
    PROVE  PeriodicInv'
<1>1. IInv'
  BY HeartbeatStep, HandlerReturnsStep, HeartStopsStep, AbandonStep DEF PeriodicInv
<1>2. \A s \in Jobs : Moved(s) /\ (job'[s].state = "done" => job[s].state = "done")
  <2>1. CASE job' = job
    BY <2>1 DEF Moved
  <2>2. CASE Heartbeat(w, lag) /\ Holds(w, lag)
    <3>1. worker[w].job \in Jobs /\ job[worker[w].job].state = "running"
      BY <2>2 DEF Heartbeat, Holds, PeriodicInv, IInv, Claims
    <3>2. job' = [job EXCEPT ![worker[w].job].lease = Lease - lag]
      BY <2>2 DEF Heartbeat
    <3>3. job \in [Jobs -> Row] /\ job[worker[w].job] \in Row
      BY <3>1 DEF PeriodicInv, IInv, Rows
    <3>4. /\ job'[worker[w].job].state = "running"
          /\ \A s \in Jobs \ {worker[w].job} : job'[s] = job[s]
      BY <3>1, <3>2, <3>3 DEF Row
    <3>5. QED
      BY <3>1, <3>4 DEF Moved
  <2>3. QED
    BY <2>1, <2>2 DEF Heartbeat, HandlerReturns, HeartStops, Abandon
<1>3. QED
  BY <1>1, <1>2, MovedTiming, MovedSuccessors DEF PeriodicInv, Clock

\* A worker that starts seeds the slot that is running.
LEMMA StartKeeps ==
    ASSUME PeriodicInv, NEW w \in Workers, Start(w)
    PROVE  PeriodicInv'
<1>1. Idle \in Process /\ Idle.pc = "idle" /\ 0 \in 0..MaxDelay
  BY Bounds DEF Idle, Process, Errors
<1>2. Rows' /\ \A j \in Jobs : job'[j].attempts = job[j].attempts
  BY <1>1, EnqueuedRows DEF Start, PeriodicInv, IInv, Rows
<1>3. IInv'
  BY <1>1, <1>2, WorkerStep DEF Start, PeriodicInv
<1>4. \A s \in Jobs : Moved(s) /\ (job'[s].state = "done" => job[s].state = "done")
  BY ArmedSlots DEF Start, Enqueued, Moved, Fresh, PeriodicInv, Clock
<1>5. QED
  BY <1>3, <1>4, MovedTiming, MovedSuccessors DEF PeriodicInv, Clock, Start

\* An accepted result closes a job that has begun, and arms the slot after the
\* running one; a refused result changes no row.
LEMMA FinishKeeps ==
    ASSUME PeriodicInv, NEW w \in Workers, NEW lag \in Lags, FinishSweep(w, lag)
    PROVE  PeriodicInv'
<1>1. /\ NextSlot \in Jobs /\ clock < NextSlot * Period
      /\ Until(NextSlot) \in 0..MaxDelay
  BY ArmedSlots DEF PeriodicInv, Clock
<1>2. IInv'
  BY <1>1, FinishStep DEF PeriodicInv, FinishSweep
<1>3. CASE ~Holds(w, lag)
  <2>1. job' = job
    BY <1>3 DEF FinishSweep, Finish
  <2>2. \A s \in Jobs : Moved(s) /\ (job'[s].state = "done" => job[s].state = "done")
    BY <2>1 DEF Moved
  <2>3. QED
    BY <1>2, <2>2, MovedTiming, MovedSuccessors DEF PeriodicInv, Clock, FinishSweep
<1>4. CASE Holds(w, lag)
  <2> DEFINE j == worker[w].job
             jobs == [job EXCEPT ![j] = Closed(@, worker[w].error, lag)]
  <2>1. worker[w].pc # "idle"
    BY DEF FinishSweep, Finish
  <2>2. /\ j \in Jobs
        /\ jobs[j].state \in {"done", "failed", "pending"}
        /\ \A k \in Jobs \ {j} : jobs[k] = job[k]
    BY <1>4, <2>1, ClosedRows DEF PeriodicInv
  <2>3. job' = Enqueued(jobs, {NextSlot}, Until(NextSlot))
    BY <1>4 DEF FinishSweep, Finish
  <2>4. job[j].state = "running"
    BY <1>4 DEF Holds
  <2> HIDE DEF jobs
  <2>5. \A s \in Jobs :
           job'[s] = IF s = NextSlot /\ jobs[s].state = "absent"
                     THEN Fresh(Until(NextSlot)) ELSE jobs[s]
    BY <2>3 DEF Enqueued
  <2>6. \A s \in Jobs : Moved(s)
    BY <2>2, <2>4, <2>5 DEF Moved
  <2>7. \A s \in Jobs : job'[s].state = "done" => s = j \/ job[s].state = "done"
    BY <2>2, <2>5 DEF Fresh
  <2>8. j < NextSlot
    <3>1. j \in Int /\ NextSlot \in Int /\ clock \in Int /\ j * Period \in Int
      BY <1>1, <2>2 DEF PeriodicInv, Clock
    <3>2. j * Period <= clock
      <4>1. Ahead(j) => Waits(j)
        BY <2>2, <2>4 DEF PeriodicInv, Timing
      <4>2. ~Waits(j)
        BY <2>4 DEF Waits
      <4>3. QED
        BY <3>1, <4>1, <4>2 DEF Ahead
    <3>3. NextSlot * Period \in Int
      BY <3>1
    <3>4. j * Period < NextSlot * Period
      BY <1>1, <3>1, <3>2, <3>3
    <3>5. QED
      BY <3>1, <3>4, Multiples
  <2>9. job'[NextSlot].state # "absent"
    BY <1>1, <2>5 DEF Fresh
  <2>10. \A t \in Jobs : job[t].state # "absent" => job'[t].state # "absent"
    BY <2>6 DEF Moved
  <2>11. DoneHasSuccessor'
    BY <1>1, <2>7, <2>8, <2>9, <2>10 DEF PeriodicInv, DoneHasSuccessor
  <2>12. QED
    BY <1>2, <2>6, <2>11, MovedTiming DEF PeriodicInv, Clock, FinishSweep
<1>5. QED
  BY <1>3, <1>4

\* When a second passes, a job that waits is due a second earlier.
LEMMA TimeKeeps ==
    ASSUME PeriodicInv, TimePasses
    PROVE  PeriodicInv'
<1>1. IInv'
  BY TickStep DEF TimePasses, PeriodicInv
<1>2. /\ clock \in Nat /\ clock' = clock + 1 /\ clock' < LastSlot * Period
      /\ Period \in Nat /\ MaxLag \in Nat
  BY DEF TimePasses, PeriodicInv, Clock
<1>3. \A s \in Jobs :
         /\ job'[s].state = job[s].state
         /\ job[s].state = "pending" => job'[s].due = Earlier(job[s].due)
  BY DEF TimePasses, Tick, PeriodicInv, IInv, Rows, Row
<1>4. ASSUME NEW s \in Jobs, job[s].state # "absent"
      PROVE  s * Period <= clock' + Period /\ (Ahead(s)' => Waits(s)')
  <2>1. s * Period \in Int /\ s * Period <= clock + Period /\ (Ahead(s) => Waits(s))
    BY <1>2, <1>4 DEF PeriodicInv, Timing
  <2>2. ASSUME Ahead(s)'
        PROVE  Waits(s)'
    <3>1. clock + 1 < s * Period
      BY <1>2, <2>2 DEF Ahead
    <3>2. Waits(s)
      BY <1>2, <2>1, <3>1 DEF Ahead
    <3>3. job[s].due \in Int /\ s * Period - clock <= job[s].due
      BY <3>2 DEF Waits, PeriodicInv, IInv, Rows, Row
    <3>4. Earlier(job[s].due) = job[s].due - 1
      BY <1>2, <2>1, <3>1, <3>3 DEF Earlier
    <3>5. job'[s].state = "pending" /\ job'[s].due = job[s].due - 1
      BY <1>3, <3>2, <3>4 DEF Waits
    <3>6. QED
      BY <1>2, <2>1, <3>3, <3>5 DEF Waits
  <2>3. QED
    BY <1>2, <2>1, <2>2
<1>5. Timing'
  BY <1>3, <1>4 DEF Timing
<1>6. DoneHasSuccessor'
  BY <1>3 DEF PeriodicInv, DoneHasSuccessor
<1>7. QED
  BY <1>1, <1>2, <1>5, <1>6 DEF PeriodicInv, Clock

\* Every step keeps the invariant.
LEMMA PeriodicInvNext == PeriodicInv /\ [PeriodicNext]_periodicVars => PeriodicInv'
<1> SUFFICES ASSUME PeriodicInv, [PeriodicNext]_periodicVars PROVE PeriodicInv'
  OBVIOUS
<1>1. ASSUME NEW w \in Workers, RunSweep(w)
      PROVE  PeriodicInv'
  <2>1. 0 \in Lags
    BY DEF Lags
  <2>2. QED
    BY <1>1, <2>1, PollKeeps, WorkKeeps, StartKeeps, FinishKeeps DEF RunSweep
<1>2. CASE UNCHANGED periodicVars
  BY <1>2 DEF periodicVars, queueVars, PeriodicInv, IInv, Rows, Claims, Distinct, Busy, Clock,
     Timing, Ahead, Waits, DoneHasSuccessor
<1>3. QED
  BY <1>1, <1>2, TimeKeeps DEF PeriodicNext

\* At first nothing is scheduled.
LEMMA PeriodicInvInit == PeriodicInit => PeriodicInv
<1> SUFFICES ASSUME PeriodicInit PROVE PeriodicInv
  OBVIOUS
<1>1. IInv
  BY IInvInit DEF PeriodicInit, Init
<1>2. \A s \in Jobs : job[s].state = "absent"
  BY DEF PeriodicInit, QueueInit, Absent
<1>3. Clock
  <2>1. LastSlot * Period > 0
    OBVIOUS
  <2>2. QED
    BY <2>1 DEF PeriodicInit, Clock
<1>4. QED
  BY <1>1, <1>2, <1>3 DEF PeriodicInv, Timing, DoneHasSuccessor

\* The invariant holds in every execution.
LEMMA SweepsSound == PeriodicSpec => []PeriodicInv
BY PeriodicInvInit, PeriodicInvNext, PTL DEF PeriodicSpec

\* Whoever reports a sweep, however late and after whatever crashes, a later slot is
\* armed in the same transaction.
THEOREM ChainGoesOn == PeriodicSpec => []DoneHasSuccessor
<1>1. PeriodicInv => DoneHasSuccessor
  BY DEF PeriodicInv
<1>2. QED
  BY <1>1, SweepsSound, PTL

\* Late runs, retries and several workers together arm one slot ahead at most, and
\* it does not run before it begins.
THEOREM SweepsDoNotPileUp == PeriodicSpec => []OneSweepAhead
<1>1. ASSUME PeriodicInv
      PROVE  OneSweepAhead
  <2>1. clock \in Nat /\ Period \in Nat /\ Jobs \subseteq Nat
    BY <1>1 DEF PeriodicInv, Clock
  <2>2. ASSUME NEW s \in Jobs, s > Slot(clock)
        PROVE  /\ s \in Int /\ s * Period \in Int /\ clock < s * Period
               /\ job[s].state # "absent" => s * Period <= clock + Period
               /\ job[s].state \in {"absent", "pending"}
    <3>1. Slot(clock) \in Int /\ clock < Slot(clock) * Period + Period
      BY <2>1, Slots
    <3>2. s \in Int /\ Slot(clock) * Period + Period <= s * Period
      BY <2>1, <2>2, <3>1, Multiples
    <3>3. s * Period \in Int /\ Slot(clock) * Period \in Int
      BY <2>1, <3>1, <3>2
    <3>4. clock < s * Period
      BY <2>1, <3>1, <3>2, <3>3
    <3>5. QED
      BY <1>1, <3>2, <3>3, <3>4 DEF PeriodicInv, Timing, Ahead, Waits
  <2>3. ASSUME NEW s \in Jobs, NEW t \in Jobs, s > Slot(clock), t > Slot(clock),
               job[s].state # "absent", job[t].state # "absent"
        PROVE  ~(s < t)
    <3>1. s < t => s * Period + Period <= t * Period
      BY <2>2, <2>3, Multiples
    <3>2. QED
      BY <2>1, <2>2, <2>3, <3>1
  <2>4. QED
    BY <2>1, <2>2, <2>3 DEF OneSweepAhead
<1>2. QED
  BY <1>1, SweepsSound, PTL

=============================================================================
