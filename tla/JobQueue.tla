------------------------------- MODULE JobQueue -------------------------------
(***************************************************************************)
(* The durable job table (infrastructure/jobs.py) and the workers that     *)
(* poll it (app/worker.py): leases with a token and an expiry, heartbeats, *)
(* retries with backoff, takeover after a crash.                           *)
(*                                                                         *)
(* Times are kept as the seconds left on the database clock, counted down  *)
(* by Tick, so that the model has no last moment.  Each transaction reads  *)
(* now() when it begins and may wait for a row lock before it acts: lag is *)
(* how old its now() is by then.  An expiry is therefore kept down to      *)
(* -MaxLag: a transaction of lag d still sees a lease with left > -d.      *)
(*                                                                         *)
(* claim and finish are one transaction each, with the row locked from the *)
(* test to the commit, so each is one action.  The token of a lease is a   *)
(* fresh uuid; it is named by the number of the attempt it was given for.  *)
(***************************************************************************)
EXTENDS Integers

CONSTANTS
    Jobs,         \* rows of the table, one per dedupe_key
    Workers,      \* worker processes
    None,
    MaxAttempts,  \* max_attempts (5 in the code)
    Lease,        \* lease_seconds
    MaxBackoff,   \* cap of the retry delay (60 in the code)
    MaxDelay,     \* bound on how far ahead a job is scheduled
    MaxLag        \* bound on the age of a transaction's now()

ASSUME QueueAssumption ==
    /\ None \notin Jobs
    /\ MaxAttempts \in Nat \ {0} /\ Lease \in Nat \ {0}
    /\ MaxLag \in 0..(Lease - 1)
    /\ MaxDelay \in Nat /\ MaxBackoff \in 1..MaxDelay

VARIABLES
    job,    \* job[j]: a row of jobs
    worker  \* worker[w]: a process in run_once, with its heartbeat thread

queueVars == <<job, worker>>

Lags == 0..MaxLag
Attempts == 0..MaxAttempts
Errors == {"none", "error", "UNKNOWN_HANDLER"}

Row == [state: {"absent", "pending", "running", "done", "failed"},
        attempts: Attempts, token: Attempts,
        lease: -MaxLag..Lease,      \* seconds left to lease_until
        due: -MaxLag..MaxDelay]     \* seconds left to next_run_at

Process == [pc: {"idle", "running", "returned"}, job: Jobs \cup {None},
            token: Attempts, heart: {"beating", "stopped"}, error: Errors]

Absent == [state |-> "absent", attempts |-> 0, token |-> 0, lease |-> 0, due |-> 0]
Idle == [pc |-> "idle", job |-> None, token |-> 0, heart |-> "stopped", error |-> "none"]

QueueInit ==
    /\ job = [j \in Jobs |-> Absent]
    /\ worker = [w \in Workers |-> Idle]

-----------------------------------------------------------------------------
(* The table.                                                               *)

Fresh(delay) ==
    [state |-> "pending", attempts |-> 0, token |-> 0, lease |-> 0, due |-> delay]

\* enqueue: insert, or leave the row that has the dedupe key.
Enqueued(jobs, js, delay) ==
    [j \in Jobs |-> IF j \in js /\ jobs[j].state = "absent"
                    THEN Fresh(delay)
                    ELSE jobs[j]]

Expired(j, lag) == job[j].state = "running" /\ job[j].lease <= -lag

\* Mutant: a lost last attempt is left as it is.
Exhausted_Never(j, lag) == FALSE

\* claim's first statement: a lost last attempt closes the job.
Exhausted(j, lag) == Expired(j, lag) /\ job[j].attempts = MaxAttempts

Swept(lag) ==
    [j \in Jobs |-> IF Exhausted(j, lag)
                    THEN [job[j] EXCEPT !.state = "failed", !.token = 0, !.lease = 0]
                    ELSE job[j]]

\* Mutant: any running job may be taken over.
Claimable_Running(j, lag) ==
    /\ job[j].attempts < MaxAttempts
    /\ \/ job[j].state = "pending" /\ job[j].due <= -lag
       \/ job[j].state = "running"

\* Mutant: attempts are not limited.
Claimable_Always(j, lag) ==
    (job[j].state = "pending" /\ job[j].due <= -lag) \/ Expired(j, lag)

\* Mutant: a job is taken before it is due.
Claimable_NotDue(j, lag) ==
    job[j].attempts < MaxAttempts /\ (job[j].state = "pending" \/ Expired(j, lag))

\* claim's second statement: due, or left behind by a lost worker.
Claimable(j, lag) ==
    /\ job[j].attempts < MaxAttempts
    /\ \/ job[j].state = "pending" /\ job[j].due <= -lag
       \/ Expired(j, lag)

\* Mutant: a takeover keeps the token of the lost worker.
Leased_SameToken(j, lag) ==
    [state |-> "running", attempts |-> job[j].attempts + 1,
     token |-> IF job[j].token = 0 THEN job[j].attempts + 1 ELSE job[j].token,
     lease |-> Lease - lag, due |-> job[j].due]

Leased(j, lag) ==
    [state |-> "running", attempts |-> job[j].attempts + 1,
     token |-> job[j].attempts + 1, lease |-> Lease - lag, due |-> job[j].due]

\* Mutant: the lease is recognised by its job alone.
Holds_AnyToken(w, lag) ==
    LET row == job[worker[w].job] IN row.state = "running" /\ row.lease > -lag

\* renew and finish: the row is still leased to this worker.
Holds(w, lag) ==
    LET row == job[worker[w].job] IN
        /\ row.state = "running"
        /\ row.token = worker[w].token
        /\ row.lease > -lag

\* The smaller of 2^n and the cap.
Backoff(n) == IF 2^n \in 1..MaxBackoff THEN 2^n ELSE MaxBackoff

Final(row, error) == row.attempts >= MaxAttempts \/ error = "UNKNOWN_HANDLER"

\* finish: the row after an accepted result.
Closed(row, error, lag) ==
    IF error = "none" THEN [row EXCEPT !.state = "done", !.token = 0, !.lease = 0]
    ELSE [row EXCEPT !.state = IF Final(row, error) THEN "failed" ELSE "pending",
                     !.token = 0, !.lease = 0, !.due = Backoff(row.attempts) - lag]

-----------------------------------------------------------------------------
(* The workers.                                                             *)

\* Any transaction of the application may enqueue a job.
Enqueue(j) ==
    /\ job[j].state = "absent"
    /\ job' = Enqueued(job, {j}, 0)
    /\ UNCHANGED worker

\* run_once, first transaction.
Claim(w, j, lag) ==
    /\ worker[w].pc = "idle"
    /\ Claimable(j, lag)
    /\ job' = [Swept(lag) EXCEPT ![j] = Leased(j, lag)]
    /\ worker' = [worker EXCEPT ![w] =
           [pc |-> "running", job |-> j, token |-> Leased(j, lag).token,
            heart |-> "beating", error |-> "none"]]

\* The same transaction when it finds no job it can lock: it still closes lost
\* ones.
Sweep(w, lag) ==
    /\ worker[w].pc = "idle"
    /\ \E j \in Jobs : Exhausted(j, lag)
    /\ job' = Swept(lag)
    /\ UNCHANGED worker

\* heartbeat: renew, and stop at the first refusal or exception.  The thread may
\* outlive the handler by the join timeout.
Heartbeat(w, lag) ==
    /\ worker[w].pc # "idle"
    /\ worker[w].heart = "beating"
    /\ IF Holds(w, lag)
       THEN job' = [job EXCEPT ![worker[w].job].lease = Lease - lag] /\ UNCHANGED worker
       ELSE worker' = [worker EXCEPT ![w].heart = "stopped"] /\ UNCHANGED job

HeartStops(w) ==
    /\ worker[w].heart = "beating"
    /\ worker' = [worker EXCEPT ![w].heart = "stopped"]
    /\ UNCHANGED job

\* The handler returns, raises, or there is none for the kind of the job.
HandlerReturns(w, error) ==
    /\ worker[w].pc = "running"
    /\ worker' = [worker EXCEPT ![w].pc = "returned", ![w].error = error]
    /\ UNCHANGED job

\* run_once, last transaction, with the jobs it enqueues when it is accepted.
Finish(w, lag, followUps, delay) ==
    /\ worker[w].pc = "returned"
    /\ job' = IF Holds(w, lag)
              THEN Enqueued([job EXCEPT ![worker[w].job] = Closed(@, worker[w].error, lag)],
                            followUps, delay)
              ELSE job
    /\ worker' = [worker EXCEPT ![w] = Idle]

\* The process is killed and started again, or its last transaction fails.
Abandon(w) ==
    /\ worker[w].pc # "idle"
    /\ worker' = [worker EXCEPT ![w] = Idle]
    /\ UNCHANGED job

Earlier(left) == IF left > -MaxLag THEN left - 1 ELSE left

\* One second passes.
Tick ==
    /\ job' = [j \in Jobs |->
           CASE job[j].state = "running" -> [job[j] EXCEPT !.lease = Earlier(@)]
             [] job[j].state = "pending" -> [job[j] EXCEPT !.due = Earlier(@)]
             [] OTHER -> job[j]]
    /\ UNCHANGED worker

-----------------------------------------------------------------------------

Run(w) ==
    \/ \E lag \in Lags :
          \/ \E j \in Jobs : Claim(w, j, lag)
          \/ Sweep(w, lag)
          \/ Heartbeat(w, lag)
          \/ Finish(w, lag, {}, 0)
    \/ \E error \in Errors : HandlerReturns(w, error)
    \/ HeartStops(w)
    \/ Abandon(w)

Init == QueueInit
Next == Tick \/ (\E j \in Jobs : Enqueue(j)) \/ \E w \in Workers : Run(w)
Spec == Init /\ [][Next]_queueVars

\* The main loop polls for ever, handlers return, results are reported and time
\* passes.  Nothing is assumed of heartbeats, of crashes, or of who wins a job.
Polls(w) == \E lag \in Lags : Sweep(w, lag) \/ \E j \in Jobs : Claim(w, j, lag)
Returns(w) == \E error \in Errors : HandlerReturns(w, error)
Reports(w) == \E lag \in Lags : Finish(w, lag, {}, 0)

Fairness ==
    /\ WF_queueVars(Tick)
    /\ \A w \in Workers : /\ WF_queueVars(Polls(w))
                          /\ WF_queueVars(Returns(w))
                          /\ WF_queueVars(Reports(w))

FairSpec == Spec /\ Fairness

-----------------------------------------------------------------------------
(* Properties.                                                              *)

\* Rows and processes are well formed; a row has a token exactly while running
\* (the CHECK constraint of the table).
TypeOK ==
    /\ job \in [Jobs -> Row]
    /\ worker \in [Workers -> Process]
    /\ \A j \in Jobs : job[j].state = "running" <=> job[j].token # 0

Busy(w, j) == worker[w].pc # "idle" /\ worker[w].job = j

\* A claim is given out once: of two workers busy with one job, at most one holds
\* its lease; the other can no longer renew or finish it (claim, renew, finish).
OneHolder ==
    \A j \in Jobs, v, w \in Workers :
        Busy(v, j) /\ Busy(w, j) /\ v # w =>
            \E u \in {v, w} : worker[u].token # job[j].token

\* The table and the workers as the contract sees them.
Status == [j \in Jobs |->
    IF job[j].state = "pending" THEN "waiting"
    ELSE IF job[j].state = "running" THEN "held"
    ELSE job[j].state]
Tries == [j \in Jobs |-> job[j].attempts]
ClaimOf == [w \in Workers |->
    IF worker[w].pc = "idle" THEN [job |-> None, try |-> 0]
    ELSE [job |-> worker[w].job, try |-> worker[w].token]]

Contract == INSTANCE JobContract WITH status <- Status, tries <- Tries, claim <- ClaimOf

\* The outcome of a job is that of its latest attempt, reported while it was
\* leased; a job is given up only after its last attempt, or for want of a
\* handler; a settled job stays settled.
KeepsContract == Contract!Spec

\* A takeover happens only when the lease has run out on the clock of the
\* transaction that takes over.
NoEarlyTakeover ==
    [][\A j \in Jobs :
         (job[j].state = "running" /\ job'[j].attempts > job[j].attempts) =>
             job[j].lease <= 0]_queueVars

\* Every job that is enqueued is settled in the end, whatever crashes.
EveryJobSettles ==
    \A j \in Jobs : job[j].state = "pending" ~> job[j].state \in {"done", "failed"}

=============================================================================
