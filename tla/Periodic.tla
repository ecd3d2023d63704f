------------------------------- MODULE Periodic -------------------------------
(***************************************************************************)
(* The periodic sweep (PERIODIC, schedule and main in app/worker.py) on    *)
(* top of the job table.  Time is cut into slots of Period seconds; the    *)
(* dedupe key of a sweep holds its slot, so a job of this module is the    *)
(* slot it was scheduled for.  A worker seeds the current slot when it     *)
(* starts, and each accepted result arms the slot one period ahead.        *)
(***************************************************************************)
EXTENDS JobQueue

CONSTANTS
    Period,   \* seconds of a slot (3600 in the code)
    LastSlot  \* bound on time: the last slot that can be armed

ASSUME PeriodicAssumption ==
    /\ Period \in 1..MaxDelay
    /\ LastSlot \in Nat \ {0}
    /\ Jobs = 0..LastSlot

VARIABLE clock  \* seconds since the first slot began

periodicVars == <<queueVars, clock>>

\* slot_start
Slot(now) == now \div Period

\* Seconds to the start of a slot, none if it has begun.
Until(s) == IF s * Period > clock THEN s * Period - clock ELSE 0

\* Mutant: the slot that is running is armed again.
NextSlot_Current == Slot(clock)

\* The slot an accepted result arms: utcnow() + period.
NextSlot == Slot(clock + Period)

\* main: seed the current slot, or find that its key is taken.
Start(w) ==
    /\ worker' = [worker EXCEPT ![w] = Idle]
    /\ job' = Enqueued(job, {Slot(clock)}, 0)
    /\ UNCHANGED clock

\* run_once, last transaction: close the run and arm the next slot together.
FinishSweep(w, lag) ==
    /\ Finish(w, lag, {NextSlot}, Until(NextSlot))
    /\ UNCHANGED clock

RunSweep(w) ==
    \/ /\ \/ \E lag \in Lags :
                \/ \E j \in Jobs : Claim(w, j, lag)
                \/ Sweep(w, lag)
                \/ Heartbeat(w, lag)
          \/ \E error \in Errors : HandlerReturns(w, error)
          \/ HeartStops(w)
          \/ Abandon(w)
       /\ UNCHANGED clock
    \/ Start(w)
    \/ \E lag \in Lags : FinishSweep(w, lag)

TimePasses ==
    /\ clock + 1 < LastSlot * Period
    /\ Tick
    /\ clock' = clock + 1

PeriodicInit == QueueInit /\ clock = 0
PeriodicNext == TimePasses \/ \E w \in Workers : RunSweep(w)
PeriodicSpec == PeriodicInit /\ [][PeriodicNext]_periodicVars

-----------------------------------------------------------------------------
(* Properties.                                                              *)

Open(s) == job[s].state \in {"pending", "running"}

\* A finished sweep has a successor: whoever reports it, however late, a later
\* slot is armed, so the chain goes on without a restart.
DoneHasSuccessor ==
    \A s \in Jobs : job[s].state = "done" => \E t \in Jobs : t > s /\ job[t].state # "absent"

\* Sweeps do not pile up: late runs, retries and several workers together arm at
\* most one slot that has not begun, and none before it may run.
OneSweepAhead ==
    \A s, t \in Jobs :
        /\ (s > Slot(clock) /\ t > Slot(clock)
              /\ job[s].state # "absent" /\ job[t].state # "absent") => s = t
        /\ s > Slot(clock) => job[s].state \in {"absent", "pending"}

\* app/worker.py:22 and :114 on the sweeps: they run whether or not anyone uses the
\* system, and a crash does not lose the cadence.  Once one was scheduled, one is
\* open.
SweepScheduled ==
    (\E s \in Jobs : job[s].state # "absent") => \E s \in Jobs : Open(s)

=============================================================================
