------------------------------ MODULE JobContract ------------------------------
(***************************************************************************)
(* What the job table promises to those who enqueue work, without leases   *)
(* and clocks.  A job is tried at most MaxAttempts times; each try belongs *)
(* to one worker; only the worker of the latest try settles the job; and a *)
(* settled job stays settled.  A try may be taken over at any time: the    *)
(* queue delivers at least once, and says nothing of overlapping handlers. *)
(***************************************************************************)
EXTENDS Integers

CONSTANTS Jobs, Workers, None, MaxAttempts

VARIABLES
    status,  \* status[j] of a job
    tries,   \* how often it was taken
    claim    \* claim[w]: the job and the number of the try w works on, or Free

Free == [job |-> None, try |-> 0]

Latest(w, j) == claim[w] = [job |-> j, try |-> tries[j]] /\ status[j] = "held"

Init ==
    /\ status = [j \in Jobs |-> "absent"]
    /\ tries = [j \in Jobs |-> 0]
    /\ claim = [w \in Workers |-> Free]

\* Jobs are added in groups: a transaction may enqueue several.
AddedTo(st, js) == [j \in Jobs |-> IF j \in js THEN "waiting" ELSE st[j]]

Absent == {j \in Jobs : status[j] = "absent"}

Add(js) ==
    /\ js \subseteq Absent
    /\ status' = AddedTo(status, js)
    /\ UNCHANGED <<tries, claim>>

\* A poll gives up jobs whose last try was lost, and may take one job over.
GivenUp(js) == [j \in Jobs |-> IF j \in js THEN "failed" ELSE status[j]]

Lost == {j \in Jobs : status[j] = "held" /\ tries[j] = MaxAttempts}

Poll(w) ==
    \E js \in SUBSET Lost :
        \/ /\ status' = GivenUp(js)
           /\ UNCHANGED <<tries, claim>>
        \/ /\ claim[w] = Free
           /\ \E j \in Jobs \ js :
                 /\ status[j] \in {"waiting", "held"}
                 /\ tries[j] < MaxAttempts
                 /\ status' = [GivenUp(js) EXCEPT ![j] = "held"]
                 /\ tries' = [tries EXCEPT ![j] = @ + 1]
                 /\ claim' = [claim EXCEPT ![w] = [job |-> j, try |-> tries'[j]]]

\* The worker of the latest try settles its job or hands it back, and may enqueue
\* follow-up jobs with it.
Settle(w, outcome) ==
    \E j \in Jobs, js \in SUBSET Absent :
        /\ Latest(w, j)
        /\ outcome = "waiting" => tries[j] < MaxAttempts
        /\ status' = AddedTo([status EXCEPT ![j] = outcome], js)
        /\ claim' = [claim EXCEPT ![w] = Free]
        /\ UNCHANGED tries

\* A worker stops, or learns that its try is not the latest.
Drop(w) ==
    /\ claim[w] # Free
    /\ claim' = [claim EXCEPT ![w] = Free]
    /\ UNCHANGED <<status, tries>>

Next ==
    \/ \E js \in SUBSET Absent : Add(js)
    \/ \E w \in Workers :
          \/ Poll(w)
          \/ \E outcome \in {"done", "failed", "waiting"} : Settle(w, outcome)
          \/ Drop(w)

Spec == Init /\ [][Next]_<<status, tries, claim>>

=============================================================================
