----------------------------- MODULE ReviewDesk ------------------------------
(***************************************************************************)
(* A counselor's pages of one training task and of its submission          *)
(* (features/training: CounselorTaskPage, FeedbackPage, FeedbackForm,      *)
(* AnnotationEditor, queries), with the server's part of their mutations,  *)
(* while another counselor goes on with the same task.                     *)
(*                                                                         *)
(* One tab shows one of the pages.  A form is incomplete or says           *)
(* something; what was drawn on the evidence is one set of markers.  A     *)
(* page that is left, or whose query failed, loses what was typed; what an *)
(* unmounted component asked for goes on without it.  A component mounted  *)
(* again waits for that request (bound of the model).                      *)
(***************************************************************************)
EXTENDS Naturals, FiniteSets

CONSTANTS
    Steps,       \* the steps of the task
    Unready,     \* a review that is not complete
    Notes,       \* identifiers of annotations
    MaxVersion,  \* bound on the version of the task
    MaxCalls,    \* bound on the requests under way at once
    Faults       \* bound on what the network does: "call", "fetch" fail

VARIABLES
    task,      \* the task at the server
    feedback,  \* the annotations that the feedback of the submission lists
    note,      \* note[n]: the annotations of the submission
    at,        \* the page that is shown
    data,      \* data[p]: what the query of page p has cached
    fetch,     \* what the server answered to a GET under way
    broken,    \* the last fetch failed
    form,      \* the state of the forms of the page
    call       \* call[k]: the request of mutation k

server == <<task, feedback, note>>
queries == <<data, fetch, broken>>
vars == <<server, at, queries, form, call>>

Pages == {"task", "submission"}
Mutations == {"review", "draw", "override", "cancel"}
PageOf(k) == IF k \in {"review", "draw"} THEN "submission" ELSE "task"

\* version and status of the task, and whether the submission has its feedback.
Row == [version: Nat, status: {"submitted", "completed", "changes_requested", "cancelled"},
        reviewed: BOOLEAN]
None == [version |-> 0, status |-> "submitted", reviewed |-> FALSE]

\* verdict: the steps to do again, none for "passed"; Unready without a message,
\* or when changes are requested of no step (valid).  notes: annotationIds.
\* The reasons on the page of the task only enable its buttons and are left out.
Form == [verdict: (SUBSET Steps) \cup {Unready}, notes: SUBSET Notes, marked: BOOLEAN]
NewForm == [verdict |-> Unready, notes |-> {}, marked |-> FALSE]

\* seen: the row that the page showed at the click.  made: the annotation of the
\* reply.  here: the component that asked is still mounted.
Call == [stage: {"none", "sent", "done", "failed"}, seen: Row,
         verdict: (SUBSET Steps) \cup {Unready}, notes: SUBSET Notes, made: SUBSET Notes,
         here: BOOLEAN]
Idle == [stage |-> "none", seen |-> None, verdict |-> Unready, notes |-> {}, made |-> {},
         here |-> FALSE]

Init ==
    /\ task = [version |-> 1, status |-> "submitted", reviewed |-> FALSE]
    /\ feedback = {}
    /\ note = [n \in Notes |-> "none"]
    /\ at = "submission"
    /\ data = [p \in Pages |-> None]
    /\ fetch = None
    /\ broken = FALSE
    /\ form = NewForm
    /\ call = [k \in Mutations |-> Idle]

-----------------------------------------------------------------------------
(* The pages.                                                               *)

Final(row) == row.status \in {"completed", "cancelled"}

\* The page shows its forms: FeedbackForm, or the two cards of the task.
Shown(p) ==
    /\ at = p /\ data[p] # None /\ ~broken
    /\ IF p = "submission" THEN ~data[p].reviewed ELSE ~Final(data[p])

\* The components of the page go, with what they hold.
Unmounted == [k \in Mutations |->
    IF PageOf(k) = at /\ call[k].stage # "none" THEN [call[k] EXCEPT !.here = FALSE] ELSE call[k]]

\* A link to the other page: a GET under way for this one is aborted.
Go(p) ==
    /\ p # at /\ at' = p
    /\ fetch' = None
    /\ broken' = FALSE
    /\ form' = NewForm
    /\ call' = Unmounted
    /\ UNCHANGED <<server, data>>

\* The conclusion, the steps and the message: enabled at all times.
Decide(verdict) ==
    /\ Shown("submission")
    /\ form' = [form EXCEPT !.verdict = verdict]
    /\ UNCHANGED <<server, at, queries, call>>

\* Placing and removing markers is disabled while they are being saved.
Mark(marked) ==
    /\ Shown("submission") /\ call["draw"] = Idle
    /\ form' = [form EXCEPT !.marked = marked]
    /\ UNCHANGED <<server, at, queries, call>>

\* The mutation takes what is rendered.
Send(k, request) ==
    /\ Shown(PageOf(k)) /\ call[k] = Idle
    /\ Cardinality({j \in Mutations : call[j] # Idle}) < MaxCalls
    /\ call' = [call EXCEPT ![k] = [request EXCEPT
           !.stage = "sent", !.seen = data[PageOf(k)], !.here = TRUE]]
    /\ UNCHANGED <<server, at, queries, form>>

SaveMarkers == form.marked /\ Send("draw", Idle)

SubmitReview ==
    /\ form.verdict # Unready
    /\ Send("review", [Idle EXCEPT !.verdict = form.verdict, !.notes = form.notes])

Order(k) == Send(k, Idle)

-----------------------------------------------------------------------------
(* The server.                                                              *)

\* Mutant: any version is accepted.
Permitted_AnyVersion(k) == TRUE

\* require_version
Permitted(k) == call[k].seen.version = task.version

Answer(k, stage, made) ==
    call' = [call EXCEPT ![k] = [Idle EXCEPT !.stage = stage, !.made = made, !.here = call[k].here]]

Reviewable == ~task.reviewed /\ task.status = "submitted" /\ task.version < MaxVersion
Orderable == ~Final(task) /\ task.version < MaxVersion

\* The row after a review with this verdict, after a command of the task's page.
AfterReview(verdict) ==
    [version |-> task.version + 1, reviewed |-> TRUE,
     status |-> IF verdict = {} THEN "completed" ELSE "changes_requested"]
AfterOrder(k) ==
    [task EXCEPT !.version = @ + 1, !.status = IF k = "cancel" THEN "cancelled" ELSE @]

\* Mutant: every draft is published, listed or not.
Publish_Drafts(notes) == [n \in Notes |-> IF note[n] = "draft" THEN "published" ELSE note[n]]

\* feedback_annotations: the listed drafts are published in the transaction of
\* the review.
Publish(notes) == [n \in Notes |-> IF n \in notes THEN "published" ELSE note[n]]

\* review
HandleReview ==
    /\ call["review"].stage = "sent"
    /\ IF Permitted("review") /\ Reviewable
       THEN /\ task' = AfterReview(call["review"].verdict)
            /\ feedback' = call["review"].notes
            /\ note' = Publish(call["review"].notes)
            /\ Answer("review", "done", {})
       ELSE Answer("review", "failed", {}) /\ UNCHANGED server
    /\ UNCHANGED <<at, queries, form>>

\* create_annotation, whatever has become of the submission.  An identifier not
\* used before stands for a random one; without one left the request fails.
HandleDraw ==
    /\ call["draw"].stage = "sent"
    /\ \/ \E n \in Notes :
             /\ note[n] = "none"
             /\ note' = [note EXCEPT ![n] = "draft"]
             /\ Answer("draw", "done", {n})
       \/ /\ \A n \in Notes : note[n] # "none"
          /\ Answer("draw", "failed", {})
          /\ UNCHANGED note
    /\ UNCHANGED <<task, feedback, at, queries, form>>

\* set_prompt_override, act with "cancel"
HandleOrder(k) ==
    /\ call[k].stage = "sent"
    /\ IF Permitted(k) /\ Orderable
       THEN task' = AfterOrder(k) /\ Answer(k, "done", {})
       ELSE Answer(k, "failed", {}) /\ UNCHANGED task
    /\ UNCHANGED <<feedback, note, at, queries, form>>

\* Another counselor, who draws nothing, does the same.
Colleague ==
    /\ \/ \E verdict \in SUBSET Steps : Reviewable /\ task' = AfterReview(verdict)
       \/ \E k \in {"override", "cancel"} : Orderable /\ task' = AfterOrder(k)
    /\ UNCHANGED <<feedback, note, at, queries, form, call>>

-----------------------------------------------------------------------------
(* Replies and queries.                                                     *)

LoseCall(k) ==
    /\ "call" \in Faults
    /\ call[k].stage \in {"sent", "done"}
    /\ Answer(k, "failed", {})
    /\ UNCHANGED <<server, at, queries, form>>

\* onCreated: the markers go, the new annotation is listed for the review.
Listed(f) == [f EXCEPT !.notes = @ \cup call["draw"].made, !.marked = FALSE]

\* onSuccess of the editor of markers, if it is still there.
Cleared(k) == IF k = "draw" /\ call[k].here THEN Listed(form) ELSE form

\* A success invalidates the query of the page, except for markers; nobody waits
\* for it.
Succeeded(k) ==
    /\ call[k].stage = "done"
    /\ form' = Cleared(k)
    /\ fetch' = IF k # "draw" /\ PageOf(k) = at THEN None ELSE fetch
    /\ call' = [call EXCEPT ![k] = Idle]
    /\ UNCHANGED <<server, at, data, broken>>

\* The form stays as it is, and is enabled again.
Failed(k) ==
    /\ call[k].stage = "failed"
    /\ call' = [call EXCEPT ![k] = Idle]
    /\ UNCHANGED <<server, at, queries, form>>

\* A GET is answered; one that finds what is shown tells nobody anything.
Fetch ==
    /\ fetch = None
    /\ data[at] # task \/ broken
    /\ fetch' = task
    /\ UNCHANGED <<server, at, data, broken, form, call>>

\* The forms go with a submission that is reviewed, and with a final task.
Arrive ==
    /\ fetch # None
    /\ data' = [data EXCEPT ![at] = fetch]
    /\ fetch' = None
    /\ broken' = FALSE
    /\ IF (IF at = "submission" THEN fetch.reviewed ELSE Final(fetch))
       THEN form' = NewForm /\ call' = Unmounted
       ELSE UNCHANGED <<form, call>>
    /\ UNCHANGED <<server, at>>

\* The page shows the error instead of what it has.
FetchFails ==
    /\ "fetch" \in Faults
    /\ fetch # None
    /\ fetch' = None
    /\ broken' = TRUE
    /\ form' = NewForm
    /\ call' = Unmounted
    /\ UNCHANGED <<server, at, data>>

-----------------------------------------------------------------------------

Next ==
    \/ \E p \in Pages : Go(p)
    \/ \E verdict \in (SUBSET Steps) \cup {Unready} : Decide(verdict)
    \/ \E marked \in BOOLEAN : Mark(marked)
    \/ SaveMarkers \/ SubmitReview
    \/ HandleReview \/ HandleDraw
    \/ \E k \in {"override", "cancel"} : Order(k) \/ HandleOrder(k)
    \/ Colleague
    \/ \E k \in Mutations : LoseCall(k) \/ Succeeded(k) \/ Failed(k)
    \/ Fetch \/ Arrive \/ FetchFails

Spec == Init /\ [][Next]_vars

-----------------------------------------------------------------------------
(* Properties.                                                              *)

TypeOK ==
    /\ task \in Row /\ feedback \in SUBSET Notes
    /\ note \in [Notes -> {"none", "draft", "published"}]
    /\ at \in Pages /\ data \in [Pages -> Row] /\ fetch \in Row /\ broken \in BOOLEAN
    /\ form \in Form
    /\ call \in [Mutations -> Call]

\* The counselor's click changes the task only as it was on the screen then;
\* with a review, in one step, the learner gets exactly the annotations that
\* were listed when it was sent, and none at any other time.
ReviewsSeen ==
    /\ \A k \in Mutations :
          (call[k].stage = "sent" /\ call'[k].stage = "done" /\ task' # task) =>
              task = call[k].seen
    /\ {n \in Notes : note'[n] = "published"} = feedback'

\* Every annotation whose saving was reported goes to the learner with the
\* review: "saved annotations are sent with this review" (FeedbackForm).
SavedIsSent ==
    [][(task'.reviewed /\ ~task.reviewed /\ call["review"].stage = "sent"
          /\ call'["review"].stage = "done") =>
              \A n \in Notes : note'[n] # "draft"]_vars

=============================================================================
