-------------------------------- MODULE Training --------------------------------
(***************************************************************************)
(* The training tasks of one support case (modules/training/service.py):   *)
(* publishing an SOP revision creates its task, the learner works through  *)
(* the steps with evidence files, hands in, and a counselor passes the     *)
(* attempt or asks for named steps to be redone.                           *)
(*                                                                         *)
(* Every handler takes the row lock of the case before it reads anything   *)
(* it decides on (task_access(..., lock=True)) and holds it to the commit, *)
(* so it is one atomic action.  ifMatch is the version in the request's    *)
(* If-Match header.  Audit rows and notifications are append-only outputs  *)
(* no handler reads, and are left out.                                     *)
(***************************************************************************)
EXTENDS Sop, Sequences

CONSTANT MaxTaskVersion   \* bound on the writes to one task

VARIABLES
    task,        \* task[r]: the training_tasks row of revision r
    progress,    \* progress[r][i]: the step_progress row of step i
    submission,  \* submission[r][n]: the snapshot of attempt n
    feedback     \* feedback[r]: the feedback rows of the task

trainingVars == <<task, progress, submission, feedback>>
vars == <<fileVars, sopVars, trainingVars>>

Done == {"completed", "cancelled"}
Statuses == {"not_started", "in_progress", "paused", "submitted",
             "changes_requested"} \cup Done

Task == [status: Statuses \cup {"absent"}, version: Nat, prompt: {"default", "override"}]
StepProgress == [status: {"pending", "in_progress", "completed"}, files: SUBSET Files]
Feedback == [attempt: Nat, outcome: {"passed", "changes_requested"}, redo: SUBSET Steps]

NoTask == [status |-> "absent", version |-> 0, prompt |-> "default"]
Pending == [status |-> "pending", files |-> {}]
Untouched == [i \in Steps |-> Pending]

TrainingTypeOK ==
    /\ task \in [Revisions -> Task]
    /\ progress \in [Revisions -> [Steps -> StepProgress]]
    /\ submission \in [Revisions -> Seq([Steps -> StepProgress])]
    /\ feedback \in [Revisions -> SUBSET Feedback]

TrainingInit ==
    /\ task = [r \in Revisions |-> NoTask]
    /\ progress = [r \in Revisions |-> Untouched]
    /\ submission = [r \in Revisions |-> <<>>]
    /\ feedback = [r \in Revisions |-> {}]

-----------------------------------------------------------------------------
(* What the handlers read.                                                  *)

StepsOf(r) == 1..revision[r].content.len
Completed(r, i) == progress[r][i].status = "completed"
AllCompleted(r) == \A i \in StepsOf(r) : Completed(r, i)

\* Mutant: a completed step may be saved again.
IsCurrent_Any(r, i) == i \in StepsOf(r)

\* STEP_ORDER: the current step is the first one, in the order of the revision,
\* that is not completed.
IsCurrent(r, i) ==
    /\ i \in StepsOf(r)
    /\ ~Completed(r, i)
    /\ \A j \in StepsOf(r) : j < i => Completed(r, j)

Active(r) == task[r].status \notin Done \cup {"absent"}

\* Mutant: only a task somebody works on keeps the next one from being created.
HasActiveTask_Running == \E r \in Revisions : task[r].status = "in_progress"

\* ACTIVE_TASK_EXISTS
HasActiveTask == \E r \in Revisions : Active(r)

\* TRANSITIONS
Transition ==
    [ start           |-> [from |-> {"not_started"},                    to |-> "in_progress"],
      pause           |-> [from |-> {"in_progress"},                    to |-> "paused"],
      resume          |-> [from |-> {"paused", "changes_requested"},    to |-> "in_progress"],
      submit          |-> [from |-> {"in_progress"},                    to |-> "submitted"],
      request_changes |-> [from |-> {"submitted"},                      to |-> "changes_requested"],
      pass            |-> [from |-> {"submitted"},                      to |-> "completed"],
      cancel          |-> [from |-> Statuses \ Done,                    to |-> "cancelled"] ]

CanMove(r, command) == task[r].status \in Transition[command].from

\* Mutant: a status change that leaves the version as it was.
Write_SameVersion(r, status) == task' = [task EXCEPT ![r].status = status]

\* Every handler that writes the task or its progress counts its version up.
Write(r, status) ==
    /\ task[r].version < MaxTaskVersion
    /\ task' = [task EXCEPT ![r].status = status, ![r].version = @ + 1]

Untampered == UNCHANGED <<fileVars, sopVars>>

-----------------------------------------------------------------------------
(* The handlers.                                                            *)

\* create_for_publication
CreateTask(r) ==
    /\ ~HasActiveTask
    /\ task[r].status = "absent"
    /\ task' = [task EXCEPT ![r] = [status |-> "not_started", version |-> 1, prompt |-> "default"]]
    /\ progress' = [progress EXCEPT ![r] = Untouched]
    /\ UNCHANGED <<submission, feedback>>

\* Mutant: the revision is published and its task left for later.
Publish_NoTask(r, ifMatch) == PublishRevision(r, ifMatch) /\ UNCHANGED trainingVars

\* web/sop.py publish: the revision and its task, in one transaction.
Publish(r, ifMatch) == PublishRevision(r, ifMatch) /\ CreateTask(r)

\* action: start, pause and resume by the learner, cancel by a counselor.
TaskAction(r, command, ifMatch) ==
    /\ ifMatch = task[r].version
    /\ CanMove(r, command)
    /\ Write(r, Transition[command].to)
    /\ Untampered
    /\ UNCHANGED <<progress, submission, feedback>>

\* Mutant: a step that requires evidence is completed without any.
EvidenceGiven_Any(r, i, fs) == TRUE

\* EVIDENCE_REQUIRED
EvidenceGiven(r, i, fs) == i \in revision[r].content.evidence => fs # {}

\* update_progress: the learner saves the current step and its attachments.
\* The attachments must be ready, but are not linked yet.
UpdateProgress(r, i, status, fs, ifMatch) ==
    /\ ifMatch = task[r].version
    /\ task[r].status = "in_progress"
    /\ IsCurrent(r, i)
    /\ RequireFiles(fs, "task_evidence", r)
    /\ status = "completed" => EvidenceGiven(r, i, fs)
    /\ progress' = [progress EXCEPT ![r][i] = [status |-> status, files |-> fs]]
    /\ Write(r, task[r].status)
    /\ Untampered
    /\ UNCHANGED <<submission, feedback>>

\* The files a task's progress refers to, and those of one of its attempts.
Attached(r) == UNION {progress[r][i].files : i \in StepsOf(r)}
Evidence(r, n) == UNION {submission[r][n][i].files : i \in StepsOf(r)}

\* Mutant: only the latest attempt is kept.
AddAttempt_Replace(r) == [submission EXCEPT ![r] = <<progress[r]>>]

\* The next row of submissions.
AddAttempt(r) == [submission EXCEPT ![r] = Append(@, progress[r])]

\* submit: freeze the progress as the next attempt and link its files.
Submit(r, ifMatch) ==
    /\ ifMatch = task[r].version
    /\ AllCompleted(r)
    /\ CanMove(r, "submit")
    /\ RequireFiles(Attached(r), "task_evidence", r)
    /\ Write(r, "submitted")
    /\ submission' = AddAttempt(r)
    /\ LinkFiles(Attached(r), "submission", r, Len(submission[r]) + 1)
    /\ UNCHANGED <<asset, sopVars, progress, feedback>>

\* set_prompt_override
SetPromptOverride(r, ifMatch) ==
    /\ ifMatch = task[r].version
    /\ Active(r)
    /\ task[r].version < MaxTaskVersion
    /\ task' = [task EXCEPT ![r].prompt = "override", ![r].version = @ + 1]
    /\ Untampered
    /\ UNCHANGED <<progress, submission, feedback>>

\* FEEDBACK_EXISTS
HasFeedback(r, n) == \E f \in feedback[r] : f.attempt = n

\* Mutant: the rows of the steps to redo are removed.
Reset_Removed(r, redo) == [i \in Steps \ redo |-> progress[r][i]]

\* Mutant: the steps to keep are taken for the steps to redo.
Reset_Swapped(r, redo) == [i \in Steps |-> IF i \in redo THEN progress[r][i] ELSE Pending]

\* Mutant: the whole work is reset, not only the named steps.
Reset_Everything(r, redo) == IF redo = {} THEN progress[r] ELSE Untouched

\* The steps to redo start again, without their attachments.
Reset(r, redo) == [i \in Steps |-> IF i \in redo THEN Pending ELSE progress[r][i]]

Verdict(outcome) == IF outcome = "passed" THEN "pass" ELSE "request_changes"

\* review: feedback on the latest attempt; validate_feedback wants steps to redo
\* exactly when changes are requested.
Review(r, n, outcome, redo, ifMatch) ==
    /\ ifMatch = task[r].version
    /\ n \in 1..Len(submission[r])
    /\ ~HasFeedback(r, n)
    /\ n = Len(submission[r])
    /\ redo \subseteq StepsOf(r)
    /\ (outcome = "changes_requested") <=> (redo # {})
    /\ CanMove(r, Verdict(outcome))
    /\ Write(r, Transition[Verdict(outcome)].to)
    /\ feedback' = [feedback EXCEPT ![r] =
           @ \cup {[attempt |-> n, outcome |-> outcome, redo |-> redo]}]
    /\ progress' = [progress EXCEPT ![r] = Reset(r, redo)]
    /\ Untampered
    /\ UNCHANGED submission

\* web/files.py upload: evidence while its task is in progress, other files, which
\* belong to no task, at any time.
UploadEvidence(f, r) ==
    /\ task[r].status = "in_progress"
    /\ Upload(f, "task_evidence", r)
    /\ UNCHANGED <<sopVars, trainingVars>>

UploadMedia(f, purpose) ==
    /\ Upload(f, purpose, None)
    /\ UNCHANGED <<sopVars, trainingVars>>

-----------------------------------------------------------------------------

FileNext ==
    \E f \in Files :
        \/ \E purpose \in {"profile_material", "sop_media"} : UploadMedia(f, purpose)
        \/ \E r \in Revisions : UploadEvidence(f, r)
        \/ \E verdict \in {"ready", "rejected"} :
              ApplyScan(f, verdict) /\ UNCHANGED <<sopVars, trainingVars>>
        \/ DeleteFile(f, asset[f].version) /\ UNCHANGED <<sopVars, trainingVars>>

SopNext ==
    /\ \/ \E text \in Texts : SaveMatch(text, match.version)
       \/ ConfirmMatch(match.version)
       \/ \E p \in Plans, r \in Revisions : CreatePlan(p, r) \/ CreateRevision(p, r)
       \/ \E r \in Revisions, content \in Contents :
             SaveRevision(r, content, revision[r].version)
    /\ UNCHANGED trainingVars

TaskNext(r) ==
    LET version == task[r].version IN
        \/ Publish(r, revision[r].version)
        \/ \E command \in {"start", "pause", "resume", "cancel"} : TaskAction(r, command, version)
        \/ \E i \in Steps, status \in {"in_progress", "completed"}, fs \in SUBSET Files :
              UpdateProgress(r, i, status, fs, version)
        \/ Submit(r, version)
        \/ SetPromptOverride(r, version)
        \/ \E n \in 1..Len(submission[r]), outcome \in {"passed", "changes_requested"},
              redo \in SUBSET Steps : Review(r, n, outcome, redo, version)

Init == FilesInit /\ SopInit /\ TrainingInit
Next == FileNext \/ SopNext \/ \E r \in Revisions : TaskNext(r)
Spec == Init /\ [][Next]_vars

-----------------------------------------------------------------------------
(* Properties.                                                              *)

TypeOK == FilesTypeOK /\ SopTypeOK /\ TrainingTypeOK

\* A case never has two tasks under way, however publications, cancellations
\* and reviews follow each other (create_for_publication, transition).
OneActiveTask ==
    \A r1, r2 \in Revisions : Active(r1) /\ Active(r2) => r1 = r2

\* Publishing and creating the task is all or nothing: a revision has a task
\* exactly when it is published.
PublishedHasTask ==
    \A r \in Revisions : revision[r].state = "published" <=> task[r].status # "absent"

\* The evidence of every attempt, passed or not, stays readable: whatever is
\* redone, replaced or deleted later, its files are ready, belong to the task
\* and are linked to that attempt.
EvidenceKept ==
    \A r \in Revisions : \A n \in 1..Len(submission[r]) : \A f \in Evidence(r, n) :
        /\ Usable(f)
        /\ asset[f].task = r
        /\ \E l \in links : /\ l.asset = f /\ l.kind = "submission"
                            /\ l.rev = r /\ l.attempt = n

\* Every attempt was handed in complete: all steps completed, and with evidence
\* wherever the published revision requires it.
AttemptsComplete ==
    \A r \in Revisions : \A n \in 1..Len(submission[r]) : \A i \in StepsOf(r) :
        /\ submission[r][n][i].status = "completed"
        /\ i \in revision[r].content.evidence => submission[r][n][i].files # {}

FeedbackOn(r, n) == {f \in feedback[r] : f.attempt = n}
Latest(r) == Len(submission[r])
AwaitsReview(r) == Latest(r) > 0 /\ FeedbackOn(r, Latest(r)) = {}
Redo(r, n) == UNION {f.redo : f \in FeedbackOn(r, n)}

\* The history explains the status: each attempt but the latest was sent back
\* by exactly one feedback, a submitted task awaits the review of its latest
\* attempt, and a task is completed only by a feedback that passed the latest.
HistoryExplainsStatus ==
    \A r \in Revisions :
        /\ \A n \in 1..(Latest(r) - 1) :
              \E f \in FeedbackOn(r, n) :
                  FeedbackOn(r, n) = {f} /\ f.outcome = "changes_requested"
        /\ task[r].status = "submitted" => AwaitsReview(r)
        /\ AwaitsReview(r) => task[r].status \in {"submitted", "cancelled"}
        /\ task[r].status = "completed" <=> \E f \in feedback[r] : f.outcome = "passed"
        /\ task[r].status = "completed" =>
              \E f \in FeedbackOn(r, Latest(r)) : f.outcome = "passed"

\* What was passed is what was handed in: the progress of a completed task is
\* still the snapshot of its latest attempt.
PassedWorkIsTheAttempt ==
    \A r \in Revisions :
        task[r].status \in {"submitted", "completed"} =>
            Latest(r) > 0 /\ progress[r] = submission[r][Latest(r)]

\* Rework is confined to the steps the counselor named: between an attempt and
\* the next one, and while the rework is going on, no other step changes.
ReworkConfined ==
    \A r \in Revisions :
        /\ \A n \in 1..(Latest(r) - 1) : \A i \in Steps \ Redo(r, n) :
              submission[r][n + 1][i] = submission[r][n][i]
        /\ Latest(r) > 0 => \A i \in Steps \ Redo(r, Latest(r)) :
              progress[r][i] = submission[r][Latest(r)][i]

\* Steps are done in order: a step that is done while an earlier one is not
\* was accepted in an earlier attempt and not sent back since.
StepsInOrder ==
    \A r \in Revisions : \A i, j \in StepsOf(r) :
        (i < j /\ ~Completed(r, i) /\ progress[r][j].status # "pending") =>
            Latest(r) > 0 /\ j \notin Redo(r, Latest(r))

Work(r) == <<task[r].status, task[r].prompt, progress[r], submission[r], feedback[r]>>

\* A version names one state of a task, so that a write accepted under If-Match
\* was decided on what the client had seen; and a finished task never changes.
VersionsNameWork ==
    [][\A r \in Revisions : Work(r)' # Work(r) =>
         /\ task[r].version < task'[r].version
         /\ task[r].status \notin Done]_vars

\* What docs/proposals/architecture-v0.1/architecture.md:130 says of files: one
\* that is referred to cannot be deleted; here, from the progress of a task.
ReferencedFileKept ==
    \A r \in Revisions : Active(r) => \A f \in Attached(r) : asset[f].state # "deleted"

=============================================================================
