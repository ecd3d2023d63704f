---------------------------- MODULE TrainingProofs ----------------------------
(***************************************************************************)
(* What holds of Training for every set of files, revisions and plans,     *)
(* every bound on steps and versions: type correctness and the safety      *)
(* invariants of the case workflow; the numbers, versions and contents of  *)
(* revisions; and the history of a task, that the attempts and the         *)
(* feedback it has gathered explain its status and its progress.           *)
(*                                                                         *)
(* None of the properties of the history is inductive alone: that a rework *)
(* is confined needs that attempts are complete, that needs that completed *)
(* work has its evidence, and that needs that the steps of a task never    *)
(* change.                                                                 *)
(***************************************************************************)
EXTENDS Training, TLAPS

USE NoneAssumption, ContentsAssumption, MaxStepsAssumption

-----------------------------------------------------------------------------
(* The steps of one module leave the variables of the others alone, so the  *)
(* type invariant is kept module by module.                                 *)

\* Handlers of files keep the rows of files well formed.
LEMMA FileTypes ==
    ASSUME FilesTypeOK, NEW f \in Files
    PROVE  /\ \A purpose \in Purposes, r \in Revisions \cup {None} :
                 Upload(f, purpose, r) => FilesTypeOK'
           /\ \A verdict \in {"ready", "rejected"} : ApplyScan(f, verdict) => FilesTypeOK'
           /\ \A v : DeleteFile(f, v) => FilesTypeOK'
BY DEF FilesTypeOK, Upload, ApplyScan, DeleteFile, Asset, AssetStates, Purposes

\* Linking files that exist to an owner keeps the links well formed.
LEMMA LinkTypes ==
    ASSUME FilesTypeOK, NEW fs \in SUBSET Files, NEW r \in Revisions, NEW n \in Nat,
           NEW kind \in {"sop_revision", "submission"}, asset' = asset
    PROVE  LinkFiles(fs, kind, r, n) => FilesTypeOK'
BY DEF FilesTypeOK, LinkFiles, LinksOf, Link

\* What a draft may start from, or be saved as, is a content.
LEMMA ContentTypes ==
    ASSUME SopTypeOK, NEW p \in Plans
    PROVE  /\ EmptyContent \in Content
           /\ Bases(p) \subseteq Content
<1>1. EmptyContent \in Content
  BY DEF EmptyContent, Content
<1>2. ASSUME NEW b \in Revisions
      PROVE  revision[b].content \in Content
  BY DEF SopTypeOK, Revision
<1>3. QED
  BY <1>1, <1>2 DEF Bases, RevisionsOf

\* The editors of a match, of plans and of drafts keep their rows well formed.
LEMMA SopTypes ==
    ASSUME SopTypeOK, SopNext
    PROVE  SopTypeOK'
<1>0. match.version + 1 \in Nat
  BY DEF SopTypeOK, Match
<1>1. ASSUME NEW text \in Texts, SaveMatch(text, match.version)
      PROVE  SopTypeOK'
  <2>1. match' \in Match
    BY <1>0, <1>1 DEF SopTypeOK, SaveMatch, Match
  <2>2. QED
    BY <1>1, <2>1 DEF SopTypeOK, SaveMatch
<1>2. ASSUME ConfirmMatch(match.version)
      PROVE  SopTypeOK'
  <2>1. match' \in Match
    BY <1>0, <1>2 DEF SopTypeOK, ConfirmMatch, Match
  <2>2. QED
    BY <1>2, <2>1 DEF SopTypeOK, ConfirmMatch
<1>3. ASSUME NEW p \in Plans, NEW r \in Revisions, CreatePlan(p, r)
      PROVE  SopTypeOK'
  BY <1>3, ContentTypes DEF SopTypeOK, CreatePlan, Draft, Revision
<1>4. ASSUME NEW p \in Plans, NEW r \in Revisions, CreateRevision(p, r)
      PROVE  SopTypeOK'
  <2>1. PICK base \in Bases(p), n \in Numbers :
           revision' = [revision EXCEPT ![r] = Draft(p, n, base)]
    BY <1>4 DEF CreateRevision
  <2>2. Draft(p, n, base) \in Revision
    BY <2>1, ContentTypes DEF Draft, Revision, Numbers
  <2>3. revision' \in [Revisions -> Revision]
    BY <2>1, <2>2 DEF SopTypeOK
  <2>4. plan' \in [Plans -> Nat] /\ match' = match
    BY <1>4 DEF CreateRevision, SopTypeOK
  <2>5. QED
    BY <2>3, <2>4 DEF SopTypeOK
<1>5. ASSUME NEW r \in Revisions, NEW content \in Contents,
             SaveRevision(r, content, revision[r].version)
      PROVE  SopTypeOK'
  <2>1. content \in Content
    OBVIOUS
  <2>2. revision' \in [Revisions -> Revision]
    BY <1>5, <2>1 DEF SopTypeOK, SaveRevision, Revision
  <2>3. QED
    BY <1>5, <2>2 DEF SopTypeOK, SaveRevision
<1>6. QED
  BY <1>1, <1>2, <1>3, <1>4, <1>5 DEF SopNext

\* Publishing keeps the rows of revisions, plans and links well formed.
LEMMA PublishTypes ==
    ASSUME FilesTypeOK, SopTypeOK, NEW r \in Revisions, NEW v, PublishRevision(r, v)
    PROVE  FilesTypeOK' /\ SopTypeOK'
<1>1. revision[r].content.media \in SUBSET Files
  BY DEF SopTypeOK, Revision, Content
<1>2. FilesTypeOK'
  BY <1>1, LinkTypes DEF PublishRevision
<1>3. revision' \in [Revisions -> Revision]
  BY DEF PublishRevision, SopTypeOK, Revision
<1>4. ASSUME NEW p \in Plans
      PROVE  plan[p] + 1 \in Nat
  BY DEF SopTypeOK
<1>5. plan' \in [Plans -> Nat]
  <2>1. CASE revision[r].plan \in Plans
    BY <1>4, <2>1 DEF PublishRevision, SopTypeOK
  <2>2. CASE revision[r].plan \notin Plans
    <3>1. plan' = plan
      BY <2>2 DEF PublishRevision, SopTypeOK
    <3>2. QED
      BY <3>1 DEF SopTypeOK
  <2>3. QED
    BY <2>1, <2>2
<1>6. QED
  BY <1>2, <1>3, <1>5 DEF SopTypeOK, PublishRevision

\* A revision has at most MaxSteps steps, and what they refer to are files.
LEMMA StepTypes ==
    ASSUME SopTypeOK, TrainingTypeOK, NEW r \in Revisions
    PROVE  StepsOf(r) \subseteq Steps /\ Attached(r) \in SUBSET Files
<1>1. revision[r].content \in Content
  BY DEF SopTypeOK, Revision
<1>2. revision[r].content.len \in 0..MaxSteps
  BY <1>1 DEF Content
<1>3. StepsOf(r) \subseteq Steps
  BY <1>2 DEF StepsOf, Steps
<1>4. ASSUME NEW i \in Steps
      PROVE  progress[r][i].files \subseteq Files
  BY DEF TrainingTypeOK, StepProgress
<1>5. QED
  BY <1>3, <1>4 DEF Attached

\* The initial rows of a task are well formed.
LEMMA NewTaskTypes ==
    NoTask \in Task /\ Pending \in StepProgress /\ Untouched \in [Steps -> StepProgress]
BY DEF NoTask, Task, Statuses, Done, Pending, StepProgress, Untouched

\* Counting a version up under a status keeps the row of a task well formed.
LEMMA WriteTypes ==
    ASSUME TrainingTypeOK, NEW r \in Revisions, NEW status \in Statuses, Write(r, status)
    PROVE  task' \in [Revisions -> Task]
<1>1. task[r].version + 1 \in Nat
  BY DEF TrainingTypeOK, Task
<1>2. QED
  BY <1>1 DEF Write, TrainingTypeOK, Task

\* The handlers of a task keep its rows, attempts and feedback well formed.
LEMMA TaskTypes ==
    ASSUME TypeOK, NEW r \in Revisions, NEW v
    PROVE  /\ CreateTask(r) => TrainingTypeOK'
           /\ \A command \in {"start", "pause", "resume", "cancel"} :
                 TaskAction(r, command, v) => TrainingTypeOK'
           /\ \A i \in Steps, status \in {"in_progress", "completed"}, fs \in SUBSET Files :
                 UpdateProgress(r, i, status, fs, v) => TrainingTypeOK'
           /\ Submit(r, v) => TrainingTypeOK'
           /\ SetPromptOverride(r, v) => TrainingTypeOK'
           /\ \A n \in 1..Len(submission[r]), outcome \in {"passed", "changes_requested"},
                 redo \in SUBSET Steps : Review(r, n, outcome, redo, v) => TrainingTypeOK'
<1> USE DEF TypeOK
<1>1. CreateTask(r) => TrainingTypeOK'
  <2>1. [status |-> "not_started", version |-> 1, prompt |-> "default"] \in Task
    BY DEF Task, Statuses
  <2>2. QED
    BY <2>1, NewTaskTypes DEF CreateTask, TrainingTypeOK
<1>2. ASSUME NEW command \in {"start", "pause", "resume", "cancel"},
             TaskAction(r, command, v)
      PROVE  TrainingTypeOK'
  <2>1. Transition[command].to \in Statuses
    BY DEF Transition, Statuses, Done
  <2>2. task' \in [Revisions -> Task]
    BY <1>2, <2>1, WriteTypes DEF TaskAction
  <2>3. QED
    BY <1>2, <2>2 DEF TaskAction, TrainingTypeOK
<1>3. ASSUME NEW i \in Steps, NEW status \in {"in_progress", "completed"},
             NEW fs \in SUBSET Files, UpdateProgress(r, i, status, fs, v)
      PROVE  TrainingTypeOK'
  <2>1. task' \in [Revisions -> Task]
    BY <1>3, WriteTypes DEF UpdateProgress, Statuses
  <2>2. [status |-> status, files |-> fs] \in StepProgress
    BY DEF StepProgress
  <2>3. progress' \in [Revisions -> [Steps -> StepProgress]]
    BY <1>3, <2>2 DEF UpdateProgress, TrainingTypeOK
  <2>4. QED
    BY <1>3, <2>1, <2>3 DEF UpdateProgress, TrainingTypeOK
<1>4. ASSUME Submit(r, v)
      PROVE  TrainingTypeOK'
  <2>1. task' \in [Revisions -> Task]
    BY <1>4, WriteTypes DEF Submit, Statuses
  <2>2. Append(submission[r], progress[r]) \in Seq([Steps -> StepProgress])
    BY DEF TrainingTypeOK
  <2>3. submission' \in [Revisions -> Seq([Steps -> StepProgress])]
    BY <1>4, <2>2 DEF Submit, AddAttempt, TrainingTypeOK
  <2>4. QED
    BY <1>4, <2>1, <2>3 DEF Submit, TrainingTypeOK
<1>5. ASSUME SetPromptOverride(r, v)
      PROVE  TrainingTypeOK'
  <2>1. task[r].version + 1 \in Nat
    BY DEF TrainingTypeOK, Task
  <2>2. task' \in [Revisions -> Task]
    BY <1>5, <2>1 DEF SetPromptOverride, TrainingTypeOK, Task
  <2>3. QED
    BY <1>5, <2>2 DEF SetPromptOverride, TrainingTypeOK
<1>6. ASSUME NEW n \in 1..Len(submission[r]), NEW outcome \in {"passed", "changes_requested"},
             NEW redo \in SUBSET Steps, Review(r, n, outcome, redo, v)
      PROVE  TrainingTypeOK'
  <2>1. Transition[Verdict(outcome)].to \in Statuses
    BY DEF Verdict, Transition, Statuses, Done
  <2>2. task' \in [Revisions -> Task]
    BY <1>6, <2>1, WriteTypes DEF Review
  <2>3. Reset(r, redo) \in [Steps -> StepProgress]
    BY NewTaskTypes DEF Reset, TrainingTypeOK
  <2>4. progress' \in [Revisions -> [Steps -> StepProgress]]
    BY <1>6, <2>3 DEF Review, TrainingTypeOK
  <2>5. Len(submission[r]) \in Nat
    BY DEF TrainingTypeOK
  <2>6. [attempt |-> n, outcome |-> outcome, redo |-> redo] \in Feedback
    BY <2>5 DEF Feedback
  <2>7. feedback' \in [Revisions -> SUBSET Feedback]
    BY <1>6, <2>6 DEF Review, TrainingTypeOK
  <2>8. QED
    BY <1>6, <2>2, <2>4, <2>7 DEF Review, TrainingTypeOK
<1>7. QED
  BY <1>1, <1>2, <1>3, <1>4, <1>5, <1>6

\* Every step keeps the type invariant.
LEMMA NextTypes == TypeOK /\ [Next]_vars => TypeOK'
<1> SUFFICES ASSUME TypeOK, [Next]_vars PROVE TypeOK'
  OBVIOUS
<1>1. CASE FileNext
  <2>1. PICK f \in Files :
           \/ \E purpose \in {"profile_material", "sop_media"} : UploadMedia(f, purpose)
           \/ \E r \in Revisions : UploadEvidence(f, r)
           \/ \E verdict \in {"ready", "rejected"} :
                 ApplyScan(f, verdict) /\ UNCHANGED <<sopVars, trainingVars>>
           \/ DeleteFile(f, asset[f].version) /\ UNCHANGED <<sopVars, trainingVars>>
    BY <1>1 DEF FileNext
  <2>2. FilesTypeOK'
    BY <2>1, FileTypes DEF TypeOK, UploadMedia, UploadEvidence, Purposes
  <2>3. UNCHANGED <<sopVars, trainingVars>>
    BY <2>1 DEF UploadMedia, UploadEvidence
  <2>4. QED
    BY <2>2, <2>3 DEF TypeOK, SopTypeOK, TrainingTypeOK, sopVars, trainingVars
<1>2. CASE SopNext
  <2>1. UNCHANGED <<fileVars, trainingVars>>
    BY <1>2 DEF SopNext, SaveMatch, ConfirmMatch, CreatePlan, CreateRevision, SaveRevision
  <2>2. SopTypeOK'
    BY <1>2, SopTypes DEF TypeOK
  <2>3. QED
    BY <2>1, <2>2 DEF TypeOK, FilesTypeOK, TrainingTypeOK, fileVars, trainingVars
<1>3. ASSUME NEW r \in Revisions, TaskNext(r)
      PROVE  TypeOK'
  <2>1. CASE Publish(r, revision[r].version)
    <3>1. FilesTypeOK' /\ SopTypeOK'
      BY <2>1, PublishTypes DEF Publish, TypeOK
    <3>2. TrainingTypeOK'
      BY <2>1, TaskTypes DEF Publish
    <3>3. QED
      BY <3>1, <3>2 DEF TypeOK
  <2>2. CASE Submit(r, task[r].version)
    <3>1. TrainingTypeOK'
      BY <2>2, TaskTypes
    <3>2. Len(submission[r]) + 1 \in Nat
      BY DEF TypeOK, TrainingTypeOK
    <3>3. FilesTypeOK'
      BY <2>2, <3>2, StepTypes, LinkTypes DEF Submit, TypeOK
    <3>4. QED
      BY <2>2, <3>1, <3>3 DEF Submit, TypeOK, SopTypeOK, sopVars
  <2>3. CASE TrainingTypeOK' /\ Untampered
    BY <2>3 DEF TypeOK, FilesTypeOK, SopTypeOK, Untampered, fileVars, sopVars
  <2>4. TaskNext(r) => \/ Publish(r, revision[r].version)
                       \/ Submit(r, task[r].version)
                       \/ TrainingTypeOK' /\ Untampered
    BY TaskTypes DEF TaskNext, TaskAction, UpdateProgress, SetPromptOverride, Review
  <2>5. QED
    BY <1>3, <2>1, <2>2, <2>3, <2>4
<1>4. CASE UNCHANGED vars
  BY <1>4 DEF TypeOK, FilesTypeOK, SopTypeOK, TrainingTypeOK,
              vars, fileVars, sopVars, trainingVars
<1>5. QED
  BY <1>1, <1>2, <1>3, <1>4 DEF Next

\* The initial rows are well formed.
LEMMA InitTypes == Init => TypeOK
<1> SUFFICES ASSUME Init PROVE TypeOK
  OBVIOUS
<1>1. FilesTypeOK
  BY DEF Init, FilesInit, FilesTypeOK, NoAsset, Asset, AssetStates, Purposes
<1>2. NoRevision \in Revision
  BY DEF NoRevision, Revision, EmptyContent, Content
<1>3. SopTypeOK
  BY <1>2 DEF Init, SopInit, SopTypeOK, Match, Texts
<1>4. TrainingTypeOK
  BY NewTaskTypes DEF Init, TrainingInit, TrainingTypeOK
<1>5. QED
  BY <1>1, <1>3, <1>4 DEF TypeOK

\* Type correctness: whatever sequence of requests, scans and reviews is served,
\* every row the handlers of a case leave behind is well formed.
THEOREM TypeCorrect == Spec => []TypeOK
BY InitTypes, NextTypes, PTL DEF Spec

-----------------------------------------------------------------------------
(* The workflow invariants.  What a step may do to the evidence is small:   *)
(* KeptByStep says it once, for all handlers, and the invariants about      *)
(* files, attempts and published revisions follow from it.                  *)

\* Only a task that exists has attempts; so the steps of its revision are fixed.
AttemptsHaveTask == \A r \in Revisions : Len(submission[r]) > 0 => task[r].status # "absent"

\* Links are never removed, a ready file that is linked is not touched, a
\* published revision is not touched, and a new attempt is the work of submit.
KeptByStep ==
    /\ links \subseteq links'
    /\ \A f \in Files : Usable(f) /\ InUse(f) => asset'[f] = asset[f]
    /\ \A r \in Revisions : revision[r].state = "published" => revision'[r] = revision[r]
    /\ \A r \in Revisions :
          submission'[r] # submission[r] => Submit(r, task[r].version)
    /\ \A r \in Revisions :
          revision'[r].state = "published" /\ revision[r].state # "published" =>
              Publish(r, revision[r].version)

\* No handler does otherwise.
LEMMA EveryStepKeeps == TypeOK /\ [Next]_vars => KeptByStep
<1> SUFFICES ASSUME TypeOK, [Next]_vars PROVE KeptByStep
  OBVIOUS
<1> USE DEF KeptByStep
<1>1. CASE FileNext
  <2>1. PICK f \in Files :
           \/ \E purpose \in {"profile_material", "sop_media"} : UploadMedia(f, purpose)
           \/ \E r \in Revisions : UploadEvidence(f, r)
           \/ \E verdict \in {"ready", "rejected"} :
                 ApplyScan(f, verdict) /\ UNCHANGED <<sopVars, trainingVars>>
           \/ DeleteFile(f, asset[f].version) /\ UNCHANGED <<sopVars, trainingVars>>
    BY <1>1 DEF FileNext
  <2>2. links' = links /\ UNCHANGED <<sopVars, trainingVars>>
    BY <2>1 DEF UploadMedia, UploadEvidence, Upload, ApplyScan, DeleteFile
  <2>3. ~(Usable(f) /\ InUse(f))
    BY <2>1 DEF UploadMedia, UploadEvidence, Upload, ApplyScan, DeleteFile, Usable
  <2>4. \A g \in Files : g # f => asset'[g] = asset[g]
    BY <2>1 DEF UploadMedia, UploadEvidence, Upload, ApplyScan, DeleteFile,
                TypeOK, FilesTypeOK
  <2>5. QED
    BY <2>2, <2>3, <2>4 DEF sopVars, trainingVars
<1>2. CASE SopNext
  <2>1. UNCHANGED <<fileVars, trainingVars>>
    BY <1>2 DEF SopNext, SaveMatch, ConfirmMatch, CreatePlan, CreateRevision, SaveRevision
  <2>2. \/ revision' = revision
        \/ \E r \in Revisions : /\ revision[r].state # "published"
                                /\ \E row : /\ row.state = "draft"
                                            /\ revision' = [revision EXCEPT ![r] = row]
    <3>1. ASSUME NEW p \in Plans, NEW r \in Revisions, CreatePlan(p, r) \/ CreateRevision(p, r)
          PROVE  /\ revision[r].state # "published"
                 /\ \E row : row.state = "draft" /\ revision' = [revision EXCEPT ![r] = row]
      BY <3>1 DEF CreatePlan, CreateRevision, Draft
    <3>2. ASSUME NEW r \in Revisions, NEW content \in Contents,
                 SaveRevision(r, content, revision[r].version)
          PROVE  /\ revision[r].state # "published"
                 /\ \E row : row.state = "draft" /\ revision' = [revision EXCEPT ![r] = row]
      <4>1. revision[r].state = "draft" /\ revision[r] \in Revision
        BY <3>2 DEF SaveRevision, TypeOK, SopTypeOK
      <4>2. revision' = [revision EXCEPT ![r] =
                [state |-> "draft", plan |-> revision[r].plan, number |-> revision[r].number,
                 version |-> revision[r].version + 1, content |-> content]]
        BY <3>2, <4>1 DEF SaveRevision, TypeOK, SopTypeOK, Revision
      <4>3. QED
        BY <4>1, <4>2
    <3>3. QED
      BY <1>2, <3>1, <3>2 DEF SopNext, SaveMatch, ConfirmMatch
  <2>3. \A r \in Revisions : /\ revision[r].state = "published" => revision'[r] = revision[r]
                             /\ revision'[r].state = "published" => revision[r].state = "published"
    BY <2>2 DEF TypeOK, SopTypeOK
  <2>4. links' = links /\ asset' = asset /\ submission' = submission
    BY <2>1 DEF fileVars, trainingVars
  <2>5. QED
    BY <2>3, <2>4
<1>3. ASSUME NEW r \in Revisions, TaskNext(r)
      PROVE  KeptByStep
  <2>1. CASE Publish(r, revision[r].version)
    BY <2>1 DEF Publish, PublishRevision, Publishable, LinkFiles, CreateTask, TypeOK, SopTypeOK
  <2>2. CASE Submit(r, task[r].version)
    BY <2>2 DEF Submit, LinkFiles, AddAttempt, sopVars, TypeOK, TrainingTypeOK
  <2>3. CASE Untampered /\ submission' = submission
    BY <2>3 DEF Untampered, fileVars, sopVars
  <2>4. QED
    BY <1>3, <2>1, <2>2, <2>3
       DEF TaskNext, TaskAction, UpdateProgress, SetPromptOverride, Review
<1>4. CASE UNCHANGED vars
  BY <1>4 DEF vars, fileVars, sopVars, trainingVars
<1>5. QED
  BY <1>1, <1>2, <1>3, <1>4 DEF Next

\* A case has at most one active task, a revision has a task exactly when it is
\* published, and only a task that exists has attempts.
TaskInv == OneActiveTask /\ PublishedHasTask /\ AttemptsHaveTask

\* Only an active task moves, and no command makes a task disappear.
LEMMA Moves ==
    ASSUME NEW r \in Revisions,
           NEW command \in {"start", "pause", "resume", "submit",
                            "request_changes", "pass", "cancel"}
    PROVE  Transition[command].to \in Statuses /\ (CanMove(r, command) => Active(r))
BY DEF Transition, CanMove, Active, Statuses, Done

\* A write that leaves every other task alone and keeps the row.
Touches(r) ==
    /\ Active(r)
    /\ task'[r].status # "absent"
    /\ \A q \in Revisions \ {r} : task'[q] = task[q]

\* Writing an active task under a status touches that task only.
LEMMA WriteTouches ==
    ASSUME TypeOK, NEW r \in Revisions, Active(r), NEW status \in Statuses, Write(r, status)
    PROVE  Touches(r) /\ task'[r].status = status
<1>1. status # "absent"
  BY DEF Statuses, Done
<1>2. task[r] \in Task
  BY DEF TypeOK, TrainingTypeOK
<1>3. task'[r].status = status
  BY <1>2 DEF Write, TypeOK, TrainingTypeOK, Task
<1>4. QED
  BY <1>1, <1>3 DEF Touches, Write, TypeOK, TrainingTypeOK

\* A step of a task that is not its publication touches that task only.
LEMMA TaskSteps ==
    ASSUME TypeOK, NEW r \in Revisions, TaskNext(r)
    PROVE  Publish(r, revision[r].version) \/ Touches(r)
<1>1. ASSUME NEW command \in {"start", "pause", "resume", "cancel"},
             TaskAction(r, command, task[r].version)
      PROVE  Touches(r)
  BY <1>1, Moves, WriteTouches DEF TaskAction
<1>2. ASSUME NEW i \in Steps, NEW status \in {"in_progress", "completed"},
             NEW fs \in SUBSET Files, UpdateProgress(r, i, status, fs, task[r].version)
      PROVE  Touches(r)
  <2>1. Active(r) /\ task[r].status \in Statuses
    BY <1>2 DEF UpdateProgress, Active, Statuses, Done
  <2>2. QED
    BY <1>2, <2>1, WriteTouches DEF UpdateProgress
<1>3. ASSUME Submit(r, task[r].version)
      PROVE  Touches(r)
  BY <1>3, Moves, WriteTouches DEF Submit, Statuses
<1>4. ASSUME SetPromptOverride(r, task[r].version)
      PROVE  Touches(r)
  <2>1. task[r] \in Task
    BY DEF TypeOK, TrainingTypeOK
  <2>2. Active(r) /\ task[r].status # "absent"
    BY <1>4 DEF SetPromptOverride, Active
  <2>3. task'[r].status = task[r].status
    BY <1>4, <2>1 DEF SetPromptOverride, TypeOK, TrainingTypeOK, Task
  <2>4. QED
    BY <1>4, <2>2, <2>3 DEF Touches, SetPromptOverride, TypeOK, TrainingTypeOK
<1>5. ASSUME NEW n \in 1..Len(submission[r]), NEW outcome \in {"passed", "changes_requested"},
             NEW redo \in SUBSET Steps, Review(r, n, outcome, redo, task[r].version)
      PROVE  Touches(r)
  BY <1>5, Moves, WriteTouches DEF Review, Verdict
<1>6. QED
  BY <1>1, <1>2, <1>3, <1>4, <1>5 DEF TaskNext

\* Every step keeps the invariant of tasks.
LEMMA TaskInvNext == TypeOK /\ TaskInv /\ [Next]_vars => TaskInv'
<1> SUFFICES ASSUME TypeOK, TaskInv, [Next]_vars PROVE TaskInv'
  OBVIOUS
<1>1. KeptByStep
  BY EveryStepKeeps
<1>2. ASSUME NEW r \in Revisions, Publish(r, revision[r].version)
      PROVE  TaskInv'
  <2>1. /\ \A q \in Revisions : ~Active(q)
        /\ task' = [task EXCEPT ![r] = [status |-> "not_started", version |-> 1, prompt |-> "default"]]
        /\ submission' = submission
    BY <1>2 DEF Publish, CreateTask, HasActiveTask
  <2>2. /\ \A q \in Revisions \ {r} : task'[q] = task[q] /\ revision'[q] = revision[q]
        /\ task'[r].status = "not_started" /\ revision'[r].state = "published"
    BY <1>2, <2>1 DEF Publish, PublishRevision, TypeOK, TrainingTypeOK, SopTypeOK, Revision
  <2>3. OneActiveTask'
    BY <2>1, <2>2 DEF OneActiveTask, Active
  <2>4. PublishedHasTask'
    BY <2>2 DEF TaskInv, PublishedHasTask
  <2>5. AttemptsHaveTask'
    BY <2>1, <2>2 DEF TaskInv, AttemptsHaveTask
  <2>6. QED
    BY <2>3, <2>4, <2>5 DEF TaskInv
<1>3. ASSUME \A r \in Revisions : ~Publish(r, revision[r].version)
      PROVE  TaskInv'
  <2>1. UNCHANGED task \/ \E r \in Revisions : Touches(r)
    BY <1>3, TaskSteps DEF Next, FileNext, SopNext, UploadMedia, UploadEvidence, vars, trainingVars
  <2>2. \A q \in Revisions : /\ Active(q)' => Active(q)
                             /\ task'[q].status = "absent" <=> task[q].status = "absent"
    BY <2>1 DEF Touches, Active
  <2>3. OneActiveTask'
    BY <2>2 DEF TaskInv, OneActiveTask
  <2>4. PublishedHasTask'
    BY <1>1, <1>3, <2>2 DEF TaskInv, PublishedHasTask, KeptByStep
  <2>5. ASSUME NEW r \in Revisions, Len(submission'[r]) > 0
        PROVE  task'[r].status # "absent"
    <3>1. CASE submission'[r] = submission[r]
      BY <2>2, <2>5, <3>1 DEF TaskInv, AttemptsHaveTask
    <3>2. CASE Submit(r, task[r].version)
      BY <2>2, <3>2, Moves DEF Submit, Active
    <3>3. QED
      BY <1>1, <3>1, <3>2 DEF KeptByStep
  <2>6. QED
    BY <2>3, <2>4, <2>5 DEF TaskInv, AttemptsHaveTask
<1>4. QED
  BY <1>2, <1>3

\* The invariant of tasks holds in every execution.
LEMMA TasksSound == Spec => []TaskInv
<1>1. Init => TaskInv
  BY DEF Init, SopInit, TrainingInit, NoRevision, NoTask, TaskInv, OneActiveTask,
         PublishedHasTask, AttemptsHaveTask, Active
<1>2. QED
  BY <1>1, TaskInvNext, TypeCorrect, PTL DEF Spec

\* A case never has two tasks under way, for any number of revisions.
THEOREM OneTaskAtATime == Spec => []OneActiveTask
<1>1. TaskInv => OneActiveTask
  BY DEF TaskInv
<1>2. QED
  BY <1>1, TasksSound, PTL

\* A revision has a task exactly when it is published.
THEOREM PublicationCreatesTask == Spec => []PublishedHasTask
<1>1. TaskInv => PublishedHasTask
  BY DEF TaskInv
<1>2. QED
  BY <1>1, TasksSound, PTL

-----------------------------------------------------------------------------
(* Files that history refers to.                                            *)

\* What submit requires of the files it freezes, and what it links.
LEMMA SubmitLinks ==
    ASSUME TypeOK, NEW r \in Revisions, NEW v, Submit(r, v), NEW f \in Attached(r)
    PROVE  /\ Usable(f) /\ asset[f].task = r
           /\ \E l \in links' : /\ l.asset = f /\ l.kind = "submission"
                                /\ l.rev = r /\ l.attempt = Len(submission[r]) + 1
<1>1. Usable(f) /\ asset[f].task = r
  BY DEF Submit, RequireFiles
<1> DEFINE l == [asset |-> f, kind |-> "submission", rev |-> r,
                 attempt |-> Len(submission[r]) + 1]
<1>2. l \in links'
  BY DEF Submit, LinkFiles, LinksOf
<1>3. QED
  BY <1>1, <1>2

\* The files of published revisions and of attempts are kept by every step:
\* the link protects them from delete, and nothing else moves a ready file.
FileInv == EvidenceKept /\ PublishedMediaKept

\* Every step keeps the invariant of files.
LEMMA FileInvNext == TypeOK /\ TaskInv /\ FileInv /\ [Next]_vars => FileInv'
<1> SUFFICES ASSUME TypeOK, TaskInv, FileInv, [Next]_vars PROVE FileInv'
  OBVIOUS
<1>1. KeptByStep
  BY EveryStepKeeps
<1>2. \A f \in Files : Usable(f) /\ InUse(f) => asset'[f] = asset[f]
  BY <1>1 DEF KeptByStep
<1>3. \A r \in Revisions : Len(submission[r]) > 0 => revision'[r] = revision[r]
  BY <1>1 DEF TaskInv, AttemptsHaveTask, PublishedHasTask, KeptByStep
<1>4. ASSUME NEW r \in Revisions, NEW n \in 1..Len(submission'[r]), NEW f \in Evidence(r, n)'
      PROVE  /\ Usable(f)' /\ asset'[f].task = r
             /\ \E l \in links' : /\ l.asset = f /\ l.kind = "submission"
                                  /\ l.rev = r /\ l.attempt = n
  <2>1. ASSUME n \in 1..Len(submission[r]), submission'[r][n] = submission[r][n]
        PROVE  /\ Usable(f)' /\ asset'[f].task = r
               /\ \E l \in links' : /\ l.asset = f /\ l.kind = "submission"
                                    /\ l.rev = r /\ l.attempt = n
    <3>1. f \in Evidence(r, n)
      BY <1>3, <2>1 DEF Evidence, StepsOf
    <3>2. PICK l \in links : /\ l.asset = f /\ l.kind = "submission"
                             /\ l.rev = r /\ l.attempt = n
      BY <2>1, <3>1 DEF FileInv, EvidenceKept
    <3>3. Usable(f) /\ InUse(f) /\ asset[f].task = r /\ f \in Files
      BY <2>1, <3>1, <3>2 DEF FileInv, EvidenceKept, InUse, TypeOK, FilesTypeOK, Link
    <3>4. asset'[f] = asset[f] /\ l \in links'
      BY <1>1, <1>2, <3>2, <3>3 DEF KeptByStep
    <3>5. QED
      BY <3>2, <3>3, <3>4 DEF Usable
  <2>2. CASE submission'[r] = submission[r]
    BY <2>1, <2>2
  <2>3. CASE Submit(r, task[r].version)
    <3>1. /\ submission'[r] = Append(submission[r], progress[r])
          /\ revision' = revision /\ asset' = asset
      BY <2>3 DEF Submit, AddAttempt, sopVars, TypeOK, TrainingTypeOK
    <3>2. submission[r] \in Seq([Steps -> StepProgress])
      BY DEF TypeOK, TrainingTypeOK
    <3>3. CASE n = Len(submission[r]) + 1
      <4>1. submission'[r][n] = progress[r]
        BY <3>1, <3>2, <3>3
      <4>2. f \in Attached(r)
        BY <3>1, <4>1 DEF Evidence, Attached, StepsOf
      <4>3. QED
        BY <2>3, <3>1, <3>3, <4>2, SubmitLinks DEF Usable
    <3>4. CASE n # Len(submission[r]) + 1
      <4>1. n \in 1..Len(submission[r]) /\ submission'[r][n] = submission[r][n]
        BY <3>1, <3>2, <3>4
      <4>2. QED
        BY <2>1, <4>1
    <3>5. QED
      BY <3>3, <3>4
  <2>4. QED
    BY <1>1, <2>2, <2>3 DEF KeptByStep
<1>5. ASSUME NEW r \in Revisions, revision'[r].state = "published",
             NEW f \in revision'[r].content.media
      PROVE  /\ Usable(f)'
             /\ \E l \in links' : l.asset = f /\ l.kind = "sop_revision" /\ l.rev = r
  <2>1. CASE revision[r].state = "published"
    <3>1. revision'[r] = revision[r]
      BY <1>1, <2>1 DEF KeptByStep
    <3>2. PICK l \in links : l.asset = f /\ l.kind = "sop_revision" /\ l.rev = r
      BY <1>5, <2>1, <3>1 DEF FileInv, PublishedMediaKept
    <3>3. Usable(f) /\ InUse(f) /\ f \in Files
      BY <1>5, <2>1, <3>1, <3>2
         DEF FileInv, PublishedMediaKept, InUse, TypeOK, FilesTypeOK, Link
    <3>4. asset'[f] = asset[f] /\ l \in links'
      BY <1>1, <1>2, <3>2, <3>3 DEF KeptByStep
    <3>5. QED
      BY <3>2, <3>3, <3>4 DEF Usable
  <2>2. CASE Publish(r, revision[r].version)
    <3>1. revision'[r].content = revision[r].content /\ asset' = asset
      BY <2>2 DEF Publish, PublishRevision, TypeOK, SopTypeOK, Revision
    <3>2. Usable(f)
      BY <1>5, <2>2, <3>1 DEF Publish, PublishRevision, RequireFiles
    <3> DEFINE l == [asset |-> f, kind |-> "sop_revision", rev |-> r, attempt |-> 0]
    <3>3. l \in links'
      BY <1>5, <2>2, <3>1 DEF Publish, PublishRevision, LinkFiles, LinksOf
    <3>4. QED
      BY <3>1, <3>2, <3>3 DEF Usable
  <2>3. QED
    BY <1>1, <1>5, <2>1, <2>2 DEF KeptByStep
<1>6. EvidenceKept'
  BY <1>4 DEF EvidenceKept
<1>7. PublishedMediaKept'
  BY <1>5 DEF PublishedMediaKept
<1>8. QED
  BY <1>6, <1>7 DEF FileInv

\* The invariant of files holds in every execution.
LEMMA FilesSound == Spec => []FileInv
<1>1. Init => FileInv
  BY DEF Init, SopInit, TrainingInit, NoRevision, FileInv, EvidenceKept, PublishedMediaKept
<1>2. QED
  BY <1>1, FileInvNext, TasksSound, TypeCorrect, PTL DEF Spec

\* The evidence of every attempt stays ready and linked for ever, whatever is
\* redone, replaced, scanned or deleted.
THEOREM EvidenceIsKept == Spec => []EvidenceKept
<1>1. FileInv => EvidenceKept
  BY DEF FileInv
<1>2. QED
  BY <1>1, FilesSound, PTL

\* And so do the media of every published revision.
THEOREM MediaAreKept == Spec => []PublishedMediaKept
<1>1. FileInv => PublishedMediaKept
  BY DEF FileInv
<1>2. QED
  BY <1>1, FilesSound, PTL

-----------------------------------------------------------------------------
(* Revisions and plans.                                                     *)

\* A row that does not exist holds nothing, and belongs to no plan.
AbsentIsBlank == \A r \in Revisions : revision[r].state = "absent" => revision[r] = NoRevision

\* A revision that exists belongs to a plan that exists.
PlansExist ==
    \A r \in Revisions : revision[r].state # "absent" =>
        revision[r].plan \in Plans /\ plan[revision[r].plan] > 0

\* A confirmed match was filled in.
ConfirmedIsFilled == match.state = "confirmed" => match.text = "filled"

RevisionInv ==
    AbsentIsBlank /\ PlansExist /\ ConfirmedIsFilled /\ RevisionsInOrder /\ PublishedComplete

\* A new draft of plan p, numbered above all of its revisions, none of which is
\* a draft itself.
Drafted(p, r, n, content) ==
    /\ n \in Nat /\ revision[r].state = "absent"
    /\ revision' = [revision EXCEPT ![r] = Draft(p, n, content)]
    /\ \A q \in RevisionsOf(p) : revision[q].number < n /\ revision[q].state # "draft"
    /\ plan' = [plan EXCEPT ![p] = @ + 1] /\ match' = match

\* The row of r is written, its version counted up, and stays in its place.
Rewritten(r) ==
    /\ revision[r].state = "draft"
    /\ \A q \in Revisions \ {r} : revision'[q] = revision[q]
    /\ revision'[r].plan = revision[r].plan /\ revision'[r].number = revision[r].number
    /\ revision'[r].state \in {"draft", "published"}
    /\ revision'[r].version = revision[r].version + 1
    /\ revision'[r].state = "published" =>
          Publishable(r) /\ revision'[r].content = revision[r].content
    /\ \A p \in Plans : plan[p] > 0 => plan'[p] > 0
    /\ match' = match

\* A match that is edited or confirmed was a draft, and is confirmed only when filled in.
MatchMoved ==
    /\ UNCHANGED <<plan, revision>>
    /\ match' = match \/ match.state # "confirmed"
    /\ match'.state = "confirmed" => match'.text = "filled"

\* A step does nothing else to plans and revisions.
LEMMA RevisionSteps ==
    ASSUME TypeOK, RevisionInv, [Next]_vars
    PROVE  \/ MatchMoved
           \/ \E r \in Revisions : Rewritten(r)
           \/ \E p \in Plans, r \in Revisions, n \in Nat, content \in Content :
                 Drafted(p, r, n, content)
<1>1. ASSUME NEW p \in Plans, NEW r \in Revisions, CreatePlan(p, r)
      PROVE  Drafted(p, r, 1, EmptyContent)
  <2>1. RevisionsOf(p) = {}
    BY <1>1, PlansAssumption
       DEF CreatePlan, RevisionsOf, RevisionInv, PlansExist, AbsentIsBlank, NoRevision
  <2>2. plan' = [plan EXCEPT ![p] = @ + 1]
    BY <1>1 DEF CreatePlan, TypeOK, SopTypeOK
  <2>3. QED
    BY <1>1, <2>1, <2>2 DEF CreatePlan, Drafted
<1>2. ASSUME NEW p \in Plans, NEW r \in Revisions, CreateRevision(p, r)
      PROVE  \E n \in Nat, content \in Content : Drafted(p, r, n, content)
  <2>1. PICK base \in Bases(p), n \in Numbers :
            NextNumber(p, n) /\ revision' = [revision EXCEPT ![r] = Draft(p, n, base)]
    BY <1>2 DEF CreateRevision
  <2>2. base \in Content /\ n \in Nat
    BY <2>1, ContentTypes DEF TypeOK, Numbers
  <2>3. \A q \in RevisionsOf(p) : revision[q].number < n /\ revision[q].state # "draft"
    BY <1>2, <2>1 DEF CreateRevision, HasDraft, NextNumber
  <2>4. QED
    BY <1>2, <2>1, <2>2, <2>3 DEF CreateRevision, Drafted
<1>3. ASSUME NEW r \in Revisions, NEW content \in Contents,
             SaveRevision(r, content, revision[r].version)
      PROVE  Rewritten(r)
  BY <1>3 DEF SaveRevision, Rewritten, TypeOK, SopTypeOK, Revision
<1>4. ASSUME NEW r \in Revisions, PublishRevision(r, revision[r].version)
      PROVE  Rewritten(r)
  <2>1. \A p \in Plans : plan[p] > 0 => plan'[p] > 0
    BY <1>4 DEF PublishRevision, TypeOK, SopTypeOK
  <2>2. QED
    BY <1>4, <2>1 DEF PublishRevision, Publishable, Rewritten, TypeOK, SopTypeOK, Revision
<1>5. ASSUME UNCHANGED sopVars
      PROVE  MatchMoved
  BY <1>5 DEF sopVars, MatchMoved, RevisionInv, ConfirmedIsFilled
<1>6. CASE FileNext
  BY <1>5, <1>6 DEF FileNext, UploadMedia, UploadEvidence
<1>7. CASE SopNext
  <2>1. ASSUME NEW text \in Texts, SaveMatch(text, match.version)
        PROVE  MatchMoved
    BY <2>1 DEF SaveMatch, MatchMoved, TypeOK, SopTypeOK, Match
  <2>2. ASSUME ConfirmMatch(match.version)
        PROVE  MatchMoved
    BY <2>2 DEF ConfirmMatch, MatchMoved, TypeOK, SopTypeOK, Match
  <2>3. EmptyContent \in Content
    BY MaxStepsAssumption DEF EmptyContent, Content
  <2>4. QED
    BY <1>1, <1>2, <1>3, <1>7, <2>1, <2>2, <2>3 DEF SopNext
<1>8. ASSUME NEW r \in Revisions, TaskNext(r)
      PROVE  MatchMoved \/ Rewritten(r)
  BY <1>4, <1>5, <1>8 DEF TaskNext, Publish, TaskAction, UpdateProgress, Submit,
     SetPromptOverride, Review, Untampered
<1>9. CASE UNCHANGED vars
  BY <1>5, <1>9 DEF vars
<1>10. QED
  BY <1>6, <1>7, <1>8, <1>9 DEF Next

\* Every step keeps the invariant of revisions.
LEMMA RevisionInvNext == TypeOK /\ RevisionInv /\ [Next]_vars => RevisionInv'
<1> SUFFICES ASSUME TypeOK, RevisionInv, [Next]_vars PROVE RevisionInv'
  OBVIOUS
<1> USE DEF RevisionInv
<1>1. CASE MatchMoved
  BY <1>1 DEF MatchMoved, AbsentIsBlank, PlansExist, ConfirmedIsFilled, RevisionsInOrder,
              PublishedComplete
<1>2. ASSUME NEW r \in Revisions, Rewritten(r)
      PROVE  RevisionInv'
  <2>1. AbsentIsBlank' /\ PlansExist' /\ ConfirmedIsFilled'
    BY <1>2 DEF Rewritten, AbsentIsBlank, PlansExist, ConfirmedIsFilled
  <2>2. \A q \in Revisions : /\ revision'[q].plan = revision[q].plan
                             /\ revision'[q].number = revision[q].number
                             /\ revision'[q].state = "draft" => revision[q].state = "draft"
    BY <1>2 DEF Rewritten
  <2>3. RevisionsInOrder'
    BY <2>2 DEF RevisionsInOrder
  <2>4. ASSUME Publishable(r)
        PROVE  match.text = "filled" /\ revision[r].content.len \in Steps
    BY <2>4 DEF Publishable, ConfirmedIsFilled, TypeOK, SopTypeOK, Revision, Content, Steps
  <2>5. PublishedComplete'
    BY <1>2, <2>4 DEF Rewritten, PublishedComplete, Publishable
  <2>6. QED
    BY <2>1, <2>3, <2>5
<1>3. ASSUME NEW p \in Plans, NEW r \in Revisions, NEW n \in Nat, NEW content \in Content,
             Drafted(p, r, n, content)
      PROVE  RevisionInv'
  <2>1. /\ revision'[r] = Draft(p, n, content)
        /\ \A q \in Revisions \ {r} : revision'[q] = revision[q]
    BY <1>3 DEF Drafted, TypeOK, SopTypeOK
  <2>2. /\ revision'[r].state = "draft" /\ revision'[r].plan = p
        /\ revision'[r].number = n
    BY <2>1 DEF Draft
  <2>3. AbsentIsBlank' /\ ConfirmedIsFilled' /\ PublishedComplete'
    BY <1>3, <2>1, <2>2 DEF Drafted, AbsentIsBlank, ConfirmedIsFilled, PublishedComplete
  <2>4. PlansExist'
    BY <1>3, <2>1, <2>2 DEF Drafted, PlansExist, TypeOK, SopTypeOK
  <2>5. \A q \in Revisions \ {r} : revision[q].plan = p =>
            revision[q].number < n /\ revision[q].state # "draft"
    BY <1>3 DEF Drafted, RevisionsOf
  <2>6. \A q \in Revisions : revision[q].number \in Nat
    BY DEF TypeOK, SopTypeOK, Revision
  <2>7. RevisionsInOrder'
    BY <2>1, <2>2, <2>5, <2>6 DEF RevisionsInOrder
  <2>8. QED
    BY <2>3, <2>4, <2>7
<1>4. QED
  BY <1>1, <1>2, <1>3, RevisionSteps

\* At first there is no revision, and the match is a draft.
LEMMA RevisionInvInit == Init => RevisionInv
BY NoneAssumption DEF Init, SopInit, NoRevision, RevisionInv, AbsentIsBlank, PlansExist,
   ConfirmedIsFilled, RevisionsInOrder, PublishedComplete

\* RevisionInv is an invariant of every execution.
LEMMA RevisionsSound == Spec => []RevisionInv
BY RevisionInvInit, RevisionInvNext, TypeCorrect, PTL DEF Spec

\* However plans are drafted, saved and published, the numbers of a plan's
\* revisions are the order they were published in.
THEOREM NumbersAreTheOrder == Spec => []RevisionsInOrder
<1>1. RevisionInv => RevisionsInOrder
  BY DEF RevisionInv
<1>2. QED
  BY <1>1, RevisionsSound, PTL

\* Nothing incomplete was ever published, nor in a case without a confirmed match.
THEOREM PublishedIsComplete == Spec => []PublishedComplete
<1>1. RevisionInv => PublishedComplete
  BY DEF RevisionInv
<1>2. QED
  BY <1>1, RevisionsSound, PTL

\* A revision changes only under a new version, and never once it is published.
THEOREM VersionsNameContent == Spec => RevisionVersionsNameContent
<1> DEFINE Kept == \A r \in Revisions :
        /\ revision[r]' # revision[r] => revision[r].version < revision[r].version'
        /\ revision[r].state = "published" => revision[r]' = revision[r]
<1>1. ASSUME TypeOK, RevisionInv, [Next]_vars
      PROVE  Kept
  <2>1. \A r \in Revisions : revision[r].version \in Nat
    BY <1>1 DEF TypeOK, SopTypeOK, Revision
  <2>2. CASE MatchMoved
    BY <2>2 DEF MatchMoved
  <2>3. ASSUME NEW r \in Revisions, Rewritten(r)
        PROVE  Kept
    BY <2>1, <2>3 DEF Rewritten
  <2>4. ASSUME NEW p \in Plans, NEW r \in Revisions, NEW n \in Nat, NEW content \in Content,
               Drafted(p, r, n, content)
        PROVE  Kept
    BY <1>1, <2>4 DEF Drafted, Draft, TypeOK, SopTypeOK, RevisionInv, AbsentIsBlank, NoRevision
  <2>5. QED
    BY <1>1, <2>2, <2>3, <2>4, RevisionSteps
<1>2. TypeOK /\ RevisionInv /\ [Next]_vars => [Kept]_revision
  BY <1>1
<1>3. QED
  BY <1>2, RevisionsSound, TypeCorrect, PTL DEF Spec, RevisionVersionsNameContent

-----------------------------------------------------------------------------
(* The history of one task.                                                 *)

\* A task that does not exist has no work, no attempt and no feedback.
NoHistory(r) ==
    task[r].status = "absent" =>
        task[r] = NoTask /\ progress[r] = Untouched /\ submission[r] = <<>> /\ feedback[r] = {}

\* Each feedback is on an attempt, and no attempt has two.
OnePerAttempt(r) ==
    \A f \in feedback[r] :
        /\ f.attempt \in 1..Latest(r)
        /\ \A g \in feedback[r] : g.attempt = f.attempt => g = f

\* A completed step has evidence if the revision requires it.
WorkHasEvidence(r) ==
    \A i \in StepsOf(r) :
        Completed(r, i) /\ i \in revision[r].content.evidence => progress[r][i].files # {}

\* AttemptsComplete, HistoryExplainsStatus, PassedWorkIsTheAttempt,
\* ReworkConfined and StepsInOrder, of one task.
CompleteAttempts(r) ==
    \A n \in 1..Latest(r) : \A i \in StepsOf(r) :
        /\ submission[r][n][i].status = "completed"
        /\ i \in revision[r].content.evidence => submission[r][n][i].files # {}

SentBack(r) ==
    \A n \in 1..(Latest(r) - 1) :
        \E f \in FeedbackOn(r, n) : FeedbackOn(r, n) = {f} /\ f.outcome = "changes_requested"

StatusExplained(r) ==
    /\ task[r].status = "submitted" => AwaitsReview(r)
    /\ AwaitsReview(r) => task[r].status \in {"submitted", "cancelled"}
    /\ task[r].status = "completed" <=> \E f \in feedback[r] : f.outcome = "passed"
    /\ task[r].status = "completed" => \E f \in FeedbackOn(r, Latest(r)) : f.outcome = "passed"

SameWork(r) ==
    task[r].status \in {"submitted", "completed"} =>
        Latest(r) > 0 /\ progress[r] = submission[r][Latest(r)]

PastRework(r) ==
    \A n \in 1..(Latest(r) - 1) : \A i \in Steps \ Redo(r, n) :
        submission[r][n + 1][i] = submission[r][n][i]

PresentRework(r) ==
    Latest(r) > 0 => \A i \in Steps \ Redo(r, Latest(r)) :
        progress[r][i] = submission[r][Latest(r)][i]

InOrder(r) ==
    \A i, j \in StepsOf(r) :
        (i < j /\ ~Completed(r, i) /\ progress[r][j].status # "pending") =>
            Latest(r) > 0 /\ j \notin Redo(r, Latest(r))

History(r) ==
    /\ NoHistory(r) /\ OnePerAttempt(r) /\ WorkHasEvidence(r)
    /\ CompleteAttempts(r) /\ SentBack(r) /\ StatusExplained(r)
    /\ SameWork(r) /\ PastRework(r) /\ PresentRework(r) /\ InOrder(r)

HistoryInv == \A r \in Revisions : History(r)

\* The rows of a task, and of its revision if there is a task, are left alone.
Same(r) ==
    /\ task'[r] = task[r] /\ progress'[r] = progress[r]
    /\ submission'[r] = submission[r] /\ feedback'[r] = feedback[r]
    /\ task[r].status # "absent" => revision'[r] = revision[r]

\* A handler of one task leaves the others alone, and other handlers leave all alone.
LEMMA OwnSteps ==
    ASSUME TypeOK, TaskInv, [Next]_vars, NEW r \in Revisions
    PROVE  Same(r) \/ TaskNext(r)
<1>1. task[r].status # "absent" => revision'[r] = revision[r]
  BY EveryStepKeeps DEF TaskInv, PublishedHasTask, KeptByStep
<1>2. CASE UNCHANGED trainingVars
  BY <1>1, <1>2 DEF trainingVars, Same
<1>3. ASSUME NEW q \in Revisions, TaskNext(q), q # r
      PROVE  Same(r)
  <2>1. /\ task'[r] = task[r] /\ progress'[r] = progress[r]
        /\ submission'[r] = submission[r] /\ feedback'[r] = feedback[r]
    BY <1>3 DEF TaskNext, Publish, CreateTask, TaskAction, UpdateProgress, Submit, AddAttempt,
       SetPromptOverride, Review, Write, TypeOK, TrainingTypeOK
  <2>2. QED
    BY <1>1, <2>1 DEF Same
<1>4. QED
  BY <1>2, <1>3 DEF Next, FileNext, SopNext, UploadMedia, UploadEvidence, vars

\* A task without any work has a sound history.
LEMMA FreshHistory ==
    ASSUME TypeOK', NEW r \in Revisions,
           task'[r].status \in {"absent", "not_started"},
           task'[r].status = "absent" => task'[r] = NoTask,
           progress'[r] = Untouched, submission'[r] = <<>>, feedback'[r] = {}
    PROVE  History(r)'
<1>1. Latest(r)' = 0
  BY DEF Latest
<1>2. \A i \in StepsOf(r)' : progress'[r][i].status = "pending"
  <2>1. revision'[r].content.len \in 0..MaxSteps
    BY DEF TypeOK, SopTypeOK, Revision, Content
  <2>2. StepsOf(r)' \subseteq Steps
    BY <2>1, MaxStepsAssumption DEF StepsOf, Steps
  <2>3. QED
    BY <2>2 DEF Untouched, Pending
<1>3. /\ NoHistory(r)' /\ OnePerAttempt(r)' /\ CompleteAttempts(r)' /\ SentBack(r)'
      /\ SameWork(r)' /\ PastRework(r)' /\ PresentRework(r)'
  BY <1>1 DEF NoHistory, OnePerAttempt, CompleteAttempts, SentBack, SameWork, PastRework,
     PresentRework
<1>4. StatusExplained(r)'
  BY <1>1 DEF StatusExplained, AwaitsReview, Latest
<1>5. WorkHasEvidence(r)' /\ InOrder(r)'
  BY <1>2 DEF WorkHasEvidence, InOrder, Completed
<1>6. QED
  BY <1>3, <1>4, <1>5 DEF History

\* Attempts and feedback that are left alone are as sound as they were.
LEMMA SameAttempts ==
    ASSUME NEW r \in Revisions, History(r), revision'[r] = revision[r],
           submission'[r] = submission[r], feedback'[r] = feedback[r]
    PROVE  /\ OnePerAttempt(r)' /\ CompleteAttempts(r)' /\ SentBack(r)' /\ PastRework(r)'
           /\ Latest(r)' = Latest(r) /\ AwaitsReview(r)' = AwaitsReview(r)
           /\ \A n : FeedbackOn(r, n)' = FeedbackOn(r, n) /\ Redo(r, n)' = Redo(r, n)
<1>1. Latest(r)' = Latest(r) /\ StepsOf(r)' = StepsOf(r)
  BY DEF Latest, StepsOf
<1>2. \A n : FeedbackOn(r, n)' = FeedbackOn(r, n)
  BY DEF FeedbackOn
<1>3. \A n : Redo(r, n)' = Redo(r, n)
  BY <1>2 DEF Redo
<1>4. AwaitsReview(r)' = AwaitsReview(r)
  BY <1>1, <1>2 DEF AwaitsReview
<1>5. OnePerAttempt(r)'
  BY <1>1 DEF History, OnePerAttempt
<1>6. CompleteAttempts(r)'
  BY <1>1 DEF History, CompleteAttempts
<1>7. SentBack(r)'
  BY <1>1, <1>2 DEF History, SentBack
<1>8. PastRework(r)'
  BY <1>1, <1>3 DEF History, PastRework
<1>9. QED
  BY <1>1, <1>2, <1>3, <1>4, <1>5, <1>6, <1>7, <1>8

\* And so is work that is left alone with them.
LEMMA SameProgress ==
    ASSUME NEW r \in Revisions, History(r), revision'[r] = revision[r],
           submission'[r] = submission[r], feedback'[r] = feedback[r],
           progress'[r] = progress[r]
    PROVE  WorkHasEvidence(r)' /\ PresentRework(r)' /\ InOrder(r)'
<1>1. /\ StepsOf(r)' = StepsOf(r)
      /\ \A i : Completed(r, i)' = Completed(r, i)
  BY DEF StepsOf, Completed
<1>2. WorkHasEvidence(r)'
  BY <1>1 DEF History, WorkHasEvidence
<1>3. PresentRework(r)'
  BY SameAttempts DEF History, PresentRework
<1>4. InOrder(r)'
  BY <1>1, SameAttempts DEF History, InOrder
<1>5. QED
  BY <1>2, <1>3, <1>4

\* A task whose work, attempts and feedback are left alone may change its status
\* as far as these explain it.
LEMMA SameWorkNewStatus ==
    ASSUME NEW r \in Revisions, History(r), revision'[r] = revision[r],
           submission'[r] = submission[r], feedback'[r] = feedback[r],
           progress'[r] = progress[r],
           \/ task'[r].status = task[r].status
           \/ /\ task[r].status # "completed"
              /\ \/ task'[r].status = "cancelled"
                 \/ /\ task'[r].status \in {"in_progress", "paused"}
                    /\ task[r].status \notin {"submitted", "cancelled"},
           task'[r].status = "absent" => task'[r] = task[r]
    PROVE  History(r)'
<1>1. NoHistory(r)'
  BY DEF History, NoHistory
<1>2. StatusExplained(r)'
  BY SameAttempts DEF History, StatusExplained
<1>3. SameWork(r)'
  BY SameAttempts DEF History, SameWork
<1>4. QED
  BY <1>1, <1>2, <1>3, SameAttempts, SameProgress DEF History

\* The history of a task that is left alone stays as it is.
LEMMA SameHistory ==
    ASSUME TypeOK', NEW r \in Revisions, History(r), Same(r)
    PROVE  History(r)'
<1>1. CASE task[r].status = "absent"
  <2>1. /\ task'[r] = NoTask /\ progress'[r] = Untouched
        /\ submission'[r] = <<>> /\ feedback'[r] = {}
    BY <1>1 DEF History, NoHistory, Same
  <2>2. QED
    BY <1>1, <2>1, FreshHistory DEF Same
<1>2. CASE task[r].status # "absent"
  <2>1. /\ task'[r] = task[r] /\ progress'[r] = progress[r]
        /\ submission'[r] = submission[r] /\ feedback'[r] = feedback[r]
        /\ revision'[r] = revision[r]
    BY <1>2 DEF Same
  <2>2. QED
    BY <2>1, SameWorkNewStatus
<1>3. QED
  BY <1>1, <1>2

\* A write under a status that is not absent leaves that status behind, and the
\* version one higher.
LEMMA Written ==
    ASSUME TypeOK, NEW r \in Revisions, NEW status, Write(r, status)
    PROVE  /\ task'[r].status = status /\ task'[r].prompt = task[r].prompt
           /\ task'[r].version = task[r].version + 1
BY DEF TypeOK, TrainingTypeOK, Task, Write

\* Publishing, the commands of a task and its prompt leave a sound history.
LEMMA CommandHistory ==
    ASSUME TypeOK, TypeOK', NEW r \in Revisions, History(r), NEW v
    PROVE  /\ Publish(r, v) => History(r)'
           /\ \A command \in {"start", "pause", "resume", "cancel"} :
                 TaskAction(r, command, v) => History(r)'
           /\ SetPromptOverride(r, v) => History(r)'
<1>1. ASSUME Publish(r, v)
      PROVE  History(r)'
  <2>1. submission'[r] = <<>> /\ feedback'[r] = {}
    BY <1>1 DEF Publish, CreateTask, History, NoHistory
  <2>2. task'[r].status = "not_started" /\ progress'[r] = Untouched
    BY <1>1 DEF Publish, CreateTask, TypeOK, TrainingTypeOK
  <2>3. QED
    BY <2>1, <2>2, FreshHistory
<1>2. ASSUME NEW command \in {"start", "pause", "resume", "cancel"}, TaskAction(r, command, v)
      PROVE  History(r)'
  <2>1. task'[r].status = Transition[command].to /\ task[r].status \in Transition[command].from
    BY <1>2, Written DEF TaskAction, CanMove
  <2>2. /\ revision' = revision /\ submission' = submission
        /\ feedback' = feedback /\ progress' = progress
    BY <1>2 DEF TaskAction, Untampered, sopVars
  <2>3. /\ task[r].status # "completed" /\ task'[r].status # "absent"
        /\ \/ task'[r].status = "cancelled"
           \/ /\ task'[r].status \in {"in_progress", "paused"}
              /\ task[r].status \notin {"submitted", "cancelled"}
    BY <2>1 DEF Transition, Statuses, Done
  <2>4. QED
    BY <2>2, <2>3, SameWorkNewStatus
<1>3. ASSUME SetPromptOverride(r, v)
      PROVE  History(r)'
  <2>1. task'[r].status = task[r].status /\ task[r].status # "absent"
    BY <1>3 DEF SetPromptOverride, Active, TypeOK, TrainingTypeOK, Task
  <2>2. /\ revision' = revision /\ submission' = submission
        /\ feedback' = feedback /\ progress' = progress
    BY <1>3 DEF SetPromptOverride, Untampered, sopVars
  <2>3. QED
    BY <2>1, <2>2, SameWorkNewStatus
<1>4. QED
  BY <1>1, <1>2, <1>3

\* Saving a step leaves a sound history: a step that can be saved is not completed,
\* so the latest attempt, where all are, was sent back for this step too.
LEMMA ProgressHistory ==
    ASSUME TypeOK, NEW r \in Revisions, History(r), NEW i \in Steps,
           NEW status \in {"in_progress", "completed"}, NEW fs \in SUBSET Files, NEW v,
           UpdateProgress(r, i, status, fs, v)
    PROVE  History(r)'
<1>1. /\ task[r].status = "in_progress" /\ task'[r].status = "in_progress"
      /\ revision'[r] = revision[r] /\ submission'[r] = submission[r]
      /\ feedback'[r] = feedback[r]
  BY Written DEF UpdateProgress, Untampered, sopVars
<1>2. /\ progress'[r][i] = [status |-> status, files |-> fs]
      /\ \A j \in Steps \ {i} : progress'[r][j] = progress[r][j]
  BY DEF UpdateProgress, TypeOK, TrainingTypeOK
<1>3. /\ i \in StepsOf(r) /\ ~Completed(r, i)
      /\ \A j \in StepsOf(r) : j < i => Completed(r, j)
  BY DEF UpdateProgress, IsCurrent
<1>4. StepsOf(r)' = StepsOf(r) /\ StepsOf(r) \subseteq Steps
  BY <1>1, StepTypes DEF StepsOf, TypeOK
<1>5. Latest(r) \in Nat
  BY DEF Latest, TypeOK, TrainingTypeOK
<1>6. NoHistory(r)'
  BY <1>1 DEF NoHistory
<1>7. WorkHasEvidence(r)'
  BY <1>1, <1>2, <1>4 DEF History, WorkHasEvidence, Completed, UpdateProgress, EvidenceGiven
<1>8. StatusExplained(r)'
  BY <1>1, SameAttempts DEF History, StatusExplained
<1>9. SameWork(r)'
  BY <1>1 DEF SameWork
<1>10. PresentRework(r)'
  <2>1. ASSUME Latest(r) > 0, i \notin Redo(r, Latest(r))
        PROVE  FALSE
    <3>1. progress[r][i] = submission[r][Latest(r)][i]
      BY <2>1 DEF History, PresentRework
    <3>2. submission[r][Latest(r)][i].status = "completed"
      BY <1>3, <1>5, <2>1 DEF History, CompleteAttempts
    <3>3. QED
      BY <1>3, <3>1, <3>2 DEF Completed
  <2>2. QED
    BY <1>1, <1>2, <2>1, SameAttempts DEF History, PresentRework
<1>11. InOrder(r)'
  <2>1. SUFFICES ASSUME NEW k \in StepsOf(r), NEW j \in StepsOf(r), k < j,
                        ~Completed(r, k)', progress'[r][j].status # "pending"
                 PROVE  Latest(r) > 0 /\ j \notin Redo(r, Latest(r))
    BY <1>1, <1>4, SameAttempts DEF InOrder
  <2>2. CASE j = i
    BY <1>2, <1>3, <1>4, <2>1, <2>2 DEF Completed, Steps
  <2>3. CASE j # i
    <3>1. ~Completed(r, k) /\ progress[r][j].status # "pending"
      BY <1>2, <1>3, <1>4, <2>1, <2>3 DEF Completed
    <3>2. QED
      BY <2>1, <3>1 DEF History, InOrder
  <2>4. QED
    BY <2>2, <2>3
<1>12. QED
  BY <1>1, <1>6, <1>7, <1>8, <1>9, <1>10, <1>11, SameAttempts DEF History

\* Handing in leaves a sound history: the work is in progress, so the attempt before
\* was sent back, and all that is handed in is completed.
LEMMA SubmitHistory ==
    ASSUME TypeOK, NEW r \in Revisions, History(r), NEW v, Submit(r, v)
    PROVE  History(r)'
<1> DEFINE L == Latest(r)
<1>1. /\ task[r].status = "in_progress" /\ task'[r].status = "submitted"
      /\ revision'[r] = revision[r] /\ progress'[r] = progress[r]
      /\ feedback'[r] = feedback[r]
  BY Written DEF Submit, CanMove, Transition, sopVars
<1>2. submission[r] \in Seq([Steps -> StepProgress]) /\ progress[r] \in [Steps -> StepProgress]
  BY DEF TypeOK, TrainingTypeOK
<1>3. submission'[r] = Append(submission[r], progress[r])
  BY DEF Submit, AddAttempt, TypeOK, TrainingTypeOK
<1>4. /\ L \in Nat /\ Latest(r)' = L + 1
      /\ submission'[r][L + 1] = progress[r]
      /\ \A n \in 1..L : submission'[r][n] = submission[r][n]
  BY <1>2, <1>3 DEF Latest
<1>5. /\ StepsOf(r)' = StepsOf(r) /\ StepsOf(r) \subseteq Steps
      /\ \A j : Completed(r, j)' = Completed(r, j)
      /\ \A n : FeedbackOn(r, n)' = FeedbackOn(r, n) /\ Redo(r, n)' = Redo(r, n)
  BY <1>1, StepTypes DEF StepsOf, TypeOK, FeedbackOn, Redo, Completed
<1>6. \A j \in StepsOf(r) : Completed(r, j)
  BY DEF Submit, AllCompleted
<1>7. FeedbackOn(r, L + 1) = {} /\ Redo(r, L + 1) = {}
  <2>1. \A f \in feedback[r] : f.attempt # L + 1
    BY <1>4 DEF History, OnePerAttempt
  <2>2. FeedbackOn(r, L + 1) = {}
    BY <2>1 DEF FeedbackOn
  <2>3. QED
    BY <2>2 DEF Redo
<1>8. NoHistory(r)' /\ WorkHasEvidence(r)'
  BY <1>1, <1>5 DEF NoHistory, History, WorkHasEvidence
<1>9. OnePerAttempt(r)'
  BY <1>1, <1>4 DEF History, OnePerAttempt
<1>10. CompleteAttempts(r)'
  <2>1. ASSUME NEW n \in 1..(L + 1), NEW j \in StepsOf(r)
        PROVE  /\ submission'[r][n][j].status = "completed"
               /\ j \in revision[r].content.evidence => submission'[r][n][j].files # {}
    <3>1. CASE n = L + 1
      BY <1>4, <1>6, <3>1 DEF History, WorkHasEvidence, Completed
    <3>2. CASE n \in 1..L
      BY <1>4, <3>2 DEF History, CompleteAttempts
    <3>3. QED
      BY <1>4, <3>1, <3>2
  <2>2. QED
    BY <1>1, <1>4, <1>5, <2>1 DEF CompleteAttempts
<1>11. SentBack(r)'
  <2>1. ASSUME NEW n \in 1..L
        PROVE  \E f \in FeedbackOn(r, n) :
                  FeedbackOn(r, n) = {f} /\ f.outcome = "changes_requested"
    <3>1. CASE n < L
      BY <1>4, <3>1 DEF History, SentBack
    <3>2. CASE n = L
      <4>1. PICK f \in FeedbackOn(r, n) : TRUE
        BY <1>1, <1>4, <3>2 DEF History, StatusExplained, AwaitsReview
      <4>2. FeedbackOn(r, n) = {f}
        BY <4>1 DEF History, OnePerAttempt, FeedbackOn
      <4>3. f.outcome = "changes_requested"
        BY <1>1, <4>1 DEF History, StatusExplained, FeedbackOn, TypeOK, TrainingTypeOK, Feedback
      <4>4. QED
        BY <4>1, <4>2, <4>3
    <3>3. QED
      BY <1>4, <3>1, <3>2
  <2>2. QED
    BY <1>4, <1>5, <2>1 DEF SentBack
<1>12. StatusExplained(r)'
  <2>1. AwaitsReview(r)'
    BY <1>4, <1>5, <1>7 DEF AwaitsReview
  <2>2. QED
    BY <1>1, <2>1 DEF History, StatusExplained
<1>13. SameWork(r)'
  BY <1>1, <1>4 DEF SameWork
<1>14. PastRework(r)'
  <2>1. ASSUME NEW n \in 1..L, NEW j \in Steps \ Redo(r, n)
        PROVE  submission'[r][n + 1][j] = submission'[r][n][j]
    <3>1. CASE n < L
      <4>1. n \in 1..(L - 1) /\ n + 1 \in 1..L
        BY <1>4, <3>1
      <4>2. QED
        BY <1>4, <4>1 DEF History, PastRework
    <3>2. CASE n = L
      BY <1>4, <3>2 DEF History, PresentRework
    <3>3. QED
      BY <1>4, <3>1, <3>2
  <2>2. QED
    BY <1>4, <1>5, <2>1 DEF PastRework
<1>15. PresentRework(r)'
  BY <1>1, <1>4 DEF PresentRework
<1>16. InOrder(r)'
  BY <1>5, <1>6 DEF InOrder
<1>17. QED
  BY <1>8, <1>9, <1>10, <1>11, <1>12, <1>13, <1>14, <1>15, <1>16 DEF History

\* A review leaves a sound history: it is the first of the latest attempt, which is
\* the work as it is, and it resets exactly the steps it names.
LEMMA ReviewHistory ==
    ASSUME TypeOK, NEW r \in Revisions, History(r), NEW n \in 1..Len(submission[r]),
           NEW outcome \in {"passed", "changes_requested"}, NEW redo \in SUBSET Steps, NEW v,
           Review(r, n, outcome, redo, v)
    PROVE  History(r)'
<1> DEFINE L == Latest(r)
<1> DEFINE verdict == [attempt |-> L, outcome |-> outcome, redo |-> redo]
<1>1. L \in Nat /\ n = L /\ L > 0 /\ FeedbackOn(r, L) = {}
  BY DEF Latest, TypeOK, TrainingTypeOK, Review, HasFeedback, FeedbackOn
<1>2. /\ task[r].status = "submitted"
      /\ task'[r].status = IF outcome = "passed" THEN "completed" ELSE "changes_requested"
      /\ revision'[r] = revision[r] /\ submission'[r] = submission[r]
  BY Written DEF Review, Verdict, CanMove, Transition, Untampered, sopVars
<1>3. feedback'[r] = feedback[r] \cup {verdict}
  BY <1>1 DEF Review, TypeOK, TrainingTypeOK
<1>4. \A j \in Steps : progress'[r][j] = IF j \in redo THEN Pending ELSE progress[r][j]
  BY DEF Review, Reset, TypeOK, TrainingTypeOK
<1>5. /\ StepsOf(r)' = StepsOf(r) /\ StepsOf(r) \subseteq Steps /\ Latest(r)' = L
  BY <1>2, StepTypes DEF StepsOf, Latest, TypeOK
<1>6. \A m : m # L => FeedbackOn(r, m)' = FeedbackOn(r, m)
  BY <1>3 DEF FeedbackOn
<1>7. FeedbackOn(r, L)' = {verdict}
  <2>1. verdict.attempt = L /\ \A f \in feedback[r] : f.attempt # L
    BY <1>1 DEF FeedbackOn
  <2>2. {f \in feedback[r] \cup {verdict} : f.attempt = L} = {verdict}
    BY <2>1
  <2>3. FeedbackOn(r, L)' = {f \in feedback'[r] : f.attempt = L}
    BY <1>5 DEF FeedbackOn
  <2>4. QED
    BY <1>3, <2>2, <2>3
<1>8. Redo(r, L)' = redo /\ Redo(r, L) = {} /\ \A m : m # L => Redo(r, m)' = Redo(r, m)
  BY <1>1, <1>6, <1>7 DEF Redo
<1>9. (outcome = "passed") <=> (redo = {})
  BY DEF Review
<1>10. progress[r] = submission[r][L]
  BY <1>2 DEF History, SameWork
<1>11. ~\E f \in feedback[r] : f.outcome = "passed"
  BY <1>2 DEF History, StatusExplained
<1>12. NoHistory(r)'
  BY <1>2 DEF NoHistory
<1>13. OnePerAttempt(r)'
  <2>1. \A f \in feedback[r] : f.attempt # L
    BY <1>1 DEF FeedbackOn
  <2>2. QED
    BY <1>1, <1>3, <1>5, <2>1 DEF History, OnePerAttempt
<1>14. WorkHasEvidence(r)'
  BY <1>2, <1>4, <1>5 DEF History, WorkHasEvidence, Completed, Pending
<1>15. CompleteAttempts(r)'
  BY <1>2, <1>5 DEF History, CompleteAttempts
<1>16. SentBack(r)'
  <2>1. \A m \in 1..(L - 1) : m # L
    BY <1>1
  <2>2. QED
    BY <1>5, <1>6, <2>1 DEF History, SentBack
<1>17. StatusExplained(r)'
  <2>1. ~AwaitsReview(r)' /\ task'[r].status # "submitted"
    BY <1>2, <1>5, <1>7 DEF AwaitsReview
  <2>2. (task'[r].status = "completed") <=> (outcome = "passed")
    BY <1>2
  <2>3. (\E f \in feedback'[r] : f.outcome = "passed") <=> (outcome = "passed")
    <3>1. verdict.outcome = outcome /\ verdict \in feedback'[r]
      BY <1>3
    <3>2. \A f \in feedback'[r] : f \in feedback[r] \/ f = verdict
      BY <1>3
    <3>3. QED
      BY <1>11, <3>1, <3>2
  <2>4. outcome = "passed" => \E f \in FeedbackOn(r, L)' : f.outcome = "passed"
    BY <1>7
  <2>5. QED
    BY <1>5, <2>1, <2>2, <2>3, <2>4 DEF StatusExplained
<1>18. SameWork(r)'
  <2>1. ASSUME task'[r].status \in {"submitted", "completed"}
        PROVE  progress'[r] = progress[r]
    <3>1. redo = {}
      BY <1>2, <1>9, <2>1
    <3>2. QED
      BY <3>1 DEF Review, Reset, TypeOK, TrainingTypeOK
  <2>2. QED
    BY <1>1, <1>2, <1>5, <1>10, <2>1 DEF SameWork
<1>19. PastRework(r)'
  <2>1. \A m \in 1..(L - 1) : Redo(r, m)' = Redo(r, m)
    BY <1>1, <1>8
  <2>2. QED
    BY <1>2, <1>5, <2>1 DEF History, PastRework
<1>20. PresentRework(r)'
  BY <1>2, <1>4, <1>5, <1>8, <1>10 DEF PresentRework
<1>21. InOrder(r)'
  <2>1. ASSUME NEW j \in StepsOf(r), progress'[r][j].status # "pending"
        PROVE  j \notin redo
    BY <1>4, <1>5, <2>1 DEF Pending
  <2>2. QED
    BY <1>1, <1>5, <1>8, <2>1 DEF InOrder
<1>22. QED
  BY <1>12, <1>13, <1>14, <1>15, <1>16, <1>17, <1>18, <1>19, <1>20, <1>21 DEF History

\* Every step keeps the history of every task.
LEMMA HistoryInvNext == TypeOK /\ TypeOK' /\ TaskInv /\ HistoryInv /\ [Next]_vars => HistoryInv'
<1> SUFFICES ASSUME TypeOK, TypeOK', TaskInv, HistoryInv, [Next]_vars, NEW r \in Revisions
             PROVE  History(r)'
  BY DEF HistoryInv
<1>1. History(r)
  BY DEF HistoryInv
<1>2. CASE Same(r)
  BY <1>1, <1>2, SameHistory
<1>3. CASE TaskNext(r)
  BY <1>1, <1>3, CommandHistory, ProgressHistory, SubmitHistory, ReviewHistory DEF TaskNext
<1>4. QED
  BY <1>2, <1>3, OwnSteps

\* At first there is no task.
LEMMA HistoryInvInit == Init => HistoryInv
<1> SUFFICES ASSUME Init, NEW r \in Revisions PROVE History(r)
  BY DEF HistoryInv
<1>1. /\ task[r].status = "absent" /\ task[r] = NoTask /\ progress[r] = Untouched
      /\ submission[r] = <<>> /\ feedback[r] = {} /\ Latest(r) = 0
  BY DEF Init, TrainingInit, NoTask, Latest
<1>2. StepsOf(r) = {}
  BY DEF Init, SopInit, NoRevision, EmptyContent, StepsOf
<1>3. /\ NoHistory(r) /\ OnePerAttempt(r) /\ CompleteAttempts(r) /\ SentBack(r)
      /\ SameWork(r) /\ PastRework(r) /\ PresentRework(r)
  BY <1>1 DEF NoHistory, OnePerAttempt, CompleteAttempts, SentBack, SameWork, PastRework,
     PresentRework
<1>4. StatusExplained(r)
  BY <1>1 DEF StatusExplained, AwaitsReview
<1>5. WorkHasEvidence(r) /\ InOrder(r)
  BY <1>2 DEF WorkHasEvidence, InOrder
<1>6. QED
  BY <1>3, <1>4, <1>5 DEF History

\* The history of every task is sound in every execution.
LEMMA HistoriesSound == Spec => []HistoryInv
BY HistoryInvInit, HistoryInvNext, TasksSound, TypeCorrect, PTL DEF Spec

\* Whatever is redone and reviewed, every attempt was handed in with all steps
\* completed and the evidence the revision requires.
THEOREM AttemptsAreComplete == Spec => []AttemptsComplete
<1>1. HistoryInv => AttemptsComplete
  BY DEF HistoryInv, History, CompleteAttempts, AttemptsComplete, Latest
<1>2. QED
  BY <1>1, HistoriesSound, PTL

\* The feedback given so far determines what a task waits for: submit, pass and
\* request_changes alternate as TRANSITIONS says, over any number of attempts.
THEOREM StatusIsExplained == Spec => []HistoryExplainsStatus
<1>1. HistoryInv => HistoryExplainsStatus
  BY DEF HistoryInv, History, SentBack, StatusExplained, HistoryExplainsStatus
<1>2. QED
  BY <1>1, HistoriesSound, PTL

\* What a counselor passes is what the learner handed in.
THEOREM PassedIsSubmitted == Spec => []PassedWorkIsTheAttempt
<1>1. HistoryInv => PassedWorkIsTheAttempt
  BY DEF HistoryInv, History, SameWork, PassedWorkIsTheAttempt
<1>2. QED
  BY <1>1, HistoriesSound, PTL

\* Between two attempts only the steps change that the counselor named.
THEOREM ReworkIsConfined == Spec => []ReworkConfined
<1>1. HistoryInv => ReworkConfined
  BY DEF HistoryInv, History, PastRework, PresentRework, ReworkConfined
<1>2. QED
  BY <1>1, HistoriesSound, PTL

\* Steps are worked on in their order, reworked ones included.
THEOREM StepsAreInOrder == Spec => []StepsInOrder
<1>1. HistoryInv => StepsInOrder
  BY DEF HistoryInv, History, InOrder, StepsInOrder
<1>2. QED
  BY <1>1, HistoriesSound, PTL

\* A task that changes counts its version up, and a finished task never changes,
\* so that no write under If-Match overwrites what its author had not seen.
THEOREM VersionsNameTheWork == Spec => VersionsNameWork
<1> DEFINE Kept == \A r \in Revisions : Work(r)' # Work(r) =>
                /\ task[r].version < task'[r].version
                /\ task[r].status \notin Done
<1>1. ASSUME TypeOK, TaskInv, HistoryInv, [Next]_vars, NEW r \in Revisions, Work(r)' # Work(r)
      PROVE  task[r].version < task'[r].version /\ task[r].status \notin Done
  <2>1. TaskNext(r)
    BY <1>1, OwnSteps DEF Same, Work
  <2>2. task[r].version \in Nat
    BY <1>1 DEF TypeOK, TrainingTypeOK, Task
  <2>3. CASE CreateTask(r)
    BY <1>1, <2>3 DEF CreateTask, HistoryInv, History, NoHistory, NoTask, Done,
       TypeOK, TrainingTypeOK
  <2>4. ASSUME NEW status, Write(r, status)
        PROVE  task'[r].version = task[r].version + 1
    BY <1>1, <2>4, Written
  <2>5. ASSUME NEW command \in {"start", "pause", "resume", "cancel", "submit", "pass",
                                "request_changes"}, CanMove(r, command)
        PROVE  task[r].status \notin Done
    BY <2>5 DEF CanMove, Transition, Statuses, Done
  <2>6. CASE SetPromptOverride(r, task[r].version)
    BY <1>1, <2>2, <2>6 DEF SetPromptOverride, Active, TypeOK, TrainingTypeOK, Task
  <2>7. ASSUME NEW command \in {"start", "pause", "resume", "cancel"},
               TaskAction(r, command, task[r].version)
        PROVE  task[r].version < task'[r].version /\ task[r].status \notin Done
    BY <2>2, <2>4, <2>5, <2>7 DEF TaskAction
  <2>8. ASSUME NEW i \in Steps, NEW status \in {"in_progress", "completed"},
               NEW fs \in SUBSET Files, UpdateProgress(r, i, status, fs, task[r].version)
        PROVE  task[r].version < task'[r].version /\ task[r].status \notin Done
    BY <2>2, <2>4, <2>8 DEF UpdateProgress, Done
  <2>9. CASE Submit(r, task[r].version)
    BY <2>2, <2>4, <2>5, <2>9 DEF Submit
  <2>10. ASSUME NEW n \in 1..Len(submission[r]), NEW outcome \in {"passed", "changes_requested"},
                NEW redo \in SUBSET Steps, Review(r, n, outcome, redo, task[r].version)
         PROVE  task[r].version < task'[r].version /\ task[r].status \notin Done
    BY <2>2, <2>4, <2>5, <2>10 DEF Review, Verdict
  <2>11. QED
    BY <2>1, <2>3, <2>6, <2>7, <2>8, <2>9, <2>10 DEF TaskNext, Publish
<1>2. TypeOK /\ TaskInv /\ HistoryInv /\ [Next]_vars => [Kept]_vars
  BY <1>1
<1>3. QED
  BY <1>2, TasksSound, HistoriesSound, TypeCorrect, PTL DEF Spec, VersionsNameWork

=============================================================================
