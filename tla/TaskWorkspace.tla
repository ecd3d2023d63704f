---------------------------- MODULE TaskWorkspace ----------------------------
(***************************************************************************)
(* A learner's page of one training task (features/training: TrainingPage, *)
(* queries), with the server's part of its three mutations, while          *)
(* counselors and the learner's other devices go on with the same task.    *)
(*                                                                         *)
(* A fetch reads the server at one moment and reaches the cache at a later *)
(* one; requests and replies get lost.  A mutation that "refresh" resets   *)
(* goes on unwatched: its reply is still cached, and the page is enabled.  *)
(* Each mutation has one request under way at most: a second click on the  *)
(* same button, after a refresh, waits for the first (bound of the model). *)
(***************************************************************************)
EXTENDS Naturals, FiniteSets, FiniteSetsExt

CONSTANTS
    LastStep,    \* the steps of the task are 1..LastStep
    Required,    \* steps that ask for evidence
    Files,       \* files that passed the check
    Unset,       \* no evidence of a step was touched on this page
    MaxVersion,  \* bound on the version of the task
    Faults       \* bound on what the network does: "call", "fetch" fail

VARIABLES
    task,      \* the task at the server
    data,      \* what the query has cached of it
    fetch,     \* what the server answered to a GET under way
    reading,   \* refresh waits for the fetch
    evidence,  \* evidence[i]: what was attached to step i on this page
    note,      \* the note to the counselor: empty or not
    call,      \* call[k]: the request of mutation k
    errors     \* mutations whose last request failed

vars == <<task, data, fetch, reading, evidence, note, call, errors>>

Steps == 1..LastStep
Mutations == {"action", "save", "submit"}
Statuses == {"not_started", "in_progress", "paused", "submitted", "changes_requested",
             "completed", "cancelled"}
Final == {"completed", "cancelled"}

\* done: the completed steps.  files: what is attached to them.  handedIn: the
\* note of the last submission.
Task == [version: Nat, status: Statuses, done: SUBSET Steps, files: [Steps -> SUBSET Files],
         handedIn: BOOLEAN]
NewTask == [version |-> 1, status |-> "not_started", done |-> {},
            files |-> [i \in Steps |-> {}], handedIn |-> FALSE]
None == [NewTask EXCEPT !.version = 0]

\* what: the transition asked for.  seen: the task, and files: the evidence, that
\* the page showed at the click.  watched: the mutation was not reset since.
Call == [stage: {"none", "sent", "done", "failed"}, what: {"none", "start", "pause", "resume"},
         version: Nat, step: 0..LastStep, files: SUBSET Files, note: BOOLEAN,
         seen: Task, got: Task, watched: BOOLEAN]
Idle == [stage |-> "none", what |-> "none", version |-> 0, step |-> 0, files |-> {},
         note |-> FALSE, seen |-> None, got |-> None, watched |-> FALSE]

Init ==
    /\ task = NewTask
    /\ data = None
    /\ fetch = None
    /\ reading = FALSE
    /\ evidence = [i \in Steps |-> Unset]
    /\ note = FALSE
    /\ call = [k \in Mutations |-> Idle]
    /\ errors = {}

-----------------------------------------------------------------------------
(* What the page shows and which buttons it enables.                        *)

Busy == \E k \in Mutations : call[k].watched

AllDone(t) == t.done = Steps

\* current_step_id: the first step that is not completed.
CurrentStep(t) == Min(Steps \ t.done)

Working == data # None /\ data.status = "in_progress"
StepShown == Working /\ ~AllDone(data)
NoteShown == Working /\ AllDone(data)

\* What AssetInput shows for step i.
Shown(i) == IF evidence[i] # Unset THEN evidence[i] ELSE data.files[i]

\* mutate: the request takes what was rendered.
Send(k, request) ==
    /\ ~Busy
    /\ call[k] = Idle
    /\ call' = [call EXCEPT ![k] = [request EXCEPT
           !.stage = "sent", !.version = data.version, !.seen = data, !.watched = TRUE]]
    /\ errors' = errors \ {k}
    /\ UNCHANGED <<task, data, fetch, reading, evidence, note>>

Act(what) ==
    /\ CASE what = "start" -> data.status = "not_started"
         [] what = "pause" -> StepShown
         [] what = "resume" -> data.status \in {"paused", "changes_requested"}
    /\ data # None
    /\ Send("action", [Idle EXCEPT !.what = what])

Save ==
    /\ StepShown
    /\ LET i == CurrentStep(data) IN
          /\ i \in Required => Shown(i) # {}
          /\ Send("save", [Idle EXCEPT !.step = i, !.files = Shown(i)])

Submit ==
    /\ NoteShown
    /\ Send("submit", [Idle EXCEPT !.note = note])

\* AssetInput.onChange: also while a mutation is pending, since a file may pass
\* its check or be deleted then.
Attach(ids) ==
    /\ StepShown
    /\ evidence' = [evidence EXCEPT ![CurrentStep(data)] = ids]
    /\ UNCHANGED <<task, data, fetch, reading, note, call, errors>>

TypeNote(text) ==
    /\ NoteShown /\ ~Busy
    /\ note' = text
    /\ UNCHANGED <<task, data, fetch, reading, evidence, call, errors>>

\* The button beside an error, or of a submitted task; it is not disabled while
\* another mutation is pending.
Refresh ==
    /\ data # None
    /\ errors # {} \/ data.status = "submitted"
    /\ reading' = TRUE
    /\ fetch' = None
    /\ UNCHANGED <<task, data, evidence, note, call, errors>>

-----------------------------------------------------------------------------
(* The server.                                                              *)

\* Mutant: the transition is made under any version.
Permitted_AnyVersion(k) == TRUE

\* require_version
Permitted(k) == call[k].version = task.version

Answer(k, stage, row) ==
    call' = [call EXCEPT ![k] = [Idle EXCEPT
        !.stage = stage, !.got = row, !.watched = call[k].watched]]

Handle(k, allowed, row) ==
    /\ call[k].stage = "sent"
    /\ \/ /\ allowed /\ Permitted(k) /\ task.version < MaxVersion
          /\ task' = [row EXCEPT !.version = task.version + 1]
          /\ Answer(k, "done", task')
       \/ /\ ~(allowed /\ Permitted(k) /\ task.version < MaxVersion)
          /\ Answer(k, "failed", None)
          /\ UNCHANGED task
    /\ UNCHANGED <<data, fetch, reading, evidence, note, errors>>

\* TRANSITIONS of the learner's actions
From == [start |-> {"not_started"}, pause |-> {"in_progress"},
         resume |-> {"paused", "changes_requested"}]
To == [start |-> "in_progress", pause |-> "paused", resume |-> "in_progress"]

HandleAction ==
    LET what == call["action"].what IN
    /\ what # "none"
    /\ Handle("action", task.status \in From[what], [task EXCEPT !.status = To[what]])

HandleSave ==
    LET i == call["save"].step
        ids == call["save"].files IN
    /\ i # 0
    /\ Handle("save",
           /\ task.status = "in_progress" /\ ~AllDone(task) /\ i = CurrentStep(task)
           /\ i \in Required => ids # {},
           [task EXCEPT !.done = @ \cup {i}, !.files[i] = ids])

HandleSubmit ==
    Handle("submit", task.status = "in_progress" /\ AllDone(task),
           [task EXCEPT !.status = "submitted", !.handedIn = call["submit"].note])

\* What happens to the task from elsewhere: another device of the learner, a
\* review, a cancellation, another prompt level.
Elsewhere(row) ==
    /\ task.version < MaxVersion
    /\ task' = [row EXCEPT !.version = task.version + 1]
    /\ UNCHANGED <<data, fetch, reading, evidence, note, call, errors>>

OtherDevice ==
    \/ \E what \in DOMAIN From :
          task.status \in From[what] /\ Elsewhere([task EXCEPT !.status = To[what]])
    \/ /\ task.status = "in_progress" /\ ~AllDone(task)
       /\ \E ids \in SUBSET Files :
             /\ CurrentStep(task) \in Required => ids # {}
             /\ Elsewhere([task EXCEPT !.done = @ \cup {CurrentStep(task)},
                                       !.files[CurrentStep(task)] = ids])
    \/ /\ task.status = "in_progress" /\ AllDone(task)
       /\ \E text \in BOOLEAN :
             Elsewhere([task EXCEPT !.status = "submitted", !.handedIn = text])

Review ==
    /\ task.status = "submitted"
    /\ \/ Elsewhere([task EXCEPT !.status = "completed"])
       \/ \E redo \in (SUBSET Steps) \ {{}} :
             Elsewhere([task EXCEPT !.status = "changes_requested", !.done = @ \ redo,
                 !.files = [i \in Steps |-> IF i \in redo THEN {} ELSE @[i]]])

Counselor ==
    /\ task.status \notin Final
    /\ Elsewhere([task EXCEPT !.status = "cancelled"]) \/ Elsewhere(task)

-----------------------------------------------------------------------------
(* Replies.                                                                 *)

LoseCall(k) ==
    /\ "call" \in Faults
    /\ call[k].stage \in {"sent", "done"}
    /\ Answer(k, "failed", None)
    /\ UNCHANGED <<task, data, fetch, reading, evidence, note, errors>>

\* Mutant: of the reply only the version is cached.
Cached_VersionOnly(got) == [data EXCEPT !.version = got.version]

\* setQueryData
Cached(got) == got

\* onSuccess of an action or a save: the reply is cached; a fetch under way goes
\* on and may put an older task over it.
Replied(k) ==
    /\ k \in {"action", "save"}
    /\ call[k].stage = "done"
    /\ data' = Cached(call[k].got)
    /\ call' = [call EXCEPT ![k] = Idle]
    /\ UNCHANGED <<task, fetch, reading, evidence, note, errors>>

\* The mutations after refresh has read: none shows an error, none is watched.
ResetCalls == [k \in Mutations |->
    IF call[k].stage = "none" THEN Idle ELSE [call[k] EXCEPT !.watched = FALSE]]

\* onSuccess of a submission: the task is invalidated, which ends the fetch that
\* a refresh waits for; the note is cleared unless the mutation was reset.
Submitted ==
    /\ call["submit"].stage = "done"
    /\ fetch' = None
    /\ reading' = FALSE
    /\ note' = IF call["submit"].watched THEN FALSE ELSE note
    /\ call' = [IF reading THEN ResetCalls ELSE call EXCEPT !["submit"] = Idle]
    /\ errors' = IF reading THEN {} ELSE errors
    /\ UNCHANGED <<task, data, evidence>>

Failed(k) ==
    /\ call[k].stage = "failed"
    /\ errors' = IF call[k].watched THEN errors \cup {k} ELSE errors
    /\ call' = [call EXCEPT ![k] = Idle]
    /\ UNCHANGED <<task, data, fetch, reading, evidence, note>>

\* A GET, on mounting, on focus, by an invalidation or a refresh.
Fetch ==
    /\ fetch = None
    /\ fetch' = task
    /\ UNCHANGED <<task, data, reading, evidence, note, call, errors>>

Arrive ==
    /\ fetch # None
    /\ data' = fetch
    /\ fetch' = None
    /\ reading' = FALSE
    /\ call' = IF reading THEN ResetCalls ELSE call
    /\ errors' = IF reading THEN {} ELSE errors
    /\ UNCHANGED <<task, evidence, note>>

\* What is shown stays; a refresh says that it failed.
FetchFails ==
    /\ "fetch" \in Faults
    /\ fetch # None
    /\ fetch' = None
    /\ reading' = FALSE
    /\ UNCHANGED <<task, data, evidence, note, call, errors>>

Reply == \E k \in Mutations : Replied(k) \/ Failed(k)

Serve == HandleAction \/ HandleSave \/ HandleSubmit

Next ==
    \/ \E what \in DOMAIN From : Act(what)
    \/ Save \/ Submit \/ Refresh
    \/ \E ids \in SUBSET Files : Attach(ids)
    \/ \E text \in BOOLEAN : TypeNote(text)
    \/ Serve \/ OtherDevice \/ Review \/ Counselor
    \/ \E k \in Mutations : LoseCall(k)
    \/ Reply \/ Submitted \/ Fetch \/ Arrive \/ FetchFails

Spec == Init /\ [][Next]_vars

\* Every request is answered or lost, and every reply is taken in.
Fairness ==
    /\ \A k \in Mutations : WF_vars((Serve \/ LoseCall(k)) /\ call[k].stage = "sent")
    /\ \A k \in Mutations : WF_vars((Replied(k) \/ Failed(k) \/ Submitted) /\ call[k].stage # "none")

-----------------------------------------------------------------------------
(* Properties.                                                              *)

TypeOK ==
    /\ task \in Task /\ data \in Task /\ fetch \in Task
    /\ reading \in BOOLEAN /\ note \in BOOLEAN
    /\ evidence \in [Steps -> (SUBSET Files) \cup {Unset}]
    /\ call \in [Mutations -> Call]
    /\ errors \subseteq Mutations

\* A click changes the task only as it was on the screen when the learner
\* clicked, whatever older or newer replies have been cached, other devices or
\* counselors have done, and whether or not the mutation was reset since.
DoesAsSeen ==
    \A k \in Mutations :
        (call[k].stage = "sent" /\ task' # task /\ call'[k].stage = "done") =>
            task = call[k].seen

=============================================================================
