------------------------------ MODULE MCWebFaults ------------------------------
(***************************************************************************)
(* The pages of the web client whose requests, fetches and surroundings    *)
(* fail at will, and the lists inside their forms, each used by one person *)
(* in one tab.  Pages share no state, so each behaviour is about one of    *)
(* them, "site".  The draft of an SOP is this module's own; the other      *)
(* pages are instances.                                                    *)
(***************************************************************************)
EXTENDS DraftEditor

CONSTANTS
    MatchFaults,     \* MatchEditor
    StepIds, Texts, NewText, MaxSteps,   \* StepList
    LastStep, Required, Unset, TaskVersions, TaskFaults,   \* TaskWorkspace
    Files, NoFile, Limit, MaxResets, FileFaults,   \* AssetPicker
    MaxRequests, Blank, MaxSaid, HelpFaults   \* AssistanceThread, with Texts

ASSUME TextsAssumption == NewText \in Texts

VARIABLES
    site,
    mMatch, mData, mFetch, mForm, mCall,
    steps,
    tTask, tData, tFetch, tReading, tEvidence, tNote, tCall, tErrors,
    asset, row, value, pending, upload, deletion, shown, due, stale, resets,
    hRole, hRequest, hThread, hList, hView, hSelected, hDraft, hCreate, hCall

Match == INSTANCE MatchEditor WITH
    match <- mMatch, data <- mData, fetch <- mFetch, form <- mForm, call <- mCall,
    Faults <- MatchFaults

List == INSTANCE StepList WITH Ids <- StepIds

Work == INSTANCE TaskWorkspace WITH
    task <- tTask, data <- tData, fetch <- tFetch, reading <- tReading,
    evidence <- tEvidence, note <- tNote, call <- tCall, errors <- tErrors,
    MaxVersion <- TaskVersions, Faults <- TaskFaults, Files <- {}

Picker == INSTANCE AssetPicker WITH Faults <- FileFaults

Help == INSTANCE AssistanceThread WITH
    role <- hRole, request <- hRequest, thread <- hThread, list <- hList, view <- hView,
    selected <- hSelected, draft <- hDraft, create <- hCreate, call <- hCall,
    Faults <- HelpFaults

sopVars == <<revision, page, form, call>>
matchVars == <<mMatch, mData, mFetch, mForm, mCall>>
workVars == <<tTask, tData, tFetch, tReading, tEvidence, tNote, tCall, tErrors>>
pickerVars == <<asset, row, value, pending, upload, deletion, shown, due, stale, resets>>
helpVars == <<hRole, hRequest, hThread, hList, hView, hSelected, hDraft, hCreate, hCall>>
webVars == <<site, sopVars, matchVars, steps, workVars, pickerVars, helpVars>>

\* A page that is not shown has one initial state.  The requests for help are those of
\* a counselor: the learner's page makes the same calls with one more button.
WebInit ==
    /\ site \in {"sop", "match", "steps", "work", "picker", "help"}
    /\ Init /\ Match!Init /\ List!Init /\ Work!Init /\ Picker!Init /\ Help!Init
    /\ site # "picker" => value = {}
    /\ hRole = "counselor"

WebNext ==
    /\ UNCHANGED site
    /\ \/ /\ site = "sop" /\ Next
          /\ UNCHANGED <<matchVars, steps, workVars, pickerVars, helpVars>>
       \/ /\ site = "match" /\ Match!Next
          /\ UNCHANGED <<sopVars, steps, workVars, pickerVars, helpVars>>
       \/ /\ site = "steps" /\ List!Next
          /\ UNCHANGED <<sopVars, matchVars, workVars, pickerVars, helpVars>>
       \/ /\ site = "work" /\ Work!Next
          /\ UNCHANGED <<sopVars, matchVars, steps, pickerVars, helpVars>>
       \/ /\ site = "picker" /\ Picker!Next
          /\ UNCHANGED <<sopVars, matchVars, steps, workVars, helpVars>>
       \/ /\ site = "help" /\ Help!Next
          /\ UNCHANGED <<sopVars, matchVars, steps, workVars, pickerVars>>

\* What each page is fair about; a page that is not shown rests in a state in
\* which none of this is possible.
WebFairness ==
    Fairness /\ Match!Fairness /\ Work!Fairness /\ Picker!Fairness /\ Help!Fairness

WebSpec == WebInit /\ [][WebNext]_webVars

WebFairSpec == WebSpec /\ WebFairness

-----------------------------------------------------------------------------
(* Properties of the pages.                                                 *)

\* The form that is shown waits for the server: its fieldset is disabled.
Waiting ==
    \/ site = "sop" /\ \E e \in Editors : Busy(e)
    \/ site = "match" /\ \E e \in Editors : Match!Busy(e)
    \/ site = "work" /\ Work!Busy
    \/ site = "help" /\ Help!Busy

Reloading == site = "match" /\ \E e \in Editors : mForm[e].reload

\* A form that waits for the server is enabled again at some time, although
\* requests, replies, fetches and the queries around the form fail and the form
\* is taken away and mounted again (busy); and a reload of a match, which disables
\* nothing, comes to its end.
WaitingEnds == (Waiting ~> ~Waiting) /\ (Reloading ~> ~Reloading)

\* Whatever the counselor did to the list of steps, save_revision accepts its
\* shape: no identifier twice, positions that count up from one.
ServerAccepts == List!ServerAccepts

\* What the counselor has typed stays.  In a list every instruction stays on its
\* step, and a change moves or removes nobody else (renumber, remove, move); in the
\* draft and the match it leaves the form only by typing on, by a save of it or a
\* reload that was asked for, or with the whole editor, when what is above it on the
\* page cannot be fetched, a newer revision comes or this one is published; a file
\* attached to a draft meanwhile may leave it with the reply.
TypedStays ==
    /\ List!WordsStay /\ List!NobodyIsLost
    /\ [][/\ site = "sop" => KeepsTyping
          /\ site = "match" => Match!KeepsTyping]_webVars

\* A file that was uploaded, passed its check and stays in the list is attached
\* for good at some time, although callbacks overwrite one another.
ReadyIsAttached == site = "picker" => Picker!ReadyIsAttached

=============================================================================
