------------------------------ MODULE MCWebTabs -------------------------------
(***************************************************************************)
(* The pages of the web client that several people or tabs work on at      *)
(* once.  Pages share no state, so each behaviour is about one of them,    *)
(* "site", and the variables of most others are Away.  The draft of an SOP *)
(* is this module's own; the other pages are instances.                    *)
(***************************************************************************)
EXTENDS DraftEditor, TLC

CONSTANTS
    Away,            \* the state of a page that is not shown
    MatchFaults,     \* MatchEditor
    SettingsFaults, Quiet,   \* PersonalForm
    Users, NoUser, MaxSessions, MaxTokens, Happens,   \* ClientSession
    LastStep, Required, Files, Unset, TaskVersions, TaskFaults,   \* TaskWorkspace
    ReviewSteps, Unready, Notes, MaxCalls, ReviewFaults,   \* ReviewDesk
    MaxRequests, Texts, Blank, MaxSaid, HelpFaults   \* AssistanceThread

ASSUME PagesAssumption ==
    /\ LastStep \in Nat /\ MaxRequests \in Nat \ {0}
    /\ MaxSessions \in Nat /\ MaxTokens \in Nat /\ NoUser \notin Users

VARIABLES
    site,
    mMatch, mData, mFetch, mForm, mCall,
    sRow, sCache, sFetch, sForm, sCall,
    session, issued, tokens, cookie, tab, cache, load, auth, read, write,
    tTask, tData, tFetch, tReading, tEvidence, tNote, tCall, tErrors,
    rTask, rFeedback, rNote, rAt, rData, rFetch, rBroken, rForm, rCall,
    hRole, hRequest, hThread, hList, hView, hSelected, hDraft, hCreate, hCall

Match == INSTANCE MatchEditor WITH
    match <- mMatch, data <- mData, fetch <- mFetch, form <- mForm, call <- mCall,
    Faults <- MatchFaults

Settings == INSTANCE PersonalForm WITH
    row <- sRow, cache <- sCache, fetch <- sFetch, form <- sForm, call <- sCall,
    Tabs <- Editors, Values <- Contents, Faults <- SettingsFaults

\* With lost and late replies, writes and a user who leaves; with another tab that
\* logs in and out; and undisturbed, with writes.
Session == INSTANCE ClientSession
Shared == INSTANCE ClientSession WITH Happens <- {"elsewhere"}
Writing == INSTANCE ClientSession WITH Happens <- {"write"}

Work == INSTANCE TaskWorkspace WITH
    task <- tTask, data <- tData, fetch <- tFetch, reading <- tReading,
    evidence <- tEvidence, note <- tNote, call <- tCall, errors <- tErrors,
    MaxVersion <- TaskVersions, Faults <- TaskFaults

Desk == INSTANCE ReviewDesk WITH
    task <- rTask, feedback <- rFeedback, note <- rNote, at <- rAt, data <- rData,
    fetch <- rFetch, broken <- rBroken, form <- rForm, call <- rCall,
    Steps <- ReviewSteps, Faults <- ReviewFaults

Help == INSTANCE AssistanceThread WITH
    role <- hRole, request <- hRequest, thread <- hThread, list <- hList, view <- hView,
    selected <- hSelected, draft <- hDraft, create <- hCreate, call <- hCall,
    Faults <- HelpFaults

sopVars == <<revision, page, form, call>>
matchVars == <<mMatch, mData, mFetch, mForm, mCall>>
settingsVars == <<sRow, sCache, sFetch, sForm, sCall>>
sessionVars == <<session, issued, tokens, cookie, tab, cache, load, auth, read, write>>
workVars == <<tTask, tData, tFetch, tReading, tEvidence, tNote, tCall, tErrors>>
deskVars == <<rTask, rFeedback, rNote, rAt, rData, rFetch, rBroken, rForm, rCall>>
helpVars == <<hRole, hRequest, hThread, hList, hView, hSelected, hDraft, hCreate, hCall>>
webVars == <<site, sopVars, matchVars, settingsVars, sessionVars, workVars, deskVars, helpVars>>

NoMatch == mMatch = Away /\ mData = Away /\ mFetch = Away /\ mForm = Away /\ mCall = Away

NoSession ==
    /\ session = Away /\ issued = Away /\ tokens = Away /\ cookie = Away /\ tab = Away
    /\ cache = Away /\ load = Away /\ auth = Away /\ read = Away /\ write = Away

NoWork ==
    /\ tTask = Away /\ tData = Away /\ tFetch = Away /\ tReading = Away
    /\ tEvidence = Away /\ tNote = Away /\ tCall = Away /\ tErrors = Away

NoDesk ==
    /\ rTask = Away /\ rFeedback = Away /\ rNote = Away /\ rAt = Away /\ rData = Away
    /\ rFetch = Away /\ rBroken = Away /\ rForm = Away /\ rCall = Away

NoHelp ==
    /\ hRole = Away /\ hRequest = Away /\ hThread = Away /\ hList = Away /\ hView = Away
    /\ hSelected = Away /\ hDraft = Away /\ hCreate = Away /\ hCall = Away

WebInit ==
    /\ site \in {"sop", "settings", "match", "session", "shared", "writing", "work", "desk", "help"}
    /\ Init /\ Settings!Init
    /\ site # "match" => NoMatch
    /\ site \notin {"session", "shared", "writing"} => NoSession
    /\ site # "work" => NoWork
    /\ site # "desk" => NoDesk
    /\ site # "help" => NoHelp
    /\ site = "match" => Match!Init
    /\ site \in {"session", "shared", "writing"} => Session!Init
    /\ site = "work" => Work!Init
    /\ site = "desk" => Desk!Init
    /\ site = "help" => Help!Init

\* Bounds: what follows upon the last version of a match, of the settings or of a
\* reviewed task, or upon an action on the last request for help, is left out; of a
\* draft only another save is.
WebNext ==
    /\ UNCHANGED site
    /\ \/ /\ site = "sop" /\ Next
          /\ UNCHANGED <<matchVars, settingsVars, sessionVars, workVars, deskVars, helpVars>>
       \/ /\ site = "match" /\ mMatch.version < MaxVersion /\ Match!Next
          /\ UNCHANGED <<sopVars, settingsVars, sessionVars, workVars, deskVars, helpVars>>
       \/ /\ site = "settings" /\ sRow.version < MaxVersion /\ Settings!Next
          /\ UNCHANGED <<sopVars, matchVars, sessionVars, workVars, deskVars, helpVars>>
       \/ /\ site = "session" /\ Session!Next
          /\ UNCHANGED <<sopVars, matchVars, settingsVars, workVars, deskVars, helpVars>>
       \/ /\ site = "shared" /\ Shared!Next
          /\ UNCHANGED <<sopVars, matchVars, settingsVars, workVars, deskVars, helpVars>>
       \/ /\ site = "writing" /\ Writing!Next
          /\ UNCHANGED <<sopVars, matchVars, settingsVars, workVars, deskVars, helpVars>>
       \/ /\ site = "work" /\ Work!Next
          /\ UNCHANGED <<sopVars, matchVars, settingsVars, sessionVars, deskVars, helpVars>>
       \/ /\ site = "desk" /\ rTask.version < MaxVersion /\ Desk!Next
          /\ UNCHANGED <<sopVars, matchVars, settingsVars, sessionVars, workVars, helpVars>>
       \/ /\ site = "help" /\ hRequest[MaxRequests].version < 2 /\ Help!Next
          /\ UNCHANGED <<sopVars, matchVars, settingsVars, sessionVars, workVars, deskVars>>

WebSpec == WebInit /\ [][WebNext]_webVars

Symmetry == Permutations(Editors)

-----------------------------------------------------------------------------
(* Properties of the pages.  EditsByTheBook and BaseIsReal are DraftEditor's. *)

\* Every page keeps to the types of its module.
WebTypeOK ==
    /\ site = "sop" => TypeOK
    /\ site = "settings" => Settings!TypeOK
    /\ site = "match" => Match!TypeOK
    /\ site \in {"session", "shared", "writing"} => Session!TypeOK
    /\ site = "work" => Work!TypeOK
    /\ site = "desk" => Desk!TypeOK
    /\ site = "help" => Help!TypeOK

\* What was typed into the draft, the match or the settings leaves its form only
\* by typing on, by a save of it or by a reload that was asked for (edited.current),
\* or with the whole editor, when it is taken away: by a failing fetch of what is
\* above it on the page, by a newer revision, by the publication of this one or
\* by a user who goes to another page.  A file attached to a draft while a save or
\* a reload is pending may also leave it with the reply.
\* The box of a reply is emptied only when the reply is there to be read, or an
\* error is.
TypingKept ==
    [][/\ site = "sop" => KeepsTyping
       /\ site = "match" => Match!KeepsTyping
       /\ site = "settings" => Settings!KeepsTyping
       /\ site = "help" => Help!ShownWhenCleared]_webVars

\* Confirming a match freezes what the form said at the click, and the save it
\* makes first replaces only the version the form was filled from (confirmSaved).
ConfirmedIsReviewed ==
    [][site = "match" => Match!ConfirmsReviewed /\ Match!ReplacesOwnBase]_webVars

\* A tab saves settings only over the version its form was filled from
\* (updateHeaders(base.version)).
SettingsByTheBook == Settings!EditsByTheBook

\* A login, a logout or a 401 that changes whom the tab shows leaves nothing private
\* in its cache; and in a browser whose other tabs log nobody in or out, nothing but
\* the reply to a write that succeeded late brings in the data of anybody else.
CacheIsPrivate ==
    [][/\ site = "session" => Session!StrangersByWrite
       /\ site = "shared" => Shared!StrangersByWrite]_webVars

\* Undisturbed, tab and server agree on who is signed in, and a login leaves a
\* tab whose cookie and token fit its session.
SessionAgrees ==
    [][site = "writing" => Writing!LoginFits /\ Writing!IdentityAgrees']_webVars

\* A click changes a task or a request for help only as it was on the screen then,
\* in whatever order replies and refreshes are cached; and whoever asks for help, on
\* whichever device and below whatever list, a task has one open request at most.
SeenIsDone ==
    [][/\ site = "work" => Work!DoesAsSeen
       /\ site = "help" => Help!DoesAsSeen /\ Help!OneOpen']_webVars

\* A counselor's click changes the task only as it was on the screen then, and
\* the learner gets the listed annotations with the review, all and only those.
ReviewOfSeen == [][site = "desk" => Desk!ReviewsSeen]_webVars

=============================================================================
