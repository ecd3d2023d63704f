---------------------------- MODULE DraftEditor -----------------------------
(***************************************************************************)
(* The SOP workbench of the web client (features/sop: SopPage,             *)
(* RevisionEditor, DraftForm and queries) in several browser tabs, with    *)
(* the server's part of a save, a publication and a new draft.             *)
(*                                                                         *)
(* The plan's revisions are numbered; a page shows the newest it knows of. *)
(* Goal, steps and reminder are one content.  A fetch reads the server at  *)
(* one moment and reaches the cache at a later one.  Requests and replies  *)
(* get lost.  The match is confirmed, the steps and media are valid: the   *)
(* server refuses a publication for its version, its state or an           *)
(* incomplete content; any other refusal looks like a lost request.        *)
(* Bounds: a form that is mounted again waits for the request of the one   *)
(* before it, and the plan holds MaxRevision revisions.                    *)
(***************************************************************************)
EXTENDS Naturals

CONSTANTS
    Editors,      \* browser tabs
    Contents,     \* what a revision may say
    First,        \* what the first draft says when the tabs open it
    Complete,     \* contents with a goal and instructions: may be published
    Attached,     \* what a form may say after a file was attached while it waits
    MaxVersion,   \* bound on the version of a revision
    MaxRevision,  \* bound on the revisions of the plan
    Faults        \* bound on what the network does: "call", "fetch", "plans" fail

ASSUME ContentsAssumption == First \in Contents /\ Complete \subseteq Contents
ASSUME BoundAssumption == MaxVersion \in Nat \ {0} /\ MaxRevision \in Nat \ {0}

VARIABLES
    revision,   \* revision[r]: the sop_revisions row number r
    page,       \* page[e]: the revision shown, its cached data, its fetch
    form,       \* form[e]: the state of DraftForm
    call        \* call[e]: the mutation that is pending, or "none"

vars == <<revision, page, form, call>>

Numbers == 1..MaxRevision
Snapshot == [version: Nat, content: Contents, state: {"absent", "draft", "published"}]
NoRevision == [version |-> 0, content |-> First, state |-> "absent"]

Page == [id: Numbers, data: Snapshot, fetch: Snapshot]
Form == [open: BOOLEAN, base: Snapshot, content: Contents, edited: BOOLEAN,
         errors: SUBSET {"save", "publish"}]
NoForm == [open |-> FALSE, base |-> NoRevision, content |-> First,
           edited |-> FALSE, errors |-> {}]

\* of, version, content: the request.  base: what the form was based on when
\* the button was clicked.  got: the reply.  publishNext: save, then publish.
\* here: the form that made the call is still mounted.
Call == [kind: {"none", "save", "publish", "create", "reload"}, of: Numbers,
         version: Nat, content: Contents, base: Snapshot, publishNext: BOOLEAN,
         here: BOOLEAN, got: Snapshot,
         stage: {"none", "sent", "done", "failed", "refresh", "settled"}]
Idle == [kind |-> "none", of |-> 1, version |-> 0, content |-> First,
         base |-> NoRevision, publishNext |-> FALSE, here |-> FALSE,
         got |-> NoRevision, stage |-> "none"]

Init ==
    /\ revision = [r \in Numbers |->
           IF r = 1 THEN [NoRevision EXCEPT !.version = 1, !.state = "draft"] ELSE NoRevision]
    /\ page = [e \in Editors |-> [id |-> 1, data |-> NoRevision, fetch |-> NoRevision]]
    /\ form = [e \in Editors |-> NoForm]
    /\ call = [e \in Editors |-> Idle]

Busy(e) == call[e].kind # "none"

-----------------------------------------------------------------------------
(* The form.                                                                *)

\* Mutant: new data is taken over whether or not the user has typed.
Sync_Always(f, data) ==
    IF data.state # "draft" THEN NoForm
    ELSE [f EXCEPT !.open = TRUE, !.base = data, !.content = data.content]

\* The form after new data of its revision: a published one unmounts it, a
\* draft mounts it or, unless the user has typed, is copied into it.
Sync(f, data) ==
    CASE data.state # "draft" -> NoForm
      [] data.state = "draft" /\ ~f.open ->
             [NoForm EXCEPT !.open = TRUE, !.base = data, !.content = data.content]
      [] data.state = "draft" /\ f.open /\ f.edited -> f
      [] OTHER -> [f EXCEPT !.base = data, !.content = data.content]

\* Mutant: of the reply only the version becomes the base.
Accept_VersionOnly(f, data) ==
    [f EXCEPT !.base.version = data.version, !.content = data.content, !.edited = FALSE]

\* accept: the reply replaces what the form shows.
Accept(f, data) == [f EXCEPT !.base = data, !.content = data.content, !.edited = FALSE]

\* The user types, or a file that has passed its check is attached.  The fieldset
\* is disabled while a call is pending, which keeps typing out and not the file.
Type(e, content) ==
    /\ form[e].open
    /\ Busy(e) => content \in Attached
    /\ form' = [form EXCEPT ![e].content = content, ![e].edited = TRUE]
    /\ UNCHANGED <<revision, page, call>>

Request(e, kind, version, next) ==
    [kind |-> kind, of |-> page[e].id, version |-> version, content |-> form[e].content,
     base |-> form[e].base, publishNext |-> next, here |-> form[e].open,
     got |-> NoRevision, stage |-> "sent"]

Send(e, request) ==
    /\ call' = [call EXCEPT ![e] = request]
    /\ form' = [form EXCEPT ![e].errors = @ \ {request.kind}]
    /\ UNCHANGED <<revision, page>>

\* Mutant: the draft is saved over whatever version the cache holds.
SaveDraft_CachedVersion(e) ==
    /\ form[e].open
    /\ ~Busy(e)
    /\ Send(e, Request(e, "save", page[e].data.version, FALSE))

\* saveDraft: PUT under the version the form started from.
SaveDraft(e) ==
    /\ form[e].open
    /\ ~Busy(e)
    /\ Send(e, Request(e, "save", form[e].base.version, FALSE))

Dirty(e) == form[e].content # form[e].base.content

\* Mutant: edits that are not saved yet are not saved before publishing.
PublishSaved_NotSaved(e) ==
    /\ form[e].open
    /\ ~Busy(e)
    /\ form[e].content \in Complete
    /\ Send(e, Request(e, "publish", form[e].base.version, FALSE))

\* publishSaved: a dirty form is saved first and published under the version
\* of the reply, any other under its base.
PublishSaved(e) ==
    /\ form[e].open
    /\ ~Busy(e)
    /\ form[e].content \in Complete
    /\ \/ Dirty(e) /\ Send(e, Request(e, "save", form[e].base.version, TRUE))
       \/ ~Dirty(e) /\ Send(e, Request(e, "publish", form[e].base.version, FALSE))

\* The button of a published revision: a new draft that starts from it.
CreateDraft(e) ==
    /\ page[e].data.state = "published"
    /\ ~Busy(e)
    /\ page[e].id < MaxRevision
    /\ Send(e, Request(e, "create", 0, FALSE))

\* reload, offered once a save or a publication has failed.
Reload(e) ==
    /\ form[e].open /\ form[e].errors # {}
    /\ ~Busy(e)
    /\ page' = [page EXCEPT ![e].fetch = NoRevision]
    /\ call' = [call EXCEPT ![e] = [Request(e, "reload", 0, FALSE) EXCEPT !.stage = "refresh"]]
    /\ UNCHANGED <<revision, form>>

-----------------------------------------------------------------------------
(* The server.                                                              *)

\* The call of e is answered: what it asked for no longer matters.
Answer(e, stage, row) ==
    call' = [call EXCEPT ![e] = [Idle EXCEPT
        !.kind = call[e].kind, !.of = call[e].of, !.publishNext = call[e].publishNext,
        !.here = call[e].here, !.stage = stage, !.got = row]]

Refuse(e) == Answer(e, "failed", NoRevision)

Reply(e, row) == Answer(e, "done", row)

\* save_revision
HandleSave(e) ==
    /\ call[e].kind = "save" /\ call[e].stage = "sent"
    /\ LET r == call[e].of
           row == [revision[r] EXCEPT !.content = call[e].content, !.version = @ + 1]
       IN IF /\ revision[r].state = "draft"
             /\ revision[r].version = call[e].version
             /\ revision[r].version < MaxVersion
          THEN revision' = [revision EXCEPT ![r] = row] /\ Reply(e, row)
          ELSE UNCHANGED revision /\ Refuse(e)
    /\ UNCHANGED <<page, form>>

\* publish
HandlePublish(e) ==
    /\ call[e].kind = "publish" /\ call[e].stage = "sent"
    /\ LET r == call[e].of
           row == [revision[r] EXCEPT !.state = "published", !.version = @ + 1]
       IN IF /\ revision[r].state = "draft"
             /\ revision[r].version = call[e].version
             /\ revision[r].content \in Complete
          THEN revision' = [revision EXCEPT ![r] = row] /\ Reply(e, row)
          ELSE UNCHANGED revision /\ Refuse(e)
    /\ UNCHANGED <<page, form>>

\* The number of the newest revision.
IsNewest(last) ==
    /\ revision[last].state # "absent"
    /\ \A r \in Numbers : r > last => revision[r].state = "absent"

\* create_revision: refused while the plan has a draft (bound: and once it is
\* full); else the revision after the newest says what the base says.
HandleCreate(e) ==
    /\ call[e].kind = "create" /\ call[e].stage = "sent"
    /\ \E last \in Numbers :
          LET row == [revision[call[e].of] EXCEPT !.version = 1, !.state = "draft"]
              free == last < MaxRevision /\ \A r \in Numbers : revision[r].state # "draft"
          IN /\ IsNewest(last)
             /\ \/ free /\ revision' = [revision EXCEPT ![last + 1] = row] /\ Reply(e, row)
                \/ ~free /\ UNCHANGED revision /\ Refuse(e)
    /\ UNCHANGED <<page, form>>

-----------------------------------------------------------------------------
(* Replies and queries.                                                     *)

\* A request or a reply is lost, or the answer is an error of another kind.
LoseCall(e) ==
    /\ "call" \in Faults
    /\ call[e].stage \in {"sent", "done"}
    /\ Refuse(e)
    /\ UNCHANGED <<revision, page, form>>

\* onSuccess of a save: the revision is invalidated, and the promise of the
\* mutation waits for that fetch.
Saved(e) ==
    /\ call[e].kind = "save" /\ call[e].stage = "done"
    /\ page' = [page EXCEPT ![e].fetch = NoRevision]
    /\ call' = [call EXCEPT ![e].stage = "refresh"]
    /\ UNCHANGED <<revision, form>>

\* onSuccess of a publication: revision and plans are invalidated and nobody
\* waits for them.
Published(e) ==
    /\ call[e].kind = "publish" /\ call[e].stage = "done"
    /\ page' = [page EXCEPT ![e].fetch = NoRevision]
    /\ call' = [call EXCEPT ![e] = Idle]
    /\ UNCHANGED <<revision, form>>

\* onSuccess of a new draft: the plans are invalidated, and the mutation is
\* pending until they are fetched.
Created(e) ==
    /\ call[e].kind = "create" /\ call[e].stage = "done"
    /\ call' = [call EXCEPT ![e].stage = "refresh"]
    /\ UNCHANGED <<revision, page, form>>

\* The failed mutation shows its error; the edits stay.
Failed(e) ==
    /\ call[e].stage = "failed"
    /\ call' = [call EXCEPT ![e] = Idle]
    /\ form' = [form EXCEPT ![e].errors =
           IF call[e].here THEN @ \cup ({call[e].kind} \cap {"save", "publish"}) ELSE @]
    /\ UNCHANGED <<revision, page>>

\* saveDraft after its promise: accept the reply and, from publishSaved,
\* publish the version of the reply.
Settle(e) ==
    /\ call[e].kind = "save" /\ call[e].stage = "settled"
    /\ form' = [form EXCEPT ![e] =
           IF call[e].here THEN Accept(@, call[e].got) ELSE @]
    /\ LET c == call[e] IN
       call' = [call EXCEPT ![e] =
           IF c.publishNext
           THEN [c EXCEPT !.kind = "publish", !.stage = "sent", !.publishNext = FALSE,
                          !.version = c.got.version, !.content = c.got.content,
                          !.base = c.got, !.got = NoRevision]
           ELSE Idle]
    /\ UNCHANGED <<revision, page>>

\* A GET of the shown revision is answered by the server (one that finds what is
\* cached tells nobody anything, unless somebody waits for it) ...
Fetch(e) ==
    /\ page[e].fetch = NoRevision
    /\ page[e].data # revision[page[e].id] \/ call[e].stage = "refresh"
    /\ page' = [page EXCEPT ![e].fetch = revision[page[e].id]]
    /\ UNCHANGED <<revision, form, call>>

\* Mutant: a save waits for a fetch that succeeds.
Ended_OnlyRead(c, read) ==
    CASE c.kind = "save" /\ c.stage = "refresh" /\ read -> [c EXCEPT !.stage = "settled"]
      [] c.kind = "reload" -> Idle
      [] OTHER -> c

\* Mutant: the end of a reload does not enable the form again.
Ended_StillBusy(c, read) ==
    CASE c.kind = "save" /\ c.stage = "refresh" -> [c EXCEPT !.stage = "settled"]
      [] c.kind = "reload" -> [c EXCEPT !.stage = "none"]
      [] OTHER -> c

\* The call after a fetch ended, read or failed: a save waits for no more, a
\* reload is over.
Ended(c, read) ==
    CASE c.kind = "save" /\ c.stage = "refresh" -> [c EXCEPT !.stage = "settled"]
      [] c.kind = "reload" -> Idle
      [] OTHER -> c

\* ... and reaches the cache, from where the form takes it over; a reload
\* takes it over even from a form with edits.
Arrive(e) ==
    /\ page[e].fetch # NoRevision
    /\ LET data == page[e].fetch
           new == Sync(form[e], data)
           reloaded == call[e].kind = "reload" /\ call[e].here /\ new.open
           ended == Ended(call[e], TRUE)
       IN /\ page' = [page EXCEPT ![e].data = data, ![e].fetch = NoRevision]
          /\ form' = [form EXCEPT ![e] =
                 IF reloaded THEN [Accept(new, data) EXCEPT !.errors = {}] ELSE new]
          /\ call' = [call EXCEPT ![e] = [ended EXCEPT !.here = @ /\ new.open]]
    /\ UNCHANGED revision

\* The fetch fails: what is shown stays, whoever waits goes on.
FetchFails(e) ==
    /\ "fetch" \in Faults
    /\ page[e].fetch # NoRevision
    /\ page' = [page EXCEPT ![e].fetch = NoRevision]
    /\ call' = [call EXCEPT ![e] = Ended(@, FALSE)]
    /\ UNCHANGED <<revision, form>>

\* A new draft has been made and the plans are being fetched.
PlansAwaited(e) == call[e].kind = "create" /\ call[e].stage = "refresh"

\* usePlans is fetched: the page turns to the newest revision of the plan, and
\* nobody waits any longer for the fetch of the old one.
TurnTo(e, r) ==
    /\ r > page[e].id
    /\ revision[r].state # "absent"
    /\ page' = [page EXCEPT ![e] = [id |-> r, data |-> NoRevision, fetch |-> NoRevision]]
    /\ form' = [form EXCEPT ![e] = NoForm]
    /\ call' = [call EXCEPT ![e] = IF PlansAwaited(e) THEN Idle
                                   ELSE [Ended(@, TRUE) EXCEPT !.here = FALSE]]
    /\ UNCHANGED revision

\* The plan list (or the session) cannot be fetched: SopWorkspace (SessionGate) shows
\* an error instead of the editor, which is mounted again, from the cache, by the
\* next fetch.
PlansFail(e) ==
    /\ "plans" \in Faults
    /\ form[e].open \/ PlansAwaited(e)
    /\ form' = [form EXCEPT ![e] = Sync(NoForm, page[e].data)]
    /\ call' = [call EXCEPT ![e] = IF PlansAwaited(e) THEN Idle ELSE [@ EXCEPT !.here = FALSE]]
    /\ UNCHANGED <<revision, page>>

Next == \E e \in Editors :
    \/ \E content \in Contents : Type(e, content)
    \/ SaveDraft(e) \/ PublishSaved(e) \/ CreateDraft(e) \/ Reload(e)
    \/ HandleSave(e) \/ HandlePublish(e) \/ HandleCreate(e)
    \/ LoseCall(e) \/ Saved(e) \/ Published(e) \/ Created(e) \/ Failed(e) \/ Settle(e)
    \/ Fetch(e) \/ Arrive(e) \/ FetchFails(e)
    \/ \E r \in Numbers : TurnTo(e, r)
    \/ PlansFail(e)

Spec == Init /\ [][Next]_vars

\* Every request is answered or lost, every fetch somebody waits for ends, and
\* promises are resolved.
Fairness == \A e \in Editors :
    /\ WF_vars(HandleSave(e) \/ HandlePublish(e) \/ HandleCreate(e) \/ LoseCall(e))
    /\ WF_vars(Saved(e) \/ Published(e) \/ Created(e) \/ Failed(e) \/ Settle(e))
    /\ WF_vars(Fetch(e) /\ call[e].stage = "refresh")
    /\ WF_vars((Arrive(e) \/ FetchFails(e)) /\ call[e].stage = "refresh")
    /\ WF_vars(PlansAwaited(e) /\ (PlansFail(e) \/ \E r \in Numbers : TurnTo(e, r)))

-----------------------------------------------------------------------------
(* Properties.                                                              *)

TypeOK ==
    /\ revision \in [Numbers -> Snapshot]
    /\ page \in [Editors -> Page]
    /\ form \in [Editors -> Form]
    /\ call \in [Editors -> Call]
    /\ \A e \in Editors : call[e].stage = "none" => call[e].kind = "none"

\* The revisions as the contract sees them, and what an editor looks at: what
\* the form was based on, and its text, when the button was clicked.
Documents == [r \in Numbers |->
    [revision[r] EXCEPT !.state = IF @ = "published" THEN "frozen" ELSE @]]

Basis == [e \in Editors |->
    IF call[e].stage = "sent"
    THEN [of |-> call[e].of, version |-> call[e].base.version, content |-> call[e].content]
    ELSE [of |-> 1, version |-> 0, content |-> First]]

Contract == INSTANCE EditContract WITH
    Documents <- Numbers, doc <- Documents, basis <- Basis

\* Whatever is lost, late or refused, a save replaces only the version the
\* form had been filled from, and the revision that is published says what the
\* form said when its counselor clicked (DraftForm.saveDraft, publishSaved).
EditsByTheBook == Contract!Spec

\* What a form is based on is what the server had under that version: the
\* form's dirtiness and its If-Match speak of the same content (base, accept).
BaseIsReal ==
    \A e \in Editors : form[e].open =>
        LET row == revision[page[e].id] IN
            /\ form[e].base.version <= row.version
            /\ form[e].base.version = row.version => form[e].base.content = row.content

\* What the user has put into the form is replaced, or no longer guarded against
\* newer data (edited.current).
Leaves(e) ==
    /\ form[e].edited
    /\ form'[e].edited => form'[e].content # form[e].content

\* What the form said when its save or its reload was asked for.
Asked(e) ==
    IF call[e].kind = "reload" \/ call[e].stage = "sent" THEN call[e].content
    ELSE call[e].got.content

\* A save that was accepted, or a reload that was answered, replaces the form.
Replaces(e) ==
    \/ call[e].kind = "save" /\ call[e].stage = "settled"
    \/ call[e].kind = "reload" /\ page[e].fetch # NoRevision

\* The user's own doing: typing on, or a save or reload of what the form says.
OwnDoing(e) ==
    \/ form'[e].edited /\ UNCHANGED <<page, call>>
    \/ Replaces(e) /\ form[e].content = Asked(e)

\* The reply says what the form said before a file was attached (accept).
Overtaken(e) == Replaces(e) /\ form[e].content \in Attached

\* The editor is taken away: the plans cannot be read (SopWorkspace), they name
\* a newer revision, or the draft turns out to be published (RevisionEditor).
TakenAway(e) ==
    \/ PlansFail(e)
    \/ page'[e].id # page[e].id
    \/ page'[e].data.state # "draft"

\* What the user has put into the form leaves it only by the user's own doing,
\* because the editor is taken away, or, a file attached while a save or reload
\* is pending, by its reply: never because newer data, a refusal or a failing
\* fetch of the revision reaches it.
KeepsTyping ==
    \A e \in Editors : Leaves(e) => OwnDoing(e) \/ Overtaken(e) \/ TakenAway(e)

\* The same without the exceptions: no background refresh and no reply takes
\* edits away.  Of the code this does not hold: SopWorkspace replaces the editor
\* by an error when the plan list cannot be fetched again, and accept replaces a
\* form to which a file was attached while the save was pending.
KeepsEdits == \A e \in Editors : Leaves(e) => OwnDoing(e)

=============================================================================
