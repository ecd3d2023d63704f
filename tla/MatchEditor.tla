---------------------------- MODULE MatchEditor -----------------------------
(***************************************************************************)
(* The support match on the page of a case, in several browser tabs        *)
(* (features/counselor: CasePage, MatchEditor, queries), with the server's *)
(* part of saving and confirming it.                                       *)
(*                                                                         *)
(* direction, focus, weeks and basis are one content.  A fetch reads the   *)
(* server at one moment and reaches the cache at a later one; requests and *)
(* replies get lost.  base is what the form was last filled from; of it    *)
(* the code keeps the version, baseVersion.  Bound: a tab has one mutation *)
(* under way, also after a reload or a new editor has let go of it.        *)
(***************************************************************************)
EXTENDS Naturals

CONSTANTS
    Editors,     \* browser tabs
    Contents,    \* what a match may say
    First,       \* the one it says before anybody edits it
    Complete,    \* those whose three texts are filled in
    MaxVersion,  \* bound on the version of the match
    Faults       \* bound on what the network does: "call", "fetch", "page" fail

VARIABLES
    match,   \* the row of the support match
    data,    \* data[e]: what tab e has cached of it
    fetch,   \* fetch[e]: what the server answered to a GET under way
    form,    \* form[e]: the state of MatchEditor
    call     \* call[e]: the mutation that is pending

vars == <<match, data, fetch, form, call>>

Snapshot == [version: Nat, content: Contents, state: {"absent", "draft", "confirmed"}]
None == [version |-> 0, content |-> First, state |-> "absent"]

\* conflicts: the mutations whose last try met another version (412).
\* reload: the latest match has been asked for and will replace what is typed.
Form == [base: Snapshot, content: Contents, edited: BOOLEAN,
         conflicts: SUBSET {"save", "confirm"}, reload: BOOLEAN]
NoForm == [base |-> None, content |-> First, edited |-> FALSE, conflicts |-> {},
           reload |-> FALSE]

\* basis: what the form was based on when the button was clicked.
\* next: confirm once the save is answered (confirmSaved).
\* here: the editor that made the call is still mounted.  shown: and would show
\* its error.
Call == [kind: {"none", "save", "confirm"}, version: Nat, content: Contents,
         basis: Snapshot, next: BOOLEAN, here: BOOLEAN, shown: BOOLEAN, got: Snapshot,
         stage: {"none", "sent", "done", "refused", "failed", "refresh", "settled"}]
Idle == [kind |-> "none", version |-> 0, content |-> First, basis |-> None, next |-> FALSE,
         here |-> FALSE, shown |-> FALSE, got |-> None, stage |-> "none"]

Init ==
    /\ match = [version |-> 1, content |-> First, state |-> "draft"]
    /\ data = [e \in Editors |-> None]
    /\ fetch = [e \in Editors |-> None]
    /\ form = [e \in Editors |-> NoForm]
    /\ call = [e \in Editors |-> Idle]

Busy(e) == call[e].kind # "none"

\* The inputs and buttons are enabled.
Editable(e) == data[e].state = "draft" /\ ~Busy(e)

-----------------------------------------------------------------------------
(* The editor.                                                              *)

Fill(f, row) == [f EXCEPT !.base = row, !.content = row.content]

\* Mutant: new data is taken over whether or not the user has typed.
Sync_Always(f, row) == Fill(f, row)

\* The effect on new data of the match.
Sync(f, row) == IF f.edited THEN f ELSE Fill(f, row)

Type(e, content) ==
    /\ Editable(e)
    /\ form' = [form EXCEPT ![e].content = content, ![e].edited = TRUE]
    /\ UNCHANGED <<match, data, fetch, call>>

\* The mutation begins, and its earlier error is forgotten; f is the form.
Send(e, f, kind, version, next) ==
    /\ call' = [call EXCEPT ![e] =
           [Idle EXCEPT !.kind = kind, !.version = version, !.content = f.content,
                        !.basis = f.base, !.next = next, !.here = TRUE, !.shown = TRUE,
                        !.stage = "sent"]]
    /\ form' = [form EXCEPT ![e] = [f EXCEPT !.conflicts = @ \ {kind}]]
    /\ UNCHANGED <<match, data, fetch>>

\* The button that saves sends the version of the cached match.
SaveDraft(e) ==
    /\ Editable(e)
    /\ Send(e, form[e], "save", data[e].version, FALSE)

Dirty(e) == form[e].content # data[e].content

\* Mutant: confirming saves over the cached version, too.
BaseVersion_Cached(e) == data[e].version

\* baseVersion || current.version
BaseVersion(e) == IF form[e].base.version # 0 THEN form[e].base.version ELSE data[e].version

Clean(e) == [form[e] EXCEPT !.edited = FALSE, !.base = data[e]]

\* Mutant: what is not saved yet is not saved before it is confirmed.
ConfirmSaved_NotSaved(e) ==
    /\ Editable(e)
    /\ form[e].content \in Complete
    /\ Send(e, Clean(e), "confirm", data[e].version, FALSE)

\* confirmSaved: a dirty form is saved first, under the version it was filled
\* from; a clean one is the current match.
ConfirmSaved(e) ==
    /\ Editable(e)
    /\ form[e].content \in Complete
    /\ \/ Dirty(e) /\ Send(e, form[e], "save", BaseVersion(e), TRUE)
       \/ ~Dirty(e) /\ Send(e, Clean(e), "confirm", data[e].version, FALSE)

\* The button that reads the latest match, shown after 412 and 428.  It disables
\* nothing: one may type and save until the match is there.
Reload(e) ==
    /\ form[e].conflicts # {} /\ ~form[e].reload
    /\ fetch' = [fetch EXCEPT ![e] = None]
    /\ form' = [form EXCEPT ![e].reload = TRUE]
    /\ UNCHANGED <<match, data, call>>

-----------------------------------------------------------------------------
(* The server.                                                              *)

\* The call of e is answered: what it asked for no longer matters.
Answer(e, stage, row) ==
    call' = [call EXCEPT ![e] = [Idle EXCEPT
        !.kind = call[e].kind, !.next = call[e].next, !.here = call[e].here,
        !.shown = call[e].shown, !.stage = stage, !.got = row]]

\* save_match, confirm_match: another version is refused (412), any other
\* obstacle is an error.
Handle(e, kind, row, allowed) ==
    /\ call[e].kind = kind /\ call[e].stage = "sent"
    /\ \/ /\ match.version # call[e].version
          /\ UNCHANGED match /\ Answer(e, "refused", None)
       \/ /\ match.version = call[e].version /\ match.state = "draft" /\ allowed
          /\ match' = row /\ Answer(e, "done", row)
       \/ /\ match.version = call[e].version /\ ~(match.state = "draft" /\ allowed)
          /\ UNCHANGED match /\ Answer(e, "failed", None)
    /\ UNCHANGED <<data, fetch, form>>

HandleSave(e) ==
    /\ match.version < MaxVersion
    /\ Handle(e, "save",
           [match EXCEPT !.content = call[e].content, !.version = @ + 1], TRUE)

HandleConfirm(e) ==
    Handle(e, "confirm", [match EXCEPT !.state = "confirmed", !.version = @ + 1],
           match.content \in Complete)

-----------------------------------------------------------------------------
(* Replies and queries.                                                     *)

\* A request or a reply is lost.
LoseCall(e) ==
    /\ "call" \in Faults
    /\ call[e].stage \in {"sent", "done"}
    /\ Answer(e, "failed", None)
    /\ UNCHANGED <<match, data, fetch, form>>

\* A save's promise waits for the match to be fetched again; that of a
\* confirmation does not wait.
Done(e) ==
    /\ call[e].stage = "done"
    /\ fetch' = [fetch EXCEPT ![e] = None]
    /\ call' = [call EXCEPT ![e] =
           IF @.kind = "save" THEN [@ EXCEPT !.stage = "refresh"] ELSE Idle]
    /\ UNCHANGED <<match, data, form>>

\* The error is shown; what was typed stays.
Failed(e) ==
    /\ call[e].stage \in {"refused", "failed"}
    /\ call' = [call EXCEPT ![e] = Idle]
    /\ form' = [form EXCEPT ![e].conflicts =
           IF call[e].shown /\ call[e].stage = "refused" THEN @ \cup {call[e].kind} ELSE @]
    /\ UNCHANGED <<match, data, fetch>>

\* The save has been answered and the match fetched again.  After the plain
\* button neither the mark nor the base of the form changes; confirmSaved sets
\* both and confirms the version of the reply.
Settle(e) ==
    /\ call[e].kind = "save" /\ call[e].stage = "settled"
    /\ LET c == call[e] IN
       IF c.next
       THEN /\ form' = [form EXCEPT ![e] =
                   IF c.here THEN [@ EXCEPT !.edited = FALSE, !.base = c.got] ELSE @]
            /\ call' = [call EXCEPT ![e] =
                   [c EXCEPT !.kind = "confirm", !.stage = "sent", !.next = FALSE,
                             !.shown = c.here,
                             !.version = c.got.version, !.content = c.got.content,
                             !.basis = c.got, !.got = None]]
       ELSE UNCHANGED form /\ call' = [call EXCEPT ![e] = Idle]
    /\ UNCHANGED <<match, data, fetch>>

\* A save or a reload waits for the match.
Awaited(e) == call[e].stage = "refresh" \/ form[e].reload

\* A GET of the match is answered by the server (one that finds what is cached
\* tells nobody anything, unless somebody waits for it) ...
Fetch(e) ==
    /\ fetch[e] = None
    /\ data[e] # match \/ Awaited(e)
    /\ fetch' = [fetch EXCEPT ![e] = match]
    /\ UNCHANGED <<match, data, form, call>>

\* The call after a fetch ended: a save waits for no more.
Ended(c) ==
    IF c.kind = "save" /\ c.stage = "refresh" THEN [c EXCEPT !.stage = "settled"] ELSE c

\* ... and reaches the cache.  The form is filled from it unless it has edits;
\* a reload fills it in any case and lets go of the mutation (reset).
Arrive(e) ==
    /\ fetch[e] # None
    /\ LET row == fetch[e]
           reloaded == form[e].reload
           ended == Ended(call[e])
       IN /\ form' = [form EXCEPT ![e] =
                 IF reloaded THEN Fill(NoForm, row) ELSE Sync(@, row)]
          /\ data' = [data EXCEPT ![e] = row]
          /\ call' = [call EXCEPT ![e] = [ended EXCEPT !.shown = @ /\ ~reloaded]]
    /\ fetch' = [fetch EXCEPT ![e] = None]
    /\ UNCHANGED match

\* Mutant: a save goes on waiting for a fetch that failed.
FetchFails_StillWaiting(e) ==
    /\ "fetch" \in Faults
    /\ fetch[e] # None
    /\ fetch' = [fetch EXCEPT ![e] = None]
    /\ UNCHANGED <<match, data, form, call>>

\* The fetch fails: what is shown stays, and whoever waits for it goes on.
FetchFails(e) ==
    /\ "fetch" \in Faults
    /\ fetch[e] # None
    /\ fetch' = [fetch EXCEPT ![e] = None]
    /\ call' = [call EXCEPT ![e] = Ended(@)]
    /\ form' = [form EXCEPT ![e].reload = FALSE]
    /\ UNCHANGED <<match, data>>

\* The case, the profile or the session above the editor cannot be fetched again:
\* CasePage or SessionGate shows an error instead, and a new editor, filled from the cache, once it can.
PageFails(e) ==
    /\ "page" \in Faults
    /\ data[e] # None
    /\ form' = [form EXCEPT ![e] = Fill(NoForm, data[e])]
    /\ call' = [call EXCEPT ![e] = [@ EXCEPT !.here = FALSE, !.shown = FALSE]]
    /\ UNCHANGED <<match, data, fetch>>

Next == \E e \in Editors :
    \/ \E content \in Contents : Type(e, content)
    \/ SaveDraft(e) \/ ConfirmSaved(e) \/ Reload(e)
    \/ HandleSave(e) \/ HandleConfirm(e)
    \/ LoseCall(e) \/ Done(e) \/ Failed(e) \/ Settle(e)
    \/ Fetch(e) \/ Arrive(e) \/ FetchFails(e) \/ PageFails(e)

Spec == Init /\ [][Next]_vars

\* Every request is answered or lost, every fetch somebody waits for ends,
\* and promises are resolved.
Fairness == \A e \in Editors :
    /\ WF_vars(HandleSave(e) \/ HandleConfirm(e) \/ LoseCall(e))
    /\ WF_vars(Done(e) \/ Failed(e) \/ Settle(e))
    /\ WF_vars(Fetch(e) /\ Awaited(e))
    /\ WF_vars((Arrive(e) \/ FetchFails(e)) /\ Awaited(e))

-----------------------------------------------------------------------------
(* Properties.                                                              *)

TypeOK ==
    /\ match \in Snapshot
    /\ data \in [Editors -> Snapshot]
    /\ fetch \in [Editors -> Snapshot]
    /\ form \in [Editors -> Form]
    /\ call \in [Editors -> Call]
    /\ \A e \in Editors : call[e].stage = "none" => call[e] = Idle

\* The match as the contract sees it, and what an editor looks at: what the
\* form was filled from, and its text, when the button was clicked.
Document == [match EXCEPT !.state = IF @ = "confirmed" THEN "frozen" ELSE @]

Basis == [e \in Editors |->
    IF call[e].stage = "sent"
    THEN [of |-> "match", version |-> call[e].basis.version, content |-> call[e].content]
    ELSE [of |-> "match", version |-> 0, content |-> First]]

Contract == INSTANCE EditContract WITH
    Documents <- {"match"}, doc <- [d \in {"match"} |-> Document], basis <- Basis

\* Two edits of one version do not both succeed, and a match is confirmed as
\* its counselor saw it: the contract of the editing pages.
EditsByTheBook == Contract!Spec

\* Confirming a match freezes what the form said when the button was clicked,
\* saved first if need be, whatever others save meanwhile (confirmSaved).
ConfirmsReviewed ==
    (match.state = "draft" /\ match'.state = "confirmed") =>
        \E e \in Editors :
            /\ call[e].kind = "confirm" /\ call[e].stage = "sent"
            /\ call[e].content = match'.content

\* The save that confirming makes replaces only the version the form was
\* filled from, even when the cache has moved on (baseVersion).
ReplacesOwnBase ==
    \A e \in Editors :
        (/\ call[e].kind = "save" /\ call[e].next
         /\ call[e].stage = "sent" /\ call'[e].stage = "done") =>
            call[e].basis.version = match.version

\* What the user has typed leaves the form only by typing on, by a reload the
\* user asked for, or with the editor itself, when what is above it on the page
\* cannot be read: no refresh of the match in the background takes it away.
KeepsTyping ==
    \A e \in Editors :
        (form[e].edited /\ form'[e].content # form[e].content) =>
            \/ form'[e].edited /\ UNCHANGED data
            \/ form[e].reload /\ fetch[e] # None
            \/ PageFails(e)

\* A conflict means that somebody else has changed the match: in a single tab
\* whose requests all arrive there is none.
NoFalseConflict ==
    \A e \in Editors : (Editors = {e} /\ Faults = {}) => form[e].conflicts = {}

=============================================================================
