---------------------------- MODULE PersonalForm ----------------------------
(***************************************************************************)
(* One user's own settings or profile in several browser tabs              *)
(* (features/profile: ProfileForm, PreferencesPage, SettingsPage), and the *)
(* prompts that obey the settings (shared/preferences, shared/platform).   *)
(* Both forms keep the version they were filled from, save the whole row   *)
(* under it and put the reply into the query cache; the prompts read the   *)
(* cache.  A value stands for the whole row; Quiet are the values with     *)
(* quiet_mode.  The two sections of SettingsPage are hidden and not        *)
(* unmounted: changing the section changes nothing here.                   *)
(***************************************************************************)
EXTENDS Naturals

CONSTANTS
    Tabs,
    Values,      \* what the row may say
    First,       \* the one it says at first
    Quiet,       \* those under which no sound is played
    MaxVersion,  \* bound on the version of the row
    Faults       \* bound on what the network does: "call", "fetch" fail

VARIABLES
    row,     \* the row of the user: version, value
    cache,   \* cache[t]: the query data of tab t, version 0 while absent
    fetch,   \* fetch[t]: what the server answered to a GET under way
    form,    \* form[t]: the mounted form
    call     \* call[t]: its mutation or reload

vars == <<row, cache, fetch, form, call>>

Snapshot == [version: Nat, value: Values]
None == [version |-> 0, value |-> First]

Form == [open: BOOLEAN, base: Snapshot, value: Values, conflict: BOOLEAN]
Closed == [open |-> FALSE, base |-> None, value |-> First, conflict |-> FALSE]

\* here: the form that made the call is still mounted.
Call == [stage: {"none", "sent", "done", "refused", "failed", "reload"},
         base: Snapshot, value: Values, got: Snapshot, here: BOOLEAN]
Idle == [stage |-> "none", base |-> None, value |-> First, got |-> None, here |-> FALSE]

Init ==
    /\ row = [version |-> 1, value |-> First]
    /\ cache = [t \in Tabs |-> None]
    /\ fetch = [t \in Tabs |-> None]
    /\ form = [t \in Tabs |-> Closed]
    /\ call = [t \in Tabs |-> Idle]

Busy(t) == call[t].stage # "none"

-----------------------------------------------------------------------------
(* The form.                                                                *)

\* useState(initial): a form is filled from the cache when it is mounted.
Open(t) ==
    /\ ~form[t].open /\ ~Busy(t)
    /\ cache[t] # None
    /\ form' = [form EXCEPT ![t] =
           [Closed EXCEPT !.open = TRUE, !.base = cache[t], !.value = cache[t].value]]
    /\ UNCHANGED <<row, cache, fetch, call>>

\* The user goes to another page, or the session cannot be read (SessionGate).
Leave(t) ==
    /\ form[t].open
    /\ form' = [form EXCEPT ![t] = Closed]
    /\ call' = [call EXCEPT ![t].here = FALSE]
    /\ UNCHANGED <<row, cache, fetch>>

Change(t, value) ==
    /\ form[t].open /\ ~Busy(t)
    /\ form' = [form EXCEPT ![t].value = value]
    /\ UNCHANGED <<row, cache, fetch, call>>

\* submit: the whole value, under the version the form was filled from.
Submit(t) ==
    /\ form[t].open /\ ~Busy(t)
    /\ form' = [form EXCEPT ![t].conflict = FALSE]
    /\ call' = [call EXCEPT ![t] = [Idle EXCEPT
           !.stage = "sent", !.base = form[t].base, !.value = form[t].value, !.here = TRUE]]
    /\ UNCHANGED <<row, cache, fetch>>

\* reload, offered after a conflict: the query is fetched anew.
Reload(t) ==
    /\ form[t].open /\ form[t].conflict /\ ~Busy(t)
    /\ fetch' = [fetch EXCEPT ![t] = None]
    /\ call' = [call EXCEPT ![t] = [Idle EXCEPT !.stage = "reload", !.here = TRUE]]
    /\ UNCHANGED <<row, cache, form>>

-----------------------------------------------------------------------------
(* The server and the network.                                              *)

Answer(t, stage, got) ==
    call' = [call EXCEPT ![t] = [Idle EXCEPT !.stage = stage, !.got = got, !.here = call[t].here]]

\* Mutant: the version of the request is not looked at.
CurrentVersion_Any(t) == TRUE

\* require_version
CurrentVersion(t) == call[t].base.version = row.version

\* save_personal
HandleSave(t) ==
    /\ call[t].stage = "sent"
    /\ row.version < MaxVersion
    /\ LET saved == [version |-> row.version + 1, value |-> call[t].value] IN
       IF CurrentVersion(t)
       THEN row' = saved /\ Answer(t, "done", saved)
       ELSE UNCHANGED row /\ Answer(t, "refused", None)
    /\ UNCHANGED <<cache, fetch, form>>

\* A request or a reply is lost.
LoseCall(t) ==
    /\ "call" \in Faults
    /\ call[t].stage \in {"sent", "done"}
    /\ Answer(t, "failed", None)
    /\ UNCHANGED <<row, cache, fetch, form>>

\* onSuccess: the reply becomes the base of the form, if that is still there,
\* and the data of the query; a fetch under way goes on.
Saved(t) ==
    /\ call[t].stage = "done"
    /\ form' = [form EXCEPT ![t] = IF call[t].here
           THEN [@ EXCEPT !.base = call[t].got, !.value = call[t].got.value] ELSE @]
    /\ cache' = [cache EXCEPT ![t] = call[t].got]
    /\ call' = [call EXCEPT ![t] = Idle]
    /\ UNCHANGED <<row, fetch>>

\* The error is shown and what was entered stays.
Failed(t) ==
    /\ call[t].stage \in {"refused", "failed"}
    /\ form' = [form EXCEPT ![t].conflict = call[t].here /\ call[t].stage = "refused"]
    /\ call' = [call EXCEPT ![t] = Idle]
    /\ UNCHANGED <<row, cache, fetch>>

Fetch(t) ==
    /\ fetch[t] = None
    /\ fetch' = [fetch EXCEPT ![t] = row]
    /\ UNCHANGED <<row, cache, form, call>>

Reloading(t) == call[t].stage = "reload"

\* Mutant: new data fills the form like a reload does.
Refilled_Always(t) == form[t].open

\* Only a reload fills a form that is already there.
Refilled(t) == Reloading(t) /\ call[t].here

\* The fetch reaches the cache.
Arrive(t) ==
    /\ fetch[t] # None
    /\ cache' = [cache EXCEPT ![t] = fetch[t]]
    /\ fetch' = [fetch EXCEPT ![t] = None]
    /\ form' = [form EXCEPT ![t] = IF Refilled(t)
           THEN [open |-> TRUE, base |-> fetch[t], value |-> fetch[t].value, conflict |-> FALSE]
           ELSE @]
    /\ call' = [call EXCEPT ![t] = IF Reloading(t) THEN Idle ELSE @]
    /\ UNCHANGED row

\* The fetch fails; after a reload that fails the edits are still there.
FetchFails(t) ==
    /\ "fetch" \in Faults
    /\ fetch[t] # None
    /\ fetch' = [fetch EXCEPT ![t] = None]
    /\ call' = [call EXCEPT ![t] = IF Reloading(t) THEN Idle ELSE @]
    /\ UNCHANGED <<row, cache, form>>

Next == \E t \in Tabs :
    \/ Open(t) \/ Leave(t) \/ Submit(t) \/ Reload(t)
    \/ \E value \in Values : Change(t, value)
    \/ HandleSave(t) \/ LoseCall(t) \/ Saved(t) \/ Failed(t)
    \/ Fetch(t) \/ Arrive(t) \/ FetchFails(t)

Spec == Init /\ [][Next]_vars

-----------------------------------------------------------------------------
(* Properties.                                                              *)

\* What the device may do in tab t: quiet until the settings are known
\* (QUIET_DEFAULTS), then what the cached settings say.
Silent(t) == cache[t] = None \/ cache[t].value \in Quiet

\* A form is based on what the server had under that version, and never on a
\* version the server has not reached.
TypeOK ==
    /\ row \in Snapshot
    /\ cache \in [Tabs -> Snapshot]
    /\ fetch \in [Tabs -> Snapshot]
    /\ form \in [Tabs -> Form]
    /\ call \in [Tabs -> Call]
    /\ \A t \in Tabs : form[t].open =>
          /\ form[t].base.version \in 1..row.version
          /\ form[t].base.version = row.version => form[t].base.value = row.value

\* The row as the contract of the editing pages sees it.
Basis == [t \in Tabs |->
    IF call[t].stage = "sent"
    THEN [of |-> "row", version |-> call[t].base.version, content |-> call[t].value]
    ELSE [of |-> "row", version |-> 0, content |-> First]]

Contract == INSTANCE EditContract WITH
    Editors <- Tabs, Documents <- {"row"}, Contents <- Values, basis <- Basis,
    doc <- [d \in {"row"} |->
               [version |-> row.version, content |-> row.value, state |-> "draft"]]

\* A save replaces only the version the form was filled from: what another tab
\* saved meanwhile is never overwritten unseen (updateHeaders(base.version)).
EditsByTheBook == Contract!Spec

\* What the user has entered changes only by entering more, by a save of it or
\* by a reload that succeeded ("你的修改仍在这里", "重新读取失败，修改仍保留"); the
\* form closes only with its page.
KeepsTyping ==
    \A t \in Tabs :
        (form[t].open /\ form'[t].open /\ form'[t].value # form[t].value) =>
            \/ UNCHANGED <<cache, call>> /\ ~Busy(t)
            \/ Reloading(t) /\ form'[t].base = fetch[t]

\* A tab whose form says that the quiet settings are saved, and whose user has
\* not changed them elsewhere, is quiet.
QuietObeyed ==
    \A t \in Tabs :
        (form[t].open /\ ~Busy(t) /\ form[t].base = row /\ row.value \in Quiet) => Silent(t)

=============================================================================
