----------------------------- MODULE AssetPicker -----------------------------
(***************************************************************************)
(* The list of files of a form (shared/ui/AssetInput.tsx): a file is       *)
(* uploaded, checked at the server, attached to the form's value once it   *)
(* is ready, and may be deleted.                                           *)
(*                                                                         *)
(* The value belongs to the parent and is always written as a whole, from  *)
(* what was rendered last: a callback that is called before the next       *)
(* rendering works with the older value, and the last of several wins.     *)
(* Effects of a rendering run before the next one, but not before a reply. *)
(*                                                                         *)
(* A row reads the server in one step.  "disabled" only takes the user's   *)
(* choices away and is left out.                                           *)
(***************************************************************************)
EXTENDS Naturals, FiniteSets

CONSTANTS
    Files,      \* identifiers of files
    NoFile,     \* no file
    Limit,      \* a form takes no more files than these (5 in the code)
    MaxResets,  \* bound on how often the parent replaces the value
    Faults      \* bound on what the network does: with "call", requests fail

VARIABLES
    asset,     \* asset[f]: the state of the file at the server
    row,       \* row[f]: the state the query of its row has cached
    value,     \* the ids of the form
    pending,   \* the ids uploaded here
    upload,    \* the upload under way
    deletion,  \* deletion[f]: the deletion of f under way, sent for a file in a state
    shown,     \* what was rendered last
    due,       \* rows whose effect is to run
    stale,     \* a state was set since
    resets

vars == <<asset, row, value, pending, upload, deletion, shown, due, stale, resets>>

Checked == {"quarantined", "ready", "rejected"}
Ends == {"none", "done", "failed"}
States == {"none", "deleted"} \cup Checked
NoUpload == [file |-> NoFile, stage |-> "none"]

Ids == value \cup pending
Now == [value |-> value, ids |-> Ids, uploading |-> upload # NoUpload]

Init ==
    /\ value \in SUBSET Files /\ Cardinality(value) < Limit
    /\ asset = [f \in Files |-> IF f \in value THEN "ready" ELSE "none"]
    /\ row = [f \in Files |-> "none"]
    /\ pending = {}
    /\ upload = NoUpload
    /\ deletion = [f \in Files |-> "none"]
    /\ shown = [value |-> value, ids |-> value, uploading |-> FALSE]
    /\ due = {}
    /\ stale = FALSE
    /\ resets = 0

\* A user acts when nothing is left to render: no reply is as quick.
UpToDate == due = {} /\ ~stale

-----------------------------------------------------------------------------
(* Rendering.                                                               *)

\* Mutant: an effect runs again only when the state of its file changed.
Rerun_OnState == {}

\* The rows whose file is ready: "ready" is another function in each rendering,
\* so that the effect of every row runs again.
Rerun == {f \in Ids : row[f] = "ready"}

Render ==
    /\ due = {} /\ stale
    /\ stale' = FALSE
    /\ shown' = Now
    /\ due' = Rerun
    /\ UNCHANGED <<asset, row, value, pending, upload, deletion, resets>>

\* All effects of a rendering: each ready file that the value rendered lacks is
\* added to that value; of several calls one is the last.
Effects ==
    /\ due # {}
    /\ due' = {}
    /\ \/ \E f \in due \ shown.value : value' = shown.value \cup {f} /\ stale' = TRUE
       \/ due \subseteq shown.value /\ UNCHANGED <<value, stale>>
    /\ UNCHANGED <<asset, row, pending, upload, deletion, shown, resets>>

\* The parent takes another value over: that of a row saved before.
Replace(ids) ==
    /\ resets < MaxResets
    /\ value' = ids /\ stale' = TRUE
    /\ resets' = resets + 1
    /\ UNCHANGED <<asset, row, pending, upload, deletion, shown, due>>

-----------------------------------------------------------------------------
(* Uploading and checking.                                                  *)

\* The input is enabled.
Offered == UpToDate /\ ~shown.uploading /\ Cardinality(shown.ids) < Limit

Upload(f) ==
    /\ Offered
    /\ asset[f] = "none"
    /\ upload' = [file |-> f, stage |-> "sent"] /\ stale' = TRUE
    /\ UNCHANGED <<asset, row, value, pending, deletion, shown, due, resets>>

HandleUpload ==
    /\ upload.stage = "sent"
    /\ asset' = [asset EXCEPT ![upload.file] = "quarantined"]
    /\ upload' = [upload EXCEPT !.stage = "done"]
    /\ UNCHANGED <<row, value, pending, deletion, shown, due, stale, resets>>

LoseUpload ==
    /\ "call" \in Faults
    /\ upload.stage \in {"sent", "done"}
    /\ upload' = [upload EXCEPT !.stage = "failed"]
    /\ UNCHANGED <<asset, row, value, pending, deletion, shown, due, stale, resets>>

Uploaded ==
    /\ upload.stage \in {"done", "failed"}
    /\ pending' = IF upload.stage = "done" THEN pending \cup {upload.file} ELSE pending
    /\ upload' = NoUpload /\ stale' = TRUE
    /\ UNCHANGED <<asset, row, value, deletion, shown, due, resets>>

\* FileJobs.scan
Scan(f) ==
    /\ asset[f] = "quarantined"
    /\ \E verdict \in {"ready", "rejected"} : asset' = [asset EXCEPT ![f] = verdict]
    /\ UNCHANGED <<row, value, pending, upload, deletion, shown, due, stale, resets>>

\* The same user deletes the file on another page.
DeleteElsewhere(f) ==
    /\ asset[f] \notin {"none", "deleted"}
    /\ asset' = [asset EXCEPT ![f] = "deleted"]
    /\ UNCHANGED <<row, value, pending, upload, deletion, shown, due, stale, resets>>

\* The query of a row, rendered before any effect is due.  A deleted file is
\* not found, and the row keeps what it has.
Read(f) ==
    /\ f \in shown.ids /\ due = {}
    /\ asset[f] # "deleted" /\ row[f] # asset[f]
    /\ row' = [row EXCEPT ![f] = asset[f]]
    /\ due' = IF asset[f] = "ready" THEN {f} ELSE {}
    /\ UNCHANGED <<asset, value, pending, upload, deletion, shown, stale, resets>>

\* The first query of a row, and the interval while its file is checked.
Poll(f) == row[f] \in {"none", "quarantined"} /\ Read(f)

-----------------------------------------------------------------------------
(* Deleting.                                                                *)

Delete(f) ==
    /\ UpToDate /\ f \in Ids
    /\ row[f] # "none" /\ deletion[f] = "none"
    /\ deletion' = [deletion EXCEPT ![f] = row[f]]
    /\ UNCHANGED <<asset, row, value, pending, upload, shown, due, stale, resets>>

\* delete: refused for another version than the row had, for a deleted file,
\* and (by choice here) for a file that something links to.
HandleDelete(f) ==
    /\ deletion[f] \in Checked
    /\ \/ /\ deletion[f] = asset[f]
          /\ asset' = [asset EXCEPT ![f] = "deleted"]
          /\ deletion' = [deletion EXCEPT ![f] = "done"]
       \/ deletion' = [deletion EXCEPT ![f] = "failed"] /\ UNCHANGED asset
    /\ UNCHANGED <<row, value, pending, upload, shown, due, stale, resets>>

LoseDelete(f) ==
    /\ "call" \in Faults
    /\ deletion[f] = "done"
    /\ deletion' = [deletion EXCEPT ![f] = "failed"]
    /\ UNCHANGED <<asset, row, value, pending, upload, shown, due, stale, resets>>

\* remove, with the value rendered last.
Deleted(f) ==
    /\ deletion[f] \in {"done", "failed"}
    /\ IF deletion[f] = "done"
       THEN value' = shown.value \ {f} /\ pending' = pending \ {f} /\ stale' = TRUE
       ELSE UNCHANGED <<value, pending, stale>>
    /\ deletion' = [deletion EXCEPT ![f] = "none"]
    /\ UNCHANGED <<asset, row, upload, shown, due, resets>>

Next ==
    \/ Render \/ Effects \/ HandleUpload \/ LoseUpload \/ Uploaded
    \/ \E ids \in SUBSET value : Replace(ids)
    \/ \E f \in Files :
          \/ Upload(f) \/ Scan(f) \/ DeleteElsewhere(f) \/ Read(f)
          \/ Delete(f) \/ HandleDelete(f) \/ LoseDelete(f) \/ Deleted(f)

Spec == Init /\ [][Next]_vars

\* React renders and runs effects, files are checked, a row asks again until
\* its file is, and replies are taken in.  A row whose first query fails is not
\* asked again: this fairness stands for a network that answers at some time.
Fairness ==
    /\ WF_vars(Render) /\ WF_vars(Effects)
    /\ \A f \in Files : WF_vars(Scan(f)) /\ WF_vars(Poll(f)) /\ WF_vars(Deleted(f))

-----------------------------------------------------------------------------
(* Properties.                                                              *)

TypeOK ==
    /\ asset \in [Files -> States] /\ row \in [Files -> States]
    /\ value \subseteq Files /\ pending \subseteq Files
    /\ upload \in [file: Files \cup {NoFile}, stage: {"sent"} \cup Ends]
    /\ deletion \in [Files -> Checked \cup Ends]
    /\ shown \in [value: SUBSET Files, ids: SUBSET Files, uploading: BOOLEAN]
    /\ due \subseteq Files /\ stale \in BOOLEAN /\ resets \in 0..MaxResets

\* A file that was uploaded here, passed its check and stays in the list is
\* attached for good at some time, although callbacks overwrite one another.
ReadyIsAttached ==
    \A f \in Files :
        <>[](f \in pending /\ asset[f] = "ready") => <>[](f \in value)

=============================================================================
