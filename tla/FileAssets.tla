------------------------------ MODULE FileAssets ------------------------------
(***************************************************************************)
(* Private files of one support case and the links that keep them alive    *)
(* (infrastructure/assets.py, infrastructure/file_service.py and the       *)
(* second transaction of FileJobs.scan).                                   *)
(*                                                                         *)
(* Every handler below runs in one database transaction that holds the     *)
(* row lock of the case (read_access(..., lock=True)) or, for the scan     *)
(* result, the row lock of the file; each is therefore one atomic action.  *)
(* Audit rows, notifications and enqueued jobs are append-only outputs     *)
(* that none of these handlers reads, and are left out.                    *)
(*                                                                         *)
(* A training task is identified by its SOP revision:                      *)
(* training_tasks.revision_id is UNIQUE.                                   *)
(***************************************************************************)
EXTENDS Integers

CONSTANTS
    Files,      \* identifiers of file_assets rows
    Revisions,  \* identifiers of sop_revisions rows, and of their tasks
    None        \* a NULL column

ASSUME NoneAssumption == None \notin Revisions

VARIABLES
    asset,  \* asset[f]: the file_assets row of f
    links   \* the rows of file_links

fileVars == <<asset, links>>

AssetStates == {"absent", "quarantined", "ready", "rejected", "deleted"}
Purposes == {"profile_material", "sop_media", "task_evidence"}

Asset == [state: AssetStates, version: Nat,
          purpose: Purposes, task: Revisions \cup {None}]

\* owner_kind, and owner_id as a revision, or as a task and an attempt number.
Link == [asset: Files, kind: {"sop_revision", "submission"},
         rev: Revisions, attempt: Nat]

NoAsset == [state |-> "absent", version |-> 0,
            purpose |-> "sop_media", task |-> None]

FilesTypeOK ==
    /\ asset \in [Files -> Asset]
    /\ links \subseteq Link

FilesInit ==
    /\ asset = [f \in Files |-> NoAsset]
    /\ links = {}

-----------------------------------------------------------------------------

\* Mutant: a link does not protect its file.
InUse_Never(f) == FALSE

\* delete's FILE_IN_USE test: some file_links row refers to the file.
InUse(f) == \E l \in links : l.asset = f

Usable(f) == asset[f].state = "ready"

\* require_files: every row exists in this context and is ready.
RequireFiles(fs, purpose, task) ==
    \A f \in fs : /\ asset[f].purpose = purpose
                  /\ task # None => asset[f].task = task
                  /\ Usable(f)

LinksOf(fs, kind, r, n) ==
    [asset: fs, kind: {kind}, rev: {r}, attempt: {n}]

\* Mutant: the owner forgets to link its files.
LinkFiles_None(fs, kind, r, n) == links' = links

\* link_files: add the missing links of an owner.
LinkFiles(fs, kind, r, n) == links' = links \cup LinksOf(fs, kind, r, n)

-----------------------------------------------------------------------------

\* upload: the row starts in quarantine. The context (who may upload where) is
\* the guard of the action that uses it.
Upload(f, purpose, task) ==
    /\ asset[f].state = "absent"
    /\ asset' = [asset EXCEPT ![f] = [state |-> "quarantined", version |-> 1,
                                      purpose |-> purpose, task |-> task]]
    /\ UNCHANGED links

\* FileJobs.scan, its second transaction: the verdict of the external scanner
\* is applied only while the row is as the scan found it.
ApplyScan(f, verdict) ==
    /\ asset[f].state = "quarantined"
    /\ asset' = [asset EXCEPT ![f].state = verdict, ![f].version = @ + 1]
    /\ UNCHANGED links

\* delete: by the uploader, refused while any link refers to the file.
DeleteFile(f, ifMatch) ==
    /\ asset[f].state \notin {"absent", "deleted"}
    /\ ifMatch = asset[f].version
    /\ ~InUse(f)
    /\ asset' = [asset EXCEPT ![f].state = "deleted", ![f].version = @ + 1]
    /\ UNCHANGED links

=============================================================================
