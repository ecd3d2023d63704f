---------------------------------- MODULE Sop ----------------------------------
(***************************************************************************)
(* The support match and the SOP plans of one support case                 *)
(* (modules/cases/service.py and modules/sop/service.py): a plan holds     *)
(* numbered revisions, at most one of them a draft; publishing a draft     *)
(* freezes it and links its media.                                         *)
(*                                                                         *)
(* What a revision says is abstracted to a record of Content: how many     *)
(* steps it has, which of them require evidence, which media files they    *)
(* show, and whether goal and instructions are filled in.  Steps are named *)
(* by their position, which a published revision never changes.            *)
(* ifMatch is the version the request carries in its If-Match header.      *)
(***************************************************************************)
EXTENDS FileAssets

CONSTANTS
    Plans,
    Contents,    \* the contents an editor may write
    MaxSteps,    \* bound on the steps of a revision (100 in the code)
    MaxVersion   \* bound on the edits of one row

Steps == 1..MaxSteps

Content == [len: 0..MaxSteps, evidence: SUBSET Steps,
            media: SUBSET Files, complete: BOOLEAN]

ASSUME ContentsAssumption == Contents \subseteq Content
ASSUME MaxStepsAssumption == MaxSteps \in Nat
ASSUME PlansAssumption == None \notin Plans

VARIABLES
    match,     \* the support match: state, version, what is written
    plan,      \* plan[p]: version of the sop_plans row, 0 while absent
    revision   \* revision[r]: the sop_revisions row with its steps

sopVars == <<match, plan, revision>>

EmptyContent == [len |-> 0, evidence |-> {}, media |-> {}, complete |-> FALSE]

\* A match is confirmed only when its three texts are filled in.
Texts == {"blank", "filled"}
Match == [state: {"draft", "confirmed"}, version: Nat, text: Texts]
Revision == [state: {"absent", "draft", "published"}, plan: Plans \cup {None},
             number: Nat, version: Nat, content: Content]

NoRevision == [state |-> "absent", plan |-> None, number |-> 0,
               version |-> 0, content |-> EmptyContent]

SopTypeOK ==
    /\ match \in Match
    /\ plan \in [Plans -> Nat]
    /\ revision \in [Revisions -> Revision]

SopInit ==
    /\ match = [state |-> "draft", version |-> 1, text |-> "blank"]
    /\ plan = [p \in Plans |-> 0]
    /\ revision = [r \in Revisions |-> NoRevision]

-----------------------------------------------------------------------------
(* The support match.  The case row turns from pending_match to active in   *)
(* the same transaction, so the state of the match stands for both.         *)

SaveMatch(text, ifMatch) ==
    /\ ifMatch = match.version
    /\ match.state = "draft"
    /\ match.version < MaxVersion
    /\ match' = [match EXCEPT !.text = text, !.version = @ + 1]
    /\ UNCHANGED <<plan, revision, fileVars>>

ConfirmMatch(ifMatch) ==
    /\ ifMatch = match.version
    /\ match.state = "draft"
    /\ match.text = "filled"
    /\ match' = [match EXCEPT !.state = "confirmed", !.version = @ + 1]
    /\ UNCHANGED <<plan, revision, fileVars>>

-----------------------------------------------------------------------------

RevisionsOf(p) == {r \in Revisions : revision[r].plan = p}

\* Mutant: a plan may hold several drafts.
HasDraft_Never(p) == FALSE

\* CURRENT_DRAFT_EXISTS: the plan already has a draft.
HasDraft(p) == \E r \in RevisionsOf(p) : revision[r].state = "draft"

\* Every revision of a plan counts up the plan's version, which so bounds the
\* numbers too.
Numbers == 1..MaxVersion

\* create_revision: n is one more than the largest number of the plan.
NextNumber(p, n) ==
    /\ \A r \in RevisionsOf(p) : revision[r].number < n
    /\ n = 1 \/ \E r \in RevisionsOf(p) : revision[r].number = n - 1

Draft(p, n, content) ==
    [state |-> "draft", plan |-> p, number |-> n, version |-> 1, content |-> content]

\* create_plan: the plan and its first, empty draft.
CreatePlan(p, r) ==
    /\ plan[p] = 0
    /\ revision[r].state = "absent"
    /\ plan' = [plan EXCEPT ![p] = 1]
    /\ revision' = [revision EXCEPT ![r] = Draft(p, 1, EmptyContent)]
    /\ UNCHANGED <<match, fileVars>>

\* What a new draft starts from: nothing, or a published revision of its plan.
Bases(p) ==
    {EmptyContent} \cup
    {revision[b].content : b \in {b \in RevisionsOf(p) : revision[b].state = "published"}}

\* create_revision
CreateRevision(p, r) ==
    /\ plan[p] \in 1..(MaxVersion - 1)
    /\ revision[r].state = "absent"
    /\ ~HasDraft(p)
    /\ \E base \in Bases(p), n \in Numbers :
          /\ NextNumber(p, n)
          /\ revision' = [revision EXCEPT ![r] = Draft(p, n, base)]
    /\ plan' = [plan EXCEPT ![p] = @ + 1]
    /\ UNCHANGED <<match, fileVars>>

\* Mutant: the version is not counted up, so two editors overwrite each other.
SaveRevision_SameVersion(r, content, ifMatch) ==
    /\ ifMatch = revision[r].version
    /\ revision[r].state = "draft"
    /\ RequireFiles(content.media, "sop_media", None)
    /\ revision' = [revision EXCEPT ![r].content = content]
    /\ UNCHANGED <<match, plan, fileVars>>

\* save_revision: replace the steps of a draft.  Its media must be ready but
\* are not linked yet.
SaveRevision(r, content, ifMatch) ==
    /\ ifMatch = revision[r].version
    /\ revision[r].state = "draft"
    /\ revision[r].version < MaxVersion
    /\ RequireFiles(content.media, "sop_media", None)
    /\ revision' = [revision EXCEPT ![r].content = content, ![r].version = @ + 1]
    /\ UNCHANGED <<match, plan, fileVars>>

\* Mutant: an unfinished draft may be published, and without a confirmed match.
Publishable_Any(r) == revision[r].state = "draft"

\* validate_publication: a draft with goal, steps and instructions, in a case
\* whose match is confirmed.
Publishable(r) ==
    /\ revision[r].state = "draft"
    /\ match.state = "confirmed"
    /\ revision[r].content.complete
    /\ revision[r].content.len >= 1

\* publish, within the transaction that also creates the task.
PublishRevision(r, ifMatch) ==
    /\ ifMatch = revision[r].version
    /\ RequireFiles(revision[r].content.media, "sop_media", None)
    /\ Publishable(r)
    /\ revision' = [revision EXCEPT ![r].state = "published", ![r].version = @ + 1]
    /\ plan' = [plan EXCEPT ![revision[r].plan] = @ + 1]
    /\ LinkFiles(revision[r].content.media, "sop_revision", r, 0)
    /\ UNCHANGED <<match, asset>>

-----------------------------------------------------------------------------
(* Properties.                                                              *)

\* A plan has at most one draft, its revisions carry different numbers, and
\* the draft is always the highest: publishing order is numbering order.
RevisionsInOrder ==
    \A r1, r2 \in Revisions :
        (r1 # r2 /\ revision[r1].plan = revision[r2].plan /\ revision[r1].plan # None) =>
            /\ revision[r1].number # revision[r2].number
            /\ revision[r1].state = "draft" => revision[r2].number < revision[r1].number

\* The media a published revision shows stay available for as long as the
\* revision exists: they are ready and linked, whatever is deleted later.
PublishedMediaKept ==
    \A r \in Revisions : revision[r].state = "published" =>
        \A f \in revision[r].content.media :
            /\ Usable(f)
            /\ \E l \in links : l.asset = f /\ l.kind = "sop_revision" /\ l.rev = r

\* What was published was complete, had at least one step, and its match was
\* filled in and confirmed; the match is never edited again and the revision
\* never changes, so this holds for ever (save_match, validate_publication).
PublishedComplete ==
    \A r \in Revisions : revision[r].state = "published" =>
        /\ match.state = "confirmed" /\ match.text = "filled"
        /\ revision[r].content.complete
        /\ revision[r].content.len \in Steps

\* A version names one content: a revision never changes under the version a
\* client holds, and what is published never changes at all.
RevisionVersionsNameContent ==
    [][\A r \in Revisions :
         /\ revision[r]' # revision[r] => revision[r].version < revision[r].version'
         /\ revision[r].state = "published" => revision[r]' = revision[r]]_revision

=============================================================================
