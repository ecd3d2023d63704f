-------------------------- MODULE DraftEditorProofs --------------------------
(***************************************************************************)
(* What holds of the drafts of an SOP for any number of tabs, contents and *)
(* revisions, whatever requests and fetches fail: the forms are well       *)
(* formed, a form is based on what the server had, and the tabs keep to    *)
(* the contract of EditContract.                                           *)
(***************************************************************************)
EXTENDS DraftEditor, TLAPS

USE ContentsAssumption, BoundAssumption

StepOf(e) ==
    \/ \E content \in Contents : Type(e, content)
    \/ SaveDraft(e) \/ PublishSaved(e) \/ CreateDraft(e) \/ Reload(e)
    \/ HandleSave(e) \/ HandlePublish(e) \/ HandleCreate(e)
    \/ LoseCall(e) \/ Saved(e) \/ Published(e) \/ Created(e) \/ Failed(e) \/ Settle(e)
    \/ Fetch(e) \/ Arrive(e) \/ FetchFails(e)
    \/ \E r \in Numbers : TurnTo(e, r)
    \/ PlansFail(e)

-----------------------------------------------------------------------------
(* Well-formed parts.                                                       *)

LEMMA Constants ==
    /\ 1 \in Numbers
    /\ NoRevision \in Snapshot
    /\ NoForm \in Form
    /\ Idle \in Call
BY DEF Numbers, NoRevision, Snapshot, NoForm, Form, Idle, Call

LEMMA SnapshotFields ==
    ASSUME NEW s \in Snapshot
    PROVE  /\ s.version \in Nat /\ s.content \in Contents
           /\ s.state \in {"absent", "draft", "published"}
BY DEF Snapshot

\* The rows that the handlers write.
LEMMA RowTypes ==
    ASSUME NEW s \in Snapshot, NEW content \in Contents
    PROVE  /\ [s EXCEPT !.content = content, !.version = @ + 1] \in Snapshot
           /\ [s EXCEPT !.state = "published", !.version = @ + 1] \in Snapshot
           /\ [s EXCEPT !.version = 1, !.state = "draft"] \in Snapshot
<1>1. s.version + 1 \in Nat
  BY SnapshotFields
<1>2. QED
  BY <1>1 DEF Snapshot

LEMMA FormFields ==
    ASSUME NEW f \in Form
    PROVE  /\ f.open \in BOOLEAN /\ f.base \in Snapshot /\ f.content \in Contents
           /\ f.edited \in BOOLEAN /\ f.errors \in SUBSET {"save", "publish"}
           /\ f = [open |-> f.open, base |-> f.base, content |-> f.content,
                   edited |-> f.edited, errors |-> f.errors]
BY DEF Form

LEMMA CallFields ==
    ASSUME NEW c \in Call
    PROVE  /\ c.kind \in {"none", "save", "publish", "create", "reload"}
           /\ c.of \in Numbers /\ c.version \in Nat /\ c.content \in Contents
           /\ c.base \in Snapshot /\ c.publishNext \in BOOLEAN /\ c.here \in BOOLEAN
           /\ c.got \in Snapshot
           /\ c.stage \in {"none", "sent", "done", "failed", "refresh", "settled"}
BY DEF Call

LEMMA SyncType ==
    ASSUME NEW f \in Form, NEW data \in Snapshot
    PROVE  /\ Sync(f, data) \in Form
           /\ Sync(f, data).open => data.state = "draft"
           /\ Sync(f, data).open => Sync(f, data).base \in {f.base, data}
           /\ Sync(f, data).open /\ Sync(f, data).base # data => f.open
<1>1. CASE data.state # "draft"
  BY <1>1, Constants DEF Sync, NoForm
<1>2. CASE data.state = "draft" /\ ~f.open
  <2>1. Sync(f, data) = [NoForm EXCEPT !.open = TRUE, !.base = data, !.content = data.content]
    BY <1>2 DEF Sync
  <2>2. QED
    BY <1>2, <2>1, SnapshotFields DEF NoForm, Form
<1>3. CASE data.state = "draft" /\ f.open /\ f.edited
  <2>1. Sync(f, data) = f
    BY <1>3 DEF Sync
  <2>2. QED
    BY <1>3, <2>1
<1>4. CASE data.state = "draft" /\ f.open /\ ~f.edited
  <2>1. Sync(f, data) = [f EXCEPT !.base = data, !.content = data.content]
    BY <1>4 DEF Sync
  <2>2. QED
    BY <1>4, <2>1, SnapshotFields DEF Form
<1>5. QED
  BY <1>1, <1>2, <1>3, <1>4, FormFields

LEMMA AcceptType ==
    ASSUME NEW f \in Form, NEW data \in Snapshot
    PROVE  /\ Accept(f, data) \in Form
           /\ Accept(f, data).open = f.open
           /\ Accept(f, data).base = data
           /\ Accept(f, data).content = data.content
BY SnapshotFields DEF Accept, Form

\* The end of a fetch ends a call, lets a save go on, or changes nothing.
LEMMA EndedType ==
    ASSUME NEW c \in Call, NEW read \in BOOLEAN,
           c.stage = "none" => c.kind = "none"
    PROVE  /\ Ended(c, read) \in Call
           /\ \/ Ended(c, read) = Idle
              \/ Ended(c, read) = c
              \/ /\ c.kind = "save" /\ c.stage = "refresh"
                 /\ Ended(c, read) = [c EXCEPT !.stage = "settled"]
           /\ Ended(c, read).stage = "none" => Ended(c, read).kind = "none"
           /\ Ended(c, read).kind \in {c.kind, "none"}
           /\ \/ Ended(c, read).stage \in {c.stage, "none"}
              \/ Ended(c, read).kind = "save" /\ Ended(c, read).stage = "settled"
           /\ Ended(c, read).kind # "none" => Ended(c, read).of = c.of
<1>1. CASE c.kind = "save" /\ c.stage = "refresh"
  <2>1. Ended(c, read) = [c EXCEPT !.stage = "settled"]
    BY <1>1 DEF Ended
  <2>2. [c EXCEPT !.stage = "settled"] \in Call
        /\ [c EXCEPT !.stage = "settled"].kind = c.kind
        /\ [c EXCEPT !.stage = "settled"].of = c.of
        /\ [c EXCEPT !.stage = "settled"].stage = "settled"
    BY DEF Call
  <2>3. QED
    BY <1>1, <2>1, <2>2
<1>2. CASE ~(c.kind = "save" /\ c.stage = "refresh") /\ c.kind = "reload"
  <2>1. Ended(c, read) = Idle
    BY <1>2 DEF Ended
  <2>2. Idle.kind = "none" /\ Idle.stage = "none"
    BY DEF Idle
  <2>3. QED
    BY <2>1, <2>2, Constants
<1>3. CASE ~(c.kind = "save" /\ c.stage = "refresh") /\ c.kind # "reload"
  <2>1. Ended(c, read) = c
    BY <1>3 DEF Ended
  <2>2. QED
    BY <2>1, CallFields
<1>4. QED
  BY <1>1, <1>2, <1>3

LEMMA AnswerType ==
    ASSUME TypeOK, NEW e \in Editors, NEW row \in Snapshot,
           NEW stage \in {"done", "failed"}, call[e].stage # "none",
           Answer(e, stage, row)
    PROVE  /\ call' \in [Editors -> Call]
           /\ \A d \in Editors \ {e} : call'[d] = call[d]
           /\ call'[e].stage = stage /\ call'[e].got = row
           /\ call'[e].kind = call[e].kind /\ call'[e].of = call[e].of
           /\ call'[e].here = call[e].here
<1>1. call[e] \in Call
  BY DEF TypeOK
<1>2. [Idle EXCEPT !.kind = call[e].kind, !.of = call[e].of,
          !.publishNext = call[e].publishNext, !.here = call[e].here,
          !.stage = stage, !.got = row] \in Call
  BY <1>1, Constants, CallFields DEF Idle, Call
<1>3. QED
  BY <1>2 DEF TypeOK, Answer, Idle

LEMMA RequestType ==
    ASSUME TypeOK, NEW e \in Editors, NEW version \in Nat, NEW next \in BOOLEAN,
           NEW kind \in {"save", "publish", "create", "reload"}
    PROVE  /\ Request(e, kind, version, next) \in Call
           /\ [Request(e, kind, version, next) EXCEPT !.stage = "refresh"] \in Call
<1>1. form[e] \in Form /\ page[e].id \in Numbers
  BY DEF TypeOK, Page
<1>2. QED
  BY <1>1, Constants, FormFields DEF Request, Call

\* A click leaves the rows alone and sends a request.
LEMMA SendType ==
    ASSUME TypeOK, NEW e \in Editors, NEW version \in Nat, NEW next \in BOOLEAN,
           NEW kind \in {"save", "publish", "create"},
           Send(e, Request(e, kind, version, next))
    PROVE  TypeOK'
<1>1. Request(e, kind, version, next) \in Call
  BY RequestType
<1>2. call' = [call EXCEPT ![e] = Request(e, kind, version, next)]
  BY DEF Send
<1>3. form' \in [Editors -> Form]
  <2>1. form[e] \in Form
    BY DEF TypeOK
  <2>2. [form[e] EXCEPT !.errors = @ \ {Request(e, kind, version, next).kind}] \in Form
    BY <2>1, FormFields DEF Form
  <2>3. form' = [form EXCEPT ![e] =
            [form[e] EXCEPT !.errors = @ \ {Request(e, kind, version, next).kind}]]
    BY DEF Send, TypeOK
  <2>4. QED
    BY <2>2, <2>3 DEF TypeOK
<1>4. Request(e, kind, version, next).stage = "sent"
      /\ Request(e, kind, version, next).kind = kind
      /\ Request(e, kind, version, next).of = page[e].id
  BY DEF Request
<1>5. TypeOK'
  BY <1>1, <1>2, <1>3, <1>4 DEF TypeOK, Send
<1>6. QED
  BY <1>5

\* What the user does keeps everything well formed.
LEMMA ClickTypes ==
    ASSUME TypeOK, NEW e \in Editors,
           \/ \E content \in Contents : Type(e, content)
           \/ SaveDraft(e) \/ PublishSaved(e) \/ CreateDraft(e) \/ Reload(e)
    PROVE  TypeOK'
<1>0. form[e] \in Form /\ page[e] \in Page /\ page[e].id \in Numbers
      /\ form[e].base.version \in Nat
  <2>1. form[e] \in Form /\ page[e] \in Page
    BY DEF TypeOK
  <2>2. form[e].base \in Snapshot
    BY <2>1, FormFields
  <2>3. QED
    BY <2>1, <2>2, SnapshotFields DEF Page
<1>1. ASSUME NEW content \in Contents, Type(e, content)
      PROVE  TypeOK'
  <2>1. [form[e] EXCEPT !.content = content, !.edited = TRUE] \in Form
    BY <1>0, FormFields DEF Form
  <2>2. form' = [form EXCEPT ![e] = [form[e] EXCEPT !.content = content, !.edited = TRUE]]
    BY <1>1 DEF Type, TypeOK
  <2>3. QED
    BY <1>1, <2>1, <2>2 DEF Type, TypeOK
<1>2. CASE SaveDraft(e)
  BY <1>0, <1>2, SendType DEF SaveDraft
<1>3. CASE PublishSaved(e)
  BY <1>0, <1>3, SendType DEF PublishSaved
<1>4. CASE CreateDraft(e)
  BY <1>4, SendType DEF CreateDraft
<1>5. CASE Reload(e)
  <2>1. [page[e] EXCEPT !.fetch = NoRevision] \in Page
    BY <1>0, Constants DEF Page
  <2>2. page' = [page EXCEPT ![e] = [page[e] EXCEPT !.fetch = NoRevision]]
    BY <1>5 DEF Reload, TypeOK
  <2>3. [Request(e, "reload", 0, FALSE) EXCEPT !.stage = "refresh"] \in Call
    BY RequestType
  <2>4. call' = [call EXCEPT ![e] = [Request(e, "reload", 0, FALSE) EXCEPT !.stage = "refresh"]]
    BY <1>5 DEF Reload
  <2>5. [Request(e, "reload", 0, FALSE) EXCEPT !.stage = "refresh"].stage = "refresh"
    BY DEF Request
  <2>6. QED
    BY <1>5, <2>1, <2>2, <2>3, <2>4, <2>5 DEF Reload, TypeOK
<1>6. QED
  BY <1>1, <1>2, <1>3, <1>4, <1>5

\* The server's handlers keep everything well formed.
LEMMA ServerTypes ==
    ASSUME TypeOK, NEW e \in Editors,
           HandleSave(e) \/ HandlePublish(e) \/ HandleCreate(e) \/ LoseCall(e)
    PROVE  TypeOK'
<1>0. call[e] \in Call /\ call[e].of \in Numbers /\ call[e].content \in Contents
      /\ revision[call[e].of] \in Snapshot
  <2>1. call[e] \in Call
    BY DEF TypeOK
  <2>2. QED
    BY <2>1, CallFields DEF TypeOK
<1>1. ASSUME NEW row \in Snapshot, NEW stage \in {"done", "failed"}, call[e].stage # "none",
             revision' \in [Numbers -> Snapshot], UNCHANGED <<page, form>>,
             Answer(e, stage, row)
      PROVE  TypeOK'
  <2>1. /\ call' \in [Editors -> Call]
        /\ \A d \in Editors \ {e} : call'[d] = call[d]
        /\ call'[e].stage = stage
    BY <1>1, AnswerType
  <2>2. TypeOK'
    BY <1>1, <2>1 DEF TypeOK
  <2>3. QED
    BY <2>2
<1>2. CASE HandleSave(e)
  <2> DEFINE r == call[e].of
             row == [revision[r] EXCEPT !.content = call[e].content, !.version = @ + 1]
  <2>1. row \in Snapshot
    BY <1>0, RowTypes
  <2>2. CASE Reply(e, row) /\ revision' = [revision EXCEPT ![r] = row]
    <3>1. revision' \in [Numbers -> Snapshot]
      BY <2>1, <2>2 DEF TypeOK
    <3>2. QED
      BY <1>1, <1>2, <2>1, <2>2, <3>1 DEF HandleSave, Reply
  <2>3. CASE Refuse(e) /\ UNCHANGED revision
    <3>1. revision' \in [Numbers -> Snapshot]
      BY <2>3 DEF TypeOK
    <3>2. QED
      BY <1>1, <1>2, <2>3, <3>1, Constants DEF HandleSave, Refuse
  <2>4. QED
    BY <1>2, <2>2, <2>3 DEF HandleSave
<1>3. CASE HandlePublish(e)
  <2> DEFINE r == call[e].of
             row == [revision[r] EXCEPT !.state = "published", !.version = @ + 1]
  <2>1. row \in Snapshot
    BY <1>0, RowTypes
  <2>2. CASE Reply(e, row) /\ revision' = [revision EXCEPT ![r] = row]
    <3>1. revision' \in [Numbers -> Snapshot]
      BY <2>1, <2>2 DEF TypeOK
    <3>2. QED
      BY <1>1, <1>3, <2>1, <2>2, <3>1 DEF HandlePublish, Reply
  <2>3. CASE Refuse(e) /\ UNCHANGED revision
    <3>1. revision' \in [Numbers -> Snapshot]
      BY <2>3 DEF TypeOK
    <3>2. QED
      BY <1>1, <1>3, <2>3, <3>1, Constants DEF HandlePublish, Refuse
  <2>4. QED
    BY <1>3, <2>2, <2>3 DEF HandlePublish
<1>4. CASE HandleCreate(e)
  <2> DEFINE row == [revision[call[e].of] EXCEPT !.version = 1, !.state = "draft"]
  <2>1. row \in Snapshot
    BY <1>0, RowTypes
  <2>2. ASSUME NEW last \in Numbers, Reply(e, row), revision' = [revision EXCEPT ![last + 1] = row]
        PROVE  TypeOK'
    <3>1. revision' \in [Numbers -> Snapshot]
      BY <2>1, <2>2 DEF TypeOK
    <3>2. QED
      BY <1>1, <1>4, <2>1, <2>2, <3>1 DEF HandleCreate, Reply
  <2>3. CASE Refuse(e) /\ UNCHANGED revision
    <3>1. revision' \in [Numbers -> Snapshot]
      BY <2>3 DEF TypeOK
    <3>2. QED
      BY <1>1, <1>4, <2>3, <3>1, Constants DEF HandleCreate, Refuse
  <2>4. QED
    <3> HIDE DEF row
    <3> QED
      BY <1>4, <2>2, <2>3 DEF HandleCreate, row
<1>5. CASE LoseCall(e)
  <2>1. revision' \in [Numbers -> Snapshot]
    BY <1>5 DEF TypeOK, LoseCall
  <2>2. QED
    BY <1>1, <1>5, <2>1, Constants DEF LoseCall, Refuse
<1>6. QED
  BY <1>2, <1>3, <1>4, <1>5

\* A tab that changes one page, form and call to well-formed ones, and sends off no
\* new draft, keeps everything well formed.
LEMMA TabTypes ==
    ASSUME TypeOK, NEW e \in Editors, NEW p \in Page, NEW f \in Form, NEW c \in Call,
           c.stage = "none" => c.kind = "none",
           revision' = revision,
           page' = [page EXCEPT ![e] = p] \/ page' = page,
           form' = [form EXCEPT ![e] = f] \/ form' = form,
           call' = [call EXCEPT ![e] = c] \/ call' = call
    PROVE  TypeOK'
<1>1. page' \in [Editors -> Page] /\ form' \in [Editors -> Form] /\ call' \in [Editors -> Call]
  BY DEF TypeOK
<1>2. \A d \in Editors : call'[d] = call[d] \/ call'[d] = c
  BY DEF TypeOK
<1>3. TypeOK'
  BY <1>1, <1>2 DEF TypeOK
<1>4. QED
  BY <1>3

\* What a tab does with replies and fetches keeps everything well formed.
LEMMA ReplyTypes ==
    ASSUME TypeOK, NEW e \in Editors,
           \/ Saved(e) \/ Published(e) \/ Created(e) \/ Failed(e) \/ Settle(e)
           \/ Fetch(e) \/ Arrive(e) \/ FetchFails(e)
           \/ \E r \in Numbers : TurnTo(e, r)
           \/ PlansFail(e)
    PROVE  TypeOK'
<1>0. /\ call[e] \in Call /\ form[e] \in Form /\ page[e] \in Page
      /\ call[e].stage = "none" => call[e].kind = "none"
      /\ page[e].id \in Numbers /\ page[e].data \in Snapshot /\ page[e].fetch \in Snapshot
      /\ revision[page[e].id] \in Snapshot /\ call[e].got \in Snapshot
  <2>1. call[e] \in Call /\ form[e] \in Form /\ page[e] \in Page
    BY DEF TypeOK
  <2>2. QED
    BY <2>1, CallFields DEF TypeOK, Page
<1>1. \A data \in Snapshot, fetch \in Snapshot :
         /\ [page[e] EXCEPT !.fetch = fetch] \in Page
         /\ [page[e] EXCEPT !.data = data, !.fetch = fetch] \in Page
  BY <1>0 DEF Page
<1>2. \A stage \in {"refresh", "settled"}, here \in BOOLEAN :
         /\ [call[e] EXCEPT !.stage = stage] \in Call
         /\ [call[e] EXCEPT !.here = here] \in Call
  BY <1>0 DEF Call
<1>3. CASE Saved(e)
  <2>1. page' = [page EXCEPT ![e] = [page[e] EXCEPT !.fetch = NoRevision]]
        /\ call' = [call EXCEPT ![e] = [call[e] EXCEPT !.stage = "refresh"]]
        /\ form' = form /\ revision' = revision
    BY <1>3 DEF Saved, TypeOK
  <2>2. [call[e] EXCEPT !.stage = "refresh"].stage = "refresh"
    BY <1>0 DEF Call
  <2>3. QED
    BY <1>0, <1>1, <1>2, <2>1, <2>2, Constants, TabTypes
<1>4. CASE Published(e)
  <2>1. page' = [page EXCEPT ![e] = [page[e] EXCEPT !.fetch = NoRevision]]
        /\ call' = [call EXCEPT ![e] = Idle] /\ form' = form /\ revision' = revision
    BY <1>4 DEF Published, TypeOK
  <2>2. Idle.kind = "none"
    BY DEF Idle
  <2>3. QED
    BY <1>0, <1>1, <2>1, <2>2, Constants, TabTypes
<1>5. CASE Created(e)
  <2>1. page' = page /\ form' = form /\ revision' = revision
        /\ call' = [call EXCEPT ![e] = [call[e] EXCEPT !.stage = "refresh"]]
    BY <1>5 DEF Created, TypeOK
  <2>2. [call[e] EXCEPT !.stage = "refresh"].stage = "refresh"
    BY <1>0 DEF Call
  <2>3. QED
    BY <1>0, <1>2, <2>1, <2>2, TabTypes
<1>6. CASE Failed(e)
  <2> DEFINE new == IF call[e].here
                    THEN form[e].errors \cup ({call[e].kind} \cap {"save", "publish"})
                    ELSE form[e].errors
  <2>1. form' = [form EXCEPT ![e] = [form[e] EXCEPT !.errors = new]]
        /\ page' = page /\ call' = [call EXCEPT ![e] = Idle] /\ revision' = revision
    BY <1>6 DEF Failed, TypeOK
  <2>2. new \in SUBSET {"save", "publish"}
    BY <1>0, FormFields
  <2>3. [form[e] EXCEPT !.errors = new] \in Form
    <3> HIDE DEF new
    <3> QED
      BY <1>0, <2>2 DEF Form
  <2>4. Idle.kind = "none"
    BY DEF Idle
  <2>5. QED
    BY <1>0, <2>1, <2>3, <2>4, Constants, TabTypes
<1>7. CASE Settle(e)
  <2> DEFINE f == IF call[e].here THEN Accept(form[e], call[e].got) ELSE form[e]
             c == [call[e] EXCEPT !.kind = "publish", !.stage = "sent", !.publishNext = FALSE,
                       !.version = call[e].got.version, !.content = call[e].got.content,
                       !.base = call[e].got, !.got = NoRevision]
  <2>1. f \in Form
    BY <1>0, AcceptType
  <2>2. c \in Call /\ c.kind = "publish" /\ c.stage = "sent"
    BY <1>0, Constants, SnapshotFields DEF Call
  <2>3. Idle.kind = "none"
    BY DEF Idle
  <2>4. form' = [form EXCEPT ![e] = f] /\ page' = page /\ revision' = revision
    BY <1>7 DEF Settle, TypeOK
  <2>5. call' = [call EXCEPT ![e] = c] \/ call' = [call EXCEPT ![e] = Idle]
    BY <1>7 DEF Settle, TypeOK
  <2>6. QED
    <3> HIDE DEF f, c
    <3> QED
      BY <1>0, <2>1, <2>2, <2>3, <2>4, <2>5, Constants, TabTypes
<1>8. CASE Fetch(e)
  <2>1. page' = [page EXCEPT ![e] = [page[e] EXCEPT !.fetch = revision[page[e].id]]]
        /\ call' = call /\ form' = form /\ revision' = revision
    BY <1>8 DEF Fetch, TypeOK
  <2>2. QED
    BY <1>0, <1>1, <2>1, TabTypes
<1>9. CASE Arrive(e)
  <2> DEFINE data == page[e].fetch
             new == Sync(form[e], data)
             f == IF call[e].kind = "reload" /\ call[e].here /\ new.open
                  THEN [Accept(new, data) EXCEPT !.errors = {}] ELSE new
             ended == Ended(call[e], TRUE)
             c == [ended EXCEPT !.here = @ /\ new.open]
  <2>1. new \in Form /\ f \in Form
    <3>1. new \in Form /\ Accept(new, data) \in Form
      BY <1>0, SyncType, AcceptType
    <3>2. [Accept(new, data) EXCEPT !.errors = {}] \in Form
      BY <3>1 DEF Form
    <3>3. QED
      BY <3>1, <3>2
  <2>2. /\ ended \in Call /\ (ended.stage = "none" => ended.kind = "none")
    BY <1>0, EndedType
  <2>3. c \in Call /\ c.kind = ended.kind /\ c.stage = ended.stage /\ c.of = ended.of
    <3>1. PICK here \in BOOLEAN : c = [ended EXCEPT !.here = here]
      <4> HIDE DEF ended, new
      <4> QED
        BY <2>1, <2>2, CallFields, FormFields
    <3>2. QED
      <4> HIDE DEF ended, c
      <4> QED
        BY <2>2, <3>1 DEF Call
  <2>4. page' = [page EXCEPT ![e] = [page[e] EXCEPT !.data = data, !.fetch = NoRevision]]
        /\ revision' = revision
    BY <1>9 DEF Arrive, TypeOK
  <2>5. form' = [form EXCEPT ![e] = f] /\ call' = [call EXCEPT ![e] = c]
    BY <1>9 DEF Arrive, TypeOK
  <2>6. [page[e] EXCEPT !.data = data, !.fetch = NoRevision] \in Page
    BY <1>0, <1>1, Constants
  <2>7. (c.stage = "none" => c.kind = "none")
    <3> HIDE DEF c, ended
    <3> QED
      BY <1>0, <2>2, <2>3
  <2>8. QED
    <3> HIDE DEF c, f, data
    <3> QED
      BY <2>1, <2>3, <2>4, <2>5, <2>6, <2>7, TabTypes
<1>10. CASE FetchFails(e)
  <2> DEFINE ended == Ended(call[e], FALSE)
  <2>1. ended \in Call /\ (ended.stage = "none" => ended.kind = "none")
    BY <1>0, EndedType
  <2>2. page' = [page EXCEPT ![e] = [page[e] EXCEPT !.fetch = NoRevision]]
        /\ call' = [call EXCEPT ![e] = ended] /\ form' = form /\ revision' = revision
    BY <1>10 DEF FetchFails, TypeOK
  <2>3. QED
    <3> HIDE DEF ended
    <3> QED
      BY <1>0, <1>1, <2>1, <2>2, Constants, TabTypes
<1>11. ASSUME NEW r \in Numbers, TurnTo(e, r)
       PROVE  TypeOK'
  <2> DEFINE p == [id |-> r, data |-> NoRevision, fetch |-> NoRevision]
             ended == Ended(call[e], TRUE)
             c == IF PlansAwaited(e) THEN Idle ELSE [ended EXCEPT !.here = FALSE]
  <2>1. p \in Page
    BY Constants DEF Page
  <2>2. ended \in Call /\ (ended.stage = "none" => ended.kind = "none")
    BY <1>0, EndedType
  <2>3. /\ c \in Call /\ (c.stage = "none" => c.kind = "none")
    <3>1. Idle.kind = "none"
      BY DEF Idle
    <3>2. [ended EXCEPT !.here = FALSE] \in Call
          /\ [ended EXCEPT !.here = FALSE].kind = ended.kind
          /\ [ended EXCEPT !.here = FALSE].stage = ended.stage
          /\ [ended EXCEPT !.here = FALSE].of = ended.of
      <4> HIDE DEF ended
      <4> QED
        BY <2>2 DEF Call
    <3>3. QED
      BY <2>2, <3>1, <3>2, Constants
  <2>4. page' = [page EXCEPT ![e] = p] /\ form' = [form EXCEPT ![e] = NoForm]
        /\ call' = [call EXCEPT ![e] = c] /\ revision' = revision
    BY <1>11 DEF TurnTo, TypeOK
  <2>5. QED
    <3> HIDE DEF p, c
    <3> QED
      BY <2>1, <2>3, <2>4, Constants, TabTypes
<1>12. CASE PlansFail(e)
  <2> DEFINE f == Sync(NoForm, page[e].data)
             c == IF PlansAwaited(e) THEN Idle ELSE [call[e] EXCEPT !.here = FALSE]
  <2>1. f \in Form
    BY <1>0, SyncType, Constants
  <2>2. /\ c \in Call /\ (c.stage = "none" => c.kind = "none")
    <3>1. Idle.kind = "none"
      BY DEF Idle
    <3>2. [call[e] EXCEPT !.here = FALSE] \in Call
          /\ [call[e] EXCEPT !.here = FALSE].kind = call[e].kind
          /\ [call[e] EXCEPT !.here = FALSE].stage = call[e].stage
          /\ [call[e] EXCEPT !.here = FALSE].of = call[e].of
      BY <1>0 DEF Call
    <3>3. QED
      BY <1>0, <3>1, <3>2, Constants
  <2>3. form' = [form EXCEPT ![e] = f] /\ call' = [call EXCEPT ![e] = c]
        /\ page' = page /\ revision' = revision
    BY <1>12 DEF PlansFail, TypeOK
  <2>4. QED
    <3> HIDE DEF f, c
    <3> QED
      BY <1>0, <2>1, <2>2, <2>3, TabTypes
<1>13. QED
  BY <1>3, <1>4, <1>5, <1>6, <1>7, <1>8, <1>9, <1>10, <1>11, <1>12

LEMMA TypeInvInit == Init => TypeOK
<1> SUFFICES ASSUME Init PROVE TypeOK
  OBVIOUS
<1>1. \A r \in Numbers : revision[r] \in Snapshot
  BY DEF Init, NoRevision, Snapshot
<1>2. \A e \in Editors : page[e] \in Page /\ form[e] \in Form /\ call[e] \in Call
  BY Constants DEF Init, Page
<1>3. Idle.kind = "none" /\ Idle.stage = "none"
  BY DEF Idle
<1>4. QED
  BY <1>1, <1>2, <1>3 DEF Init, TypeOK

LEMMA StepTypes ==
    ASSUME TypeOK, NEW e \in Editors, StepOf(e)
    PROVE  TypeOK'
BY ClickTypes, ServerTypes, ReplyTypes DEF StepOf

LEMMA TypeInvNext == TypeOK /\ [Next]_vars => TypeOK'
<1> SUFFICES ASSUME TypeOK, [Next]_vars PROVE TypeOK'
  OBVIOUS
<1>1. CASE UNCHANGED vars
  BY <1>1 DEF vars, TypeOK
<1>2. QED
  BY <1>1, StepTypes DEF Next, StepOf

\* Every reachable state is well formed, for any number of tabs, contents and
\* revisions, whatever requests and fetches fail.
THEOREM TypeCorrect == Spec => []TypeOK
BY TypeInvInit, TypeInvNext, PTL DEF Spec

-----------------------------------------------------------------------------
(* What a tab has of a revision is what the server had under that version.  *)

\* The snapshot s is an older state of the row, or agrees with it.
Fits(s, row) ==
    /\ s.version <= row.version
    /\ s.version = row.version => s.content = row.content

\* Page p, form f and call c of a tab speak of what the rows were.
Real(p, f, c, rows) ==
    /\ p.data # NoRevision => Fits(p.data, rows[p.id])
    /\ p.fetch # NoRevision => Fits(p.fetch, rows[p.id])
    /\ f.open => Fits(f.base, rows[p.id])
    /\ c.here => c.of = p.id
    /\ (c.kind = "save" /\ c.stage \in {"done", "refresh", "settled"}) =>
          Fits(c.got, rows[c.of])
    /\ (c.kind = "save" /\ c.stage = "sent") => c.version = c.base.version
    /\ (c.kind = "publish" /\ c.stage = "sent") =>
          /\ c.version = c.base.version /\ c.content = c.base.content
          /\ Fits(c.base, rows[c.of])

RowsReal == \A r \in Numbers : revision[r].state = "absent" => revision[r].version = 0

TabsReal == \A e \in Editors : Real(page[e], form[e], call[e], revision)

IInv == TypeOK /\ RowsReal /\ TabsReal

\* Every change of a row gives it a higher version.
Grown(row, new) == new = row \/ new.version > row.version

LEMMA FitsGrown ==
    ASSUME NEW s \in Snapshot, NEW row \in Snapshot, NEW new \in Snapshot,
           Fits(s, row), Grown(row, new)
    PROVE  Fits(s, new)
BY SnapshotFields DEF Fits, Grown

LEMMA FitsItself == ASSUME NEW s \in Snapshot PROVE Fits(s, s)
BY SnapshotFields DEF Fits

LEMMA RealGrown ==
    ASSUME NEW p \in Page, NEW f \in Form, NEW c \in Call,
           NEW rows \in [Numbers -> Snapshot], NEW new \in [Numbers -> Snapshot],
           \A r \in Numbers : Grown(rows[r], new[r]), Real(p, f, c, rows)
    PROVE  Real(p, f, c, new)
<1>1. p.id \in Numbers /\ p.data \in Snapshot /\ p.fetch \in Snapshot /\ f.base \in Snapshot
      /\ c.of \in Numbers /\ c.got \in Snapshot /\ c.base \in Snapshot
  BY FormFields, CallFields DEF Page
<1>2. ASSUME NEW s \in Snapshot, NEW r \in Numbers, Fits(s, rows[r])
      PROVE  Fits(s, new[r])
  BY <1>2, FitsGrown
<1>3. QED
  BY <1>1, <1>2 DEF Real

\* The handlers of the server give changed rows higher versions and keep absent
\* rows at version 0.
LEMMA RowsGrow ==
    ASSUME TypeOK, RowsReal, NEW e \in Editors, StepOf(e)
    PROVE  /\ \A r \in Numbers : Grown(revision[r], revision'[r])
           /\ RowsReal'
<1>0. \A r \in Numbers : revision[r] \in Snapshot /\ revision[r].version \in Nat
  BY SnapshotFields DEF TypeOK
<1>1. ASSUME NEW row \in Snapshot, NEW r, r \in Numbers => row.version > revision[r].version,
             row.state # "absent", revision' = [revision EXCEPT ![r] = row]
      PROVE  /\ \A q \in Numbers : Grown(revision[q], revision'[q])
             /\ RowsReal'
  BY <1>1 DEF TypeOK, RowsReal, Grown
<1>2. CASE revision' = revision
  BY <1>2 DEF RowsReal, Grown
<1>3. call[e].of \in Numbers /\ call[e].content \in Contents
  BY CallFields DEF TypeOK
<1>4. CASE HandleSave(e) /\ revision' # revision
  <2> DEFINE r == call[e].of
             row == [revision[r] EXCEPT !.content = call[e].content, !.version = @ + 1]
  <2>1. revision' = [revision EXCEPT ![r] = row] /\ revision[r].state = "draft"
    BY <1>4 DEF HandleSave
  <2>2. row \in Snapshot
    BY <1>0, <1>3, RowTypes
  <2>3. row.version = revision[r].version + 1 /\ row.state = revision[r].state
    BY <1>0, <1>3 DEF Snapshot
  <2>4. QED
    <3> HIDE DEF row, r
    <3>1. r \in Numbers
      BY <1>3 DEF r
    <3>2. row.version > revision[r].version /\ row.state # "absent"
      BY <1>0, <2>1, <2>3, <3>1
    <3>3. QED
      BY <1>1, <2>1, <2>2, <3>2
<1>5. CASE HandlePublish(e) /\ revision' # revision
  <2> DEFINE r == call[e].of
             row == [revision[r] EXCEPT !.state = "published", !.version = @ + 1]
  <2>1. revision' = [revision EXCEPT ![r] = row]
    BY <1>5 DEF HandlePublish
  <2>2. row \in Snapshot
    BY <1>0, <1>3, RowTypes
  <2>3. row.version = revision[r].version + 1 /\ row.state = "published"
    BY <1>0, <1>3 DEF Snapshot
  <2>4. QED
    <3> HIDE DEF row, r
    <3>1. r \in Numbers
      BY <1>3 DEF r
    <3>2. row.version > revision[r].version /\ row.state # "absent"
      BY <1>0, <2>1, <2>3, <3>1
    <3>3. QED
      BY <1>1, <2>1, <2>2, <3>2
<1>6. CASE HandleCreate(e) /\ revision' # revision
  <2> DEFINE row == [revision[call[e].of] EXCEPT !.version = 1, !.state = "draft"]
  <2>1. PICK last \in Numbers :
           /\ revision' = [revision EXCEPT ![last + 1] = row]
           /\ \A r \in Numbers : r > last => revision[r].state = "absent"
    BY <1>6 DEF HandleCreate, IsNewest
  <2> DEFINE new == last + 1
  <2>2. row \in Snapshot
    BY <1>0, <1>3, RowTypes
  <2>3. row.version = 1 /\ row.state = "draft"
    BY <1>0, <1>3 DEF Snapshot
  <2>4. new \in Numbers => revision[new].version = 0
    BY <2>1 DEF RowsReal, Numbers
  <2>5. QED
    <3> HIDE DEF row, new
    <3>1. (new \in Numbers => row.version > revision[new].version) /\ row.state # "absent"
      BY <2>3, <2>4
    <3>2. revision' = [revision EXCEPT ![new] = row]
      BY <2>1 DEF new
    <3>3. QED
      BY <1>1, <2>2, <3>1, <3>2
<1>7. QED
  BY <1>2, <1>4, <1>5, <1>6
  DEF StepOf, Type, SaveDraft, PublishSaved, CreateDraft, Send, Reload, LoseCall, Saved,
      Published, Created, Failed, Settle, Fetch, Arrive, FetchFails, TurnTo, PlansFail,
      HandleSave, HandlePublish, HandleCreate

\* A click sends off what the form says, under the version the form is based on.
LEMMA ClickReal ==
    ASSUME IInv, NEW e \in Editors,
           \/ \E content \in Contents : Type(e, content)
           \/ SaveDraft(e) \/ PublishSaved(e) \/ CreateDraft(e) \/ Reload(e)
    PROVE  Real(page'[e], form'[e], call'[e], revision')
<1>0. Real(page[e], form[e], call[e], revision) /\ revision' = revision
      /\ page[e] \in Page /\ form[e] \in Form
  BY DEF IInv, TabsReal, TypeOK, Type, SaveDraft, PublishSaved, CreateDraft, Send, Reload
<1>1. ASSUME NEW kind \in {"save", "publish", "create"}, NEW next \in BOOLEAN,
             NEW version \in Nat, Send(e, Request(e, kind, version, next)),
             kind # "create" => version = form[e].base.version /\ form[e].open,
             kind = "publish" => form[e].content = form[e].base.content
      PROVE  Real(page'[e], form'[e], call'[e], revision')
  <2>1. call'[e] = Request(e, kind, version, next) /\ page' = page
    BY <1>1 DEF Send, IInv, TypeOK
  <2>2. form'[e].open = form[e].open /\ form'[e].base = form[e].base
    BY <1>0, <1>1 DEF Send, IInv, TypeOK, Form
  <2>3. /\ call'[e].kind = kind /\ call'[e].stage = "sent" /\ call'[e].of = page[e].id
        /\ call'[e].version = version /\ call'[e].content = form[e].content
        /\ call'[e].base = form[e].base
    BY <2>1 DEF Request
  <2>4. QED
    BY <1>0, <1>1, <2>1, <2>2, <2>3 DEF Real
<1>2. ASSUME NEW content \in Contents, Type(e, content)
      PROVE  Real(page'[e], form'[e], call'[e], revision')
  <2>1. page' = page /\ call' = call
        /\ form'[e].open = form[e].open /\ form'[e].base = form[e].base
    BY <1>0, <1>2 DEF Type, IInv, TypeOK, Form
  <2>2. QED
    BY <1>0, <2>1 DEF Real
<1>3. form[e].base.version \in Nat
  BY <1>0, FormFields, SnapshotFields
<1>4. CASE SaveDraft(e)
  BY <1>1, <1>3, <1>4 DEF SaveDraft
<1>5. CASE PublishSaved(e)
  BY <1>1, <1>3, <1>5 DEF PublishSaved, Dirty
<1>6. CASE CreateDraft(e)
  BY <1>1, <1>6 DEF CreateDraft
<1>7. CASE Reload(e)
  <2>1. form' = form /\ page'[e].id = page[e].id /\ page'[e].data = page[e].data
        /\ page'[e].fetch = NoRevision
    BY <1>0, <1>7 DEF Reload, IInv, TypeOK, Page
  <2>2. call'[e].kind = "reload" /\ call'[e].of = page[e].id
    BY <1>7 DEF Reload, Request, IInv, TypeOK
  <2>3. QED
    BY <1>0, <2>1, <2>2 DEF Real
<1>8. QED
  BY <1>2, <1>4, <1>5, <1>6, <1>7

\* A reply to a save is the row as it is then.
LEMMA ServerReal ==
    ASSUME IInv, NEW e \in Editors,
           HandleSave(e) \/ HandlePublish(e) \/ HandleCreate(e) \/ LoseCall(e)
    PROVE  Real(page'[e], form'[e], call'[e], revision')
<1>0. /\ page[e] \in Page /\ form[e] \in Form /\ call[e] \in Call
      /\ call[e].of \in Numbers /\ call[e].content \in Contents
      /\ revision \in [Numbers -> Snapshot]
  BY CallFields DEF IInv, TypeOK
<1>1. page' = page /\ form' = form /\ revision' \in [Numbers -> Snapshot]
  BY StepTypes DEF StepOf, HandleSave, HandlePublish, HandleCreate, LoseCall, IInv, TypeOK
<1>2. Real(page[e], form[e], call[e], revision')
  <2>1. \A r \in Numbers : Grown(revision[r], revision'[r])
    BY RowsGrow DEF StepOf, IInv
  <2>2. QED
    BY <1>0, <1>1, <2>1, RealGrown DEF IInv, TabsReal
<1>3. ASSUME NEW row \in Snapshot, NEW stage \in {"done", "failed"}, call[e].stage # "none",
             Answer(e, stage, row),
             (call[e].kind = "save" /\ stage = "done") => row = revision'[call[e].of]
      PROVE  Real(page'[e], form'[e], call'[e], revision')
  <2>1. /\ call'[e].stage = stage /\ call'[e].got = row
        /\ call'[e].kind = call[e].kind /\ call'[e].of = call[e].of
        /\ call'[e].here = call[e].here
    BY <1>3, AnswerType DEF IInv
  <2>2. Fits(row, row)
    BY FitsItself
  <2>3. QED
    BY <1>1, <1>2, <1>3, <2>1, <2>2 DEF Real
<1>4. CASE Refuse(e) /\ call[e].stage # "none"
  BY <1>3, <1>4, Constants DEF Refuse
<1>5. CASE HandleSave(e) /\ ~Refuse(e)
  <2> DEFINE row == [revision[call[e].of] EXCEPT !.content = call[e].content, !.version = @ + 1]
  <2>1. row \in Snapshot
    BY <1>0, RowTypes
  <2>2. Answer(e, "done", row) /\ revision' = [revision EXCEPT ![call[e].of] = row]
    BY <1>5 DEF HandleSave, Reply
  <2>3. revision'[call[e].of] = row
    <3> HIDE DEF row
    <3> QED
      BY <1>0, <2>2
  <2>4. QED
    <3> HIDE DEF row
    <3> QED
      BY <1>3, <1>5, <2>1, <2>2, <2>3 DEF HandleSave
<1>6. CASE HandlePublish(e) /\ ~Refuse(e)
  <2> DEFINE row == [revision[call[e].of] EXCEPT !.state = "published", !.version = @ + 1]
  <2>1. row \in Snapshot
    BY <1>0, RowTypes
  <2>2. Answer(e, "done", row) /\ call[e].kind = "publish" /\ call[e].stage = "sent"
    BY <1>6 DEF HandlePublish, Reply
  <2>3. QED
    <3> HIDE DEF row
    <3> QED
      BY <1>3, <2>1, <2>2
<1>7. CASE HandleCreate(e) /\ ~Refuse(e)
  <2> DEFINE row == [revision[call[e].of] EXCEPT !.version = 1, !.state = "draft"]
  <2>1. row \in Snapshot
    BY <1>0, RowTypes
  <2>2. Answer(e, "done", row) /\ call[e].kind = "create" /\ call[e].stage = "sent"
    BY <1>7 DEF HandleCreate, Reply
  <2>3. QED
    <3> HIDE DEF row
    <3> QED
      BY <1>3, <2>1, <2>2
<1>8. call[e].stage # "none"
  BY DEF HandleSave, HandlePublish, HandleCreate, LoseCall
<1>9. QED
  BY <1>4, <1>5, <1>6, <1>7, <1>8 DEF LoseCall

\* The end of a fetch, and that of the form that made the call, leave a call that
\* speaks of the same rows.
LEMMA EndedReal ==
    ASSUME NEW c \in Call, NEW p, NEW f, NEW rows, NEW read \in BOOLEAN,
           c.stage = "none" => c.kind = "none", Real(p, f, c, rows)
    PROVE  Real(p, f, Ended(c, read), rows)
<1>1. CASE Ended(c, read) = Idle
  <2>1. Idle.kind = "none" /\ Idle.here = FALSE
    BY DEF Idle
  <2>2. QED
    BY <1>1, <2>1 DEF Real
<1>2. CASE Ended(c, read) = c
  BY <1>2
<1>3. CASE /\ c.kind = "save" /\ c.stage = "refresh"
           /\ Ended(c, read) = [c EXCEPT !.stage = "settled"]
  <2> DEFINE d == [c EXCEPT !.stage = "settled"]
  <2>1. d.kind = c.kind /\ d.stage = "settled" /\ d.of = c.of /\ d.got = c.got /\ d.here = c.here
    BY DEF Call
  <2>2. QED
    <3> HIDE DEF d
    <3>1. Ended(c, read) = d
      BY <1>3 DEF d
    <3>2. Real(p, f, d, rows)
      BY <1>3, <2>1 DEF Real
    <3>3. QED
      BY <3>1, <3>2
<1>4. QED
  BY <1>1, <1>2, <1>3, EndedType

LEMMA LeftReal ==
    ASSUME NEW c \in Call, NEW p, NEW f, NEW rows, NEW here \in BOOLEAN,
           here => c.here, Real(p, f, c, rows)
    PROVE  Real(p, f, [c EXCEPT !.here = here], rows)
<1> DEFINE d == [c EXCEPT !.here = here]
<1>1. /\ d.kind = c.kind /\ d.stage = c.stage /\ d.of = c.of /\ d.got = c.got /\ d.here = here
      /\ d.version = c.version /\ d.base = c.base /\ d.content = c.content
  BY DEF Call
<1>2. QED
  <2> HIDE DEF d
  <2>1. Real(p, f, d, rows)
    BY <1>1 DEF Real
  <2>2. QED
    BY <2>1 DEF d

\* A page turned to another revision, or a form replaced, under the same call.
LEMMA PageReal ==
    ASSUME NEW p, NEW f, NEW c, NEW rows, NEW q, NEW g, Real(p, f, c, rows),
           q.data # NoRevision => Fits(q.data, rows[q.id]),
           q.fetch # NoRevision => Fits(q.fetch, rows[q.id]),
           g.open => Fits(g.base, rows[q.id]),
           c.here => q.id = p.id
    PROVE  Real(q, g, c, rows)
BY DEF Real

\* What a tab takes over from replies and fetches is what the rows were.
LEMMA ReplyReal ==
    ASSUME IInv, NEW e \in Editors,
           \/ Saved(e) \/ Published(e) \/ Created(e) \/ Failed(e) \/ Settle(e)
           \/ Fetch(e) \/ Arrive(e) \/ FetchFails(e)
           \/ \E r \in Numbers : TurnTo(e, r)
           \/ PlansFail(e)
    PROVE  Real(page'[e], form'[e], call'[e], revision')
<1>0. /\ page[e] \in Page /\ form[e] \in Form /\ call[e] \in Call
      /\ call[e].stage = "none" => call[e].kind = "none"
      /\ page[e].data \in Snapshot /\ page[e].fetch \in Snapshot /\ call[e].got \in Snapshot
      /\ revision[page[e].id] \in Snapshot
      /\ revision' = revision
      /\ Real(page[e], form[e], call[e], revision)
  <2>1. page[e] \in Page /\ form[e] \in Form /\ call[e] \in Call
        /\ (call[e].stage = "none" => call[e].kind = "none")
    BY DEF IInv, TypeOK
  <2>2. page[e].id \in Numbers /\ page[e].data \in Snapshot /\ page[e].fetch \in Snapshot
    BY <2>1 DEF Page
  <2>3. revision' = revision
    BY DEF Saved, Published, Created, Failed, Settle, Fetch, Arrive, FetchFails, TurnTo, PlansFail
  <2>4. QED
    BY <2>1, <2>2, <2>3, CallFields DEF IInv, TabsReal, TypeOK
<1>1. Idle.kind = "none" /\ Idle.here = FALSE
  BY DEF Idle
<1>2. CASE Saved(e)
  <2>1. /\ form' = form
        /\ page'[e] = [page[e] EXCEPT !.fetch = NoRevision]
        /\ call'[e] = [call[e] EXCEPT !.stage = "refresh"]
        /\ call[e].kind = "save" /\ call[e].stage = "done"
    BY <1>2 DEF Saved, IInv, TypeOK
  <2>2. QED
    BY <1>0, <2>1 DEF Real, Page, Call
<1>3. CASE Published(e)
  <2>1. /\ form' = form /\ call'[e] = Idle
        /\ page'[e] = [page[e] EXCEPT !.fetch = NoRevision]
    BY <1>3 DEF Published, IInv, TypeOK
  <2>2. QED
    BY <1>0, <1>1, <2>1 DEF Real, Page
<1>4. CASE Created(e)
  <2>1. /\ form' = form /\ page' = page /\ call[e].kind = "create"
        /\ call'[e] = [call[e] EXCEPT !.stage = "refresh"]
    BY <1>4 DEF Created, IInv, TypeOK
  <2>2. QED
    BY <1>0, <2>1 DEF Real, Call
<1>5. CASE Failed(e)
  <2>1. /\ page' = page /\ call'[e] = Idle
        /\ form'[e].open = form[e].open /\ form'[e].base = form[e].base
    BY <1>0, <1>5 DEF Failed, IInv, TypeOK, Form
  <2>2. QED
    BY <1>0, <1>1, <2>1 DEF Real
<1>6. CASE Settle(e)
  <2> DEFINE c == [call[e] EXCEPT !.kind = "publish", !.stage = "sent", !.publishNext = FALSE,
                       !.version = call[e].got.version, !.content = call[e].got.content,
                       !.base = call[e].got, !.got = NoRevision]
  <2>1. page' = page /\ call[e].kind = "save" /\ call[e].stage = "settled"
    BY <1>6 DEF Settle
  <2>2. form'[e] = IF call[e].here THEN Accept(form[e], call[e].got) ELSE form[e]
    BY <1>6 DEF Settle, IInv, TypeOK
  <2>3. call'[e] = c \/ call'[e] = Idle
    BY <1>6 DEF Settle, IInv, TypeOK
  <2>4. Fits(call[e].got, revision[call[e].of]) /\ (call[e].here => call[e].of = page[e].id)
    BY <1>0, <2>1 DEF Real
  <2>5. form'[e].open => Fits(form'[e].base, revision[page[e].id])
    <3>1. CASE call[e].here
      <4> DEFINE got == call[e].got
      <4>1. form'[e] = Accept(form[e], got) /\ Fits(got, revision[page[e].id])
        BY <2>2, <2>4, <3>1
      <4>2. Accept(form[e], got).base = got
        BY <1>0, AcceptType
      <4> HIDE DEF got
      <4>3. QED
        BY <4>1, <4>2
    <3>2. CASE ~call[e].here
      BY <1>0, <2>2, <3>2 DEF Real
    <3>3. QED
      BY <3>1, <3>2
  <2>6. /\ c.kind = "publish" /\ c.here = call[e].here /\ c.of = call[e].of
        /\ c.version = c.base.version /\ c.content = c.base.content /\ c.base = call[e].got
    BY <1>0 DEF Call
  <2>7. QED
    <3> HIDE DEF c
    <3> QED
      BY <1>0, <1>1, <2>1, <2>3, <2>4, <2>5, <2>6 DEF Real
<1>7. CASE Fetch(e)
  <2>1. /\ form' = form /\ call' = call
        /\ page'[e] = [page[e] EXCEPT !.fetch = revision[page[e].id]]
    BY <1>7 DEF Fetch, IInv, TypeOK
  <2>2. page'[e].id = page[e].id /\ page'[e].data = page[e].data
        /\ page'[e].fetch = revision[page[e].id]
    BY <1>0, <2>1 DEF Page
  <2>3. QED
    BY <1>0, <2>1, <2>2, FitsItself DEF Real
<1>8. CASE Arrive(e)
  <2> DEFINE data == page[e].fetch
             new == Sync(form[e], data)
             ended == Ended(call[e], TRUE)
  <2>1. page'[e].id = page[e].id /\ page'[e].data = data /\ page'[e].fetch = NoRevision
        /\ data # NoRevision
    BY <1>0, <1>8 DEF Arrive, IInv, TypeOK, Page
  <2>2. Fits(data, revision[page[e].id])
    BY <1>0, <2>1 DEF Real
  <2>3. new \in Form /\ (new.open => Fits(new.base, revision[page[e].id]))
    BY <1>0, <2>2, SyncType DEF Real
  <2>4. form'[e].open => Fits(form'[e].base, revision[page[e].id])
    <3> DEFINE taken == [Accept(new, data) EXCEPT !.errors = {}]
    <3>1. form'[e] = new \/ form'[e] = taken
      BY <1>8 DEF Arrive, IInv, TypeOK
    <3>2. Accept(new, data) \in Form /\ Accept(new, data).base = data
      BY <1>0, <2>3, AcceptType
    <3>3. taken.base = data
      <4> DEFINE accepted == Accept(new, data)
      <4>1. accepted \in Form /\ accepted.base = data
        BY <3>2
      <4> HIDE DEF accepted, new, data
      <4>2. [accepted EXCEPT !.errors = {}].base = data
        BY <4>1 DEF Form
      <4>3. QED
        BY <4>2 DEF accepted
    <3>4. CASE form'[e] = taken
      <4> HIDE DEF taken, data
      <4> QED
        BY <2>2, <3>3, <3>4
    <3>5. CASE form'[e] = new
      <4> HIDE DEF new
      <4> QED
        BY <2>3, <3>5
    <3>6. QED
      BY <3>1, <3>4, <3>5
  <2>5. ended \in Call /\ Real(page[e], form[e], ended, revision)
    BY <1>0, EndedType, EndedReal
  <2>6. PICK here \in BOOLEAN : call'[e] = [ended EXCEPT !.here = here] /\ (here => ended.here)
    <3>1. call'[e] = [ended EXCEPT !.here = @ /\ new.open]
      BY <1>8 DEF Arrive, IInv, TypeOK
    <3>2. QED
      <4> HIDE DEF ended, new
      <4> QED
        BY <2>3, <2>5, <3>1, CallFields, FormFields
  <2>7. Real(page[e], form[e], call'[e], revision)
    <3> HIDE DEF ended
    <3> QED
      BY <2>5, <2>6, LeftReal
  <2>8. QED
    <3> HIDE DEF ended, new, data
    <3> QED
      BY <1>0, <2>1, <2>2, <2>4, <2>7, PageReal
<1>9. CASE FetchFails(e)
  <2>1. /\ form' = form /\ call'[e] = Ended(call[e], FALSE)
        /\ page'[e] = [page[e] EXCEPT !.fetch = NoRevision]
    BY <1>9 DEF FetchFails, IInv, TypeOK
  <2>2. page'[e].id = page[e].id /\ page'[e].data = page[e].data /\ page'[e].fetch = NoRevision
    BY <1>0, <2>1 DEF Page
  <2>3. Real(page[e], form[e], call'[e], revision)
    <3>1. Real(page[e], form[e], Ended(call[e], FALSE), revision)
      BY <1>0, EndedReal
    <3>2. QED
      BY <2>1, <3>1
  <2>4. QED
    BY <1>0, <2>1, <2>2, <2>3 DEF Real
<1>10. ASSUME NEW r \in Numbers, TurnTo(e, r)
       PROVE  Real(page'[e], form'[e], call'[e], revision')
  <2> DEFINE ended == Ended(call[e], TRUE)
  <2>1. /\ page'[e] = [id |-> r, data |-> NoRevision, fetch |-> NoRevision]
        /\ form'[e] = NoForm
        /\ call'[e] = Idle \/ call'[e] = [ended EXCEPT !.here = FALSE]
    BY <1>10 DEF TurnTo, IInv, TypeOK
  <2>2. NoForm.open = FALSE
    BY DEF NoForm
  <2>3. ended \in Call /\ Real(page[e], form[e], ended, revision)
    BY <1>0, EndedType, EndedReal
  <2>4. Real(page[e], form[e], call'[e], revision) /\ ~call'[e].here
    <3>1. CASE call'[e] = Idle
      BY <1>0, <1>1, <3>1 DEF Real
    <3>2. CASE call'[e] = [ended EXCEPT !.here = FALSE]
      <4> HIDE DEF ended
      <4>1. call'[e].here = FALSE
        BY <2>3, <3>2 DEF Call
      <4>2. Real(page[e], form[e], [ended EXCEPT !.here = FALSE], revision)
        BY <2>3, LeftReal
      <4>3. QED
        BY <3>2, <4>1, <4>2
    <3>3. QED
      BY <2>1, <3>1, <3>2
  <2>5. QED
    BY <1>0, <2>1, <2>2, <2>4, PageReal
<1>11. CASE PlansFail(e)
  <2> DEFINE f == Sync(NoForm, page[e].data)
  <2>1. /\ page' = page /\ form'[e] = f
        /\ call'[e] = Idle \/ call'[e] = [call[e] EXCEPT !.here = FALSE]
    BY <1>11 DEF PlansFail, IInv, TypeOK
  <2>2. f.open => f.base = page[e].data /\ page[e].data.state = "draft"
    BY <1>0, SyncType, Constants DEF NoForm
  <2>3. NoRevision.state = "absent"
    BY DEF NoRevision
  <2>4. f.open => Fits(f.base, revision[page[e].id])
    <3> HIDE DEF f
    <3> QED
      BY <1>0, <2>2, <2>3 DEF Real
  <2>5. Real(page[e], form[e], call'[e], revision)
    <3>1. CASE call'[e] = Idle
      BY <1>0, <1>1, <3>1 DEF Real
    <3>2. CASE call'[e] = [call[e] EXCEPT !.here = FALSE]
      <4>1. Real(page[e], form[e], [call[e] EXCEPT !.here = FALSE], revision)
        BY <1>0, LeftReal
      <4>2. QED
        BY <3>2, <4>1
    <3>3. QED
      BY <2>1, <3>1, <3>2
  <2>6. QED
    <3> HIDE DEF f
    <3> QED
      BY <1>0, <2>1, <2>4, <2>5 DEF Real
<1>12. QED
  BY <1>2, <1>3, <1>4, <1>5, <1>6, <1>7, <1>8, <1>9, <1>10, <1>11

-----------------------------------------------------------------------------
(* The bases of the forms are real.                                         *)

LEMMA IInvInit == Init => IInv
<1> SUFFICES ASSUME Init PROVE IInv
  OBVIOUS
<1>1. TypeOK
  BY TypeInvInit
<1>2. NoRevision.version = 0 /\ NoForm.open = FALSE /\ Idle.kind = "none" /\ Idle.here = FALSE
  BY DEF NoRevision, NoForm, Idle
<1>3. RowsReal
  BY DEF Init, RowsReal, NoRevision
<1>4. TabsReal
  BY <1>2 DEF Init, TabsReal, Real
<1>5. QED
  BY <1>1, <1>3, <1>4 DEF IInv

\* A step of one tab leaves the page, the form and the call of every other.
LEMMA OthersStay ==
    ASSUME TypeOK, NEW e \in Editors, StepOf(e), NEW d \in Editors, d # e
    PROVE  page'[d] = page[d] /\ form'[d] = form[d] /\ call'[d] = call[d]
<1> USE DEF TypeOK
<1>1. CASE \/ \E content \in Contents : Type(e, content)
           \/ SaveDraft(e) \/ PublishSaved(e) \/ CreateDraft(e) \/ Reload(e)
  BY <1>1 DEF Type, SaveDraft, PublishSaved, CreateDraft, Reload, Send
<1>2. CASE HandleSave(e) \/ HandlePublish(e) \/ HandleCreate(e) \/ LoseCall(e)
  BY <1>2 DEF HandleSave, HandlePublish, HandleCreate, LoseCall, Reply, Refuse, Answer
<1>3. CASE Saved(e) \/ Published(e) \/ Created(e) \/ Failed(e) \/ Settle(e)
  BY <1>3 DEF Saved, Published, Created, Failed, Settle
<1>4. CASE Fetch(e) \/ Arrive(e) \/ FetchFails(e)
  BY <1>4 DEF Fetch, Arrive, FetchFails
<1>5. CASE (\E r \in Numbers : TurnTo(e, r)) \/ PlansFail(e)
  BY <1>5 DEF TurnTo, PlansFail
<1>6. QED
  BY <1>1, <1>2, <1>3, <1>4, <1>5 DEF StepOf

LEMMA IInvNext == IInv /\ [Next]_vars => IInv'
<1> SUFFICES ASSUME IInv, [Next]_vars PROVE IInv'
  OBVIOUS
<1>1. CASE UNCHANGED vars
  <2>1. TypeOK'
    BY <1>1, TypeInvNext DEF IInv
  <2>2. RowsReal' /\ TabsReal'
    BY <1>1 DEF vars, IInv, RowsReal, TabsReal
  <2>3. QED
    BY <2>1, <2>2 DEF IInv
<1>2. ASSUME NEW e \in Editors, StepOf(e)
      PROVE  IInv'
  <2>1. TypeOK'
    BY <1>2, StepTypes DEF IInv, Next, StepOf
  <2>2. RowsReal' /\ \A r \in Numbers : Grown(revision[r], revision'[r])
    BY <1>2, RowsGrow DEF IInv
  <2>3. Real(page'[e], form'[e], call'[e], revision')
    BY <1>2, ClickReal, ServerReal, ReplyReal DEF StepOf
  <2>4. ASSUME NEW d \in Editors, d # e
        PROVE  Real(page'[d], form'[d], call'[d], revision')
    <3>1. page[d] \in Page /\ form[d] \in Form /\ call[d] \in Call
          /\ revision \in [Numbers -> Snapshot] /\ revision' \in [Numbers -> Snapshot]
      BY <2>1 DEF IInv, TypeOK
    <3>2. Real(page[d], form[d], call[d], revision)
      BY DEF IInv, TabsReal
    <3>3. Real(page[d], form[d], call[d], revision')
      BY <2>2, <3>1, <3>2, RealGrown
    <3>4. page'[d] = page[d] /\ form'[d] = form[d] /\ call'[d] = call[d]
      BY <1>2, <2>4, OthersStay DEF IInv
    <3>5. QED
      BY <3>3, <3>4
  <2>5. TabsReal'
    BY <2>3, <2>4 DEF TabsReal
  <2>6. QED
    BY <2>1, <2>2, <2>5 DEF IInv
<1>3. QED
  BY <1>1, <1>2 DEF Next, StepOf

LEMMA InductiveInvariant == Spec => []IInv
<1>1. Init => IInv
  BY IInvInit
<1>2. IInv /\ [Next]_vars => IInv'
  BY IInvNext
<1>3. QED
  BY <1>1, <1>2, PTL DEF Spec

\* Whatever is saved, published, lost or fetched late in any number of tabs,
\* what a form is based on is what the server had under that version (base).
THEOREM RealBases == Spec => []BaseIsReal
<1>1. IInv => BaseIsReal
  BY DEF IInv, TabsReal, BaseIsReal, Real, Fits
<1>2. QED
  BY <1>1, InductiveInvariant, PTL

-----------------------------------------------------------------------------
(* The refinement: every step is a step of the contract.                    *)

Doc(row) == [row EXCEPT !.state = IF @ = "published" THEN "frozen" ELSE @]

LEMMA DocFields ==
    ASSUME NEW s \in Snapshot
    PROVE  /\ Doc(s) \in Contract!Document
           /\ Doc(s).version = s.version /\ Doc(s).content = s.content
           /\ Doc(s).state = "draft" <=> s.state = "draft"
           /\ Doc(s).state = "absent" <=> s.state = "absent"
           /\ Doc(s) = [version |-> s.version, content |-> s.content,
                       state |-> IF s.state = "published" THEN "frozen" ELSE s.state]
BY DEF Doc, Snapshot, Contract!Document

\* A document with another content, and one that is frozen, written out.
LEMMA DocWith ==
    ASSUME NEW d \in Contract!Document, NEW v \in Nat, NEW content \in Contents
    PROVE  /\ [d EXCEPT !.content = content, !.version = v] =
              [version |-> v, content |-> content, state |-> d.state]
           /\ [d EXCEPT !.state = "frozen", !.version = v] =
              [version |-> v, content |-> d.content, state |-> "frozen"]
<1> DEFINE edited == [d EXCEPT !.content = content, !.version = v]
           frozen == [d EXCEPT !.state = "frozen", !.version = v]
<1>1. /\ edited \in Contract!Document
      /\ edited.version = v /\ edited.content = content /\ edited.state = d.state
  BY DEF Contract!Document
<1>2. /\ frozen \in Contract!Document
      /\ frozen.version = v /\ frozen.content = d.content /\ frozen.state = "frozen"
  BY DEF Contract!Document
<1>3. ASSUME NEW x \in Contract!Document
      PROVE  x = [version |-> x.version, content |-> x.content, state |-> x.state]
  BY DEF Contract!Document
<1>4. edited = [version |-> v, content |-> content, state |-> d.state]
  <2> HIDE DEF edited
  <2> QED
    BY <1>1, <1>3
<1>5. frozen = [version |-> v, content |-> d.content, state |-> "frozen"]
  <2> HIDE DEF frozen
  <2> QED
    BY <1>2, <1>3
<1>6. QED
  BY <1>4, <1>5

LEMMA DocChanges ==
    ASSUME NEW docs \in [Numbers -> Contract!Document], NEW r \in Numbers,
           NEW content \in Contents
    PROVE  /\ [docs EXCEPT ![r].content = content, ![r].version = @ + 1] =
              [docs EXCEPT ![r] = [version |-> docs[r].version + 1, content |-> content,
                                   state |-> docs[r].state]]
           /\ [docs EXCEPT ![r].state = "frozen", ![r].version = @ + 1] =
              [docs EXCEPT ![r] = [version |-> docs[r].version + 1,
                                   content |-> docs[r].content, state |-> "frozen"]]
<1> DEFINE d == docs[r]
           v == d.version + 1
<1>1. d \in Contract!Document /\ v \in Nat
  BY DEF Contract!Document
<1>2. /\ [d EXCEPT !.content = content, !.version = v] =
         [version |-> v, content |-> content, state |-> d.state]
      /\ [d EXCEPT !.state = "frozen", !.version = v] =
         [version |-> v, content |-> d.content, state |-> "frozen"]
  <2> HIDE DEF d, v
  <2> QED
    BY <1>1, DocWith
<1>3. /\ [docs EXCEPT ![r].content = content, ![r].version = @ + 1] =
         [docs EXCEPT ![r] = [d EXCEPT !.content = content, !.version = v]]
      /\ [docs EXCEPT ![r].state = "frozen", ![r].version = @ + 1] =
         [docs EXCEPT ![r] = [d EXCEPT !.state = "frozen", !.version = v]]
  OBVIOUS
<1>4. QED
  BY <1>2, <1>3

LEMMA DocumentsSeen ==
    ASSUME TypeOK
    PROVE  /\ Documents = [r \in Numbers |-> Doc(revision[r])]
           /\ Documents \in [Numbers -> Contract!Document]
<1>1. Documents = [r \in Numbers |-> Doc(revision[r])]
  BY DEF Documents, Doc
<1>2. \A r \in Numbers : Doc(revision[r]) \in Contract!Document
  BY DocFields DEF TypeOK
<1>3. QED
  BY <1>1, <1>2

\* What a tab has before the eyes is of the contract's kind.
LEMMA BasisSeen ==
    ASSUME NEW calls \in [Editors -> Call]
    PROVE  [e \in Editors |->
              IF calls[e].stage = "sent"
              THEN [of |-> calls[e].of, version |-> calls[e].base.version,
                    content |-> calls[e].content]
              ELSE [of |-> 1, version |-> 0, content |-> First]] \in [Editors -> Contract!Basis]
<1>1. ASSUME NEW e \in Editors
      PROVE  /\ calls[e].of \in Numbers /\ calls[e].base.version \in Nat
             /\ calls[e].content \in Contents
  BY CallFields, SnapshotFields
<1>2. 1 \in Numbers /\ First \in Contents
  BY Constants
<1>3. QED
  BY <1>1, <1>2 DEF Contract!Basis

LEMMA ContractInit == Init => Contract!Init
<1> SUFFICES ASSUME Init PROVE Contract!Init
  OBVIOUS
<1>1. TypeOK
  BY TypeInvInit
<1>2. QED
  BY <1>1, DocumentsSeen, BasisSeen DEF Contract!Init, Basis, TypeOK

\* A save that the server accepts replaces the version the form had been filled
\* from.
LEMMA SaveIsEdit ==
    ASSUME IInv, TypeOK', NEW e \in Editors, HandleSave(e), revision' # revision
    PROVE  Contract!Edit(e)
<1> DEFINE r == call[e].of
           row == [revision[r] EXCEPT !.content = call[e].content, !.version = @ + 1]
<1>1. /\ call[e].kind = "save" /\ call[e].stage = "sent"
      /\ revision[r].state = "draft" /\ revision[r].version = call[e].version
      /\ revision' = [revision EXCEPT ![r] = row]
  BY DEF HandleSave
<1>2. /\ call[e] \in Call /\ call[e].content \in Contents
      /\ r \in Numbers /\ revision[r] \in Snapshot /\ row \in Snapshot
      /\ revision[r].content \in Contents
  BY CallFields, SnapshotFields, RowTypes DEF IInv, TypeOK
<1>3. call[e].version = call[e].base.version
  BY <1>1 DEF IInv, TabsReal, Real
<1>4. Basis[e] = [of |-> r, version |-> revision[r].version, content |-> call[e].content]
  BY <1>1, <1>3 DEF Basis
<1>5. /\ row.version = revision[r].version + 1 /\ row.content = call[e].content
      /\ row.state = "draft"
  BY <1>1, <1>2 DEF Snapshot
<1>6. /\ Documents = [n \in Numbers |-> Doc(revision[n])]
      /\ Documents' = [n \in Numbers |-> Doc(revision'[n])]
  BY DEF Documents, Doc
<1>7. Doc(row) = [version |-> revision[r].version + 1, content |-> call[e].content,
                   state |-> "draft"]
  <2> HIDE DEF row
  <2> QED
    BY <1>1, <1>2, <1>5, DocFields
<1>8. Documents' = [Documents EXCEPT ![r] = Doc(row)]
  <2> HIDE DEF row
  <2> QED
    BY <1>1, <1>2, <1>6 DEF IInv, TypeOK
<1>9. Documents[r] = Doc(revision[r]) /\ Documents[r].state = "draft"
      /\ Documents[r].version = revision[r].version /\ Documents[r].content = revision[r].content
  BY <1>1, <1>2, <1>6, DocFields
<1>10. Documents' = [Documents EXCEPT ![r].content = call[e].content, ![r].version = @ + 1]
  <2>1. Documents \in [Numbers -> Contract!Document]
    BY DocumentsSeen DEF IInv
  <2>2. [Documents EXCEPT ![r].content = call[e].content, ![r].version = @ + 1] =
        [Documents EXCEPT ![r] = [version |-> Documents[r].version + 1,
                                  content |-> call[e].content,
                                  state |-> Documents[r].state]]
    BY <1>2, <2>1, DocChanges
  <2>3. QED
    BY <1>7, <1>8, <1>9, <2>2
<1>11. Basis[e].of = r /\ Basis[e].version = revision[r].version /\ Basis[e].content = call[e].content
  BY <1>4
<1>12. QED
  <2> HIDE DEF r, row
  <2> QED
    BY <1>9, <1>10, <1>11 DEF Contract!Edit

\* A publication that the server accepts freezes what its counselor saw.
LEMMA PublishIsFreeze ==
    ASSUME IInv, TypeOK', NEW e \in Editors, HandlePublish(e), revision' # revision
    PROVE  Contract!Freeze(e)
<1> DEFINE r == call[e].of
           row == [revision[r] EXCEPT !.state = "published", !.version = @ + 1]
<1>1. /\ call[e].kind = "publish" /\ call[e].stage = "sent"
      /\ revision[r].state = "draft" /\ revision[r].version = call[e].version
      /\ revision' = [revision EXCEPT ![r] = row]
  BY DEF HandlePublish
<1>2. /\ call[e] \in Call /\ call[e].content \in Contents
      /\ r \in Numbers /\ revision[r] \in Snapshot /\ row \in Snapshot
      /\ revision[r].content \in Contents
  BY CallFields, SnapshotFields, RowTypes DEF IInv, TypeOK
<1>3. /\ call[e].version = call[e].base.version /\ call[e].content = call[e].base.content
      /\ Fits(call[e].base, revision[r])
  BY <1>1 DEF IInv, TabsReal, Real
<1>4. Basis[e] = [of |-> r, version |-> revision[r].version, content |-> revision[r].content]
  BY <1>1, <1>3 DEF Basis, Fits
<1>5. /\ row.version = revision[r].version + 1 /\ row.content = revision[r].content
      /\ row.state = "published"
  BY <1>1, <1>2 DEF Snapshot
<1>6. /\ Documents = [n \in Numbers |-> Doc(revision[n])]
      /\ Documents' = [n \in Numbers |-> Doc(revision'[n])]
  BY DEF Documents, Doc
<1>7. Doc(row) = [version |-> revision[r].version + 1, content |-> revision[r].content,
                   state |-> "frozen"]
  <2> HIDE DEF row
  <2> QED
    BY <1>1, <1>2, <1>5, DocFields
<1>8. Documents' = [Documents EXCEPT ![r] = Doc(row)]
  <2> HIDE DEF row
  <2> QED
    BY <1>1, <1>2, <1>6 DEF IInv, TypeOK
<1>9. Documents[r] = Doc(revision[r]) /\ Documents[r].state = "draft"
      /\ Documents[r].version = revision[r].version /\ Documents[r].content = revision[r].content
  BY <1>1, <1>2, <1>6, DocFields
<1>10. Documents' = [Documents EXCEPT ![r].state = "frozen", ![r].version = @ + 1]
  <2>1. Documents \in [Numbers -> Contract!Document]
    BY DocumentsSeen DEF IInv
  <2>2. [Documents EXCEPT ![r].state = "frozen", ![r].version = @ + 1] =
        [Documents EXCEPT ![r] = [version |-> Documents[r].version + 1,
                                  content |-> Documents[r].content,
                                  state |-> "frozen"]]
    BY <1>2, <2>1, DocChanges
  <2>3. QED
    BY <1>7, <1>8, <1>9, <2>2
<1>11. Basis[e].of = r /\ Basis[e].content = revision[r].content
  BY <1>4
<1>12. QED
  <2> HIDE DEF r, row
  <2> QED
    BY <1>9, <1>10, <1>11 DEF Contract!Freeze

\* A new draft comes into being where there was none.
LEMMA DraftIsCreate ==
    ASSUME IInv, TypeOK', NEW e \in Editors, HandleCreate(e), revision' # revision
    PROVE  \E d \in Numbers : Contract!Create(d)
<1> DEFINE r == call[e].of
           row == [revision[r] EXCEPT !.version = 1, !.state = "draft"]
<1>1. PICK last \in Numbers :
         /\ revision' = [revision EXCEPT ![last + 1] = row]
         /\ last < MaxRevision
         /\ \A q \in Numbers : q > last => revision[q].state = "absent"
  BY DEF HandleCreate, IsNewest
<1> DEFINE new == last + 1
<1>2. /\ call[e] \in Call /\ call[e].content \in Contents
      /\ r \in Numbers /\ revision[r] \in Snapshot /\ row \in Snapshot
      /\ revision[r].content \in Contents
  BY CallFields, SnapshotFields, RowTypes DEF IInv, TypeOK
<1>3. new \in Numbers /\ revision[new] \in Snapshot /\ revision[new].state = "absent"
  <2>1. new \in Numbers /\ new > last
    BY <1>1 DEF Numbers
  <2>2. QED
    BY <1>1, <2>1 DEF IInv, TypeOK
<1>4. row.version = 1 /\ row.content = revision[r].content /\ row.state = "draft"
  BY <1>2 DEF Snapshot
<1>5. /\ Documents = [n \in Numbers |-> Doc(revision[n])]
      /\ Documents' = [n \in Numbers |-> Doc(revision'[n])]
  BY DEF Documents, Doc
<1>6. Doc(row) = [version |-> 1, content |-> revision[r].content, state |-> "draft"]
  <2> HIDE DEF row
  <2> QED
    BY <1>2, <1>4, DocFields
<1>7. Documents' = [Documents EXCEPT ![new] = Doc(row)]
  <2> HIDE DEF row, new
  <2> QED
    BY <1>1, <1>3, <1>5 DEF IInv, TypeOK, new
<1>8. Documents[new].state = "absent"
  <2> HIDE DEF new
  <2> QED
    BY <1>3, <1>5, DocFields
<1>9. revision[r].content \in Contents
  BY <1>2, SnapshotFields
<1>10. Contract!Create(new)
  <2> HIDE DEF new, row
  <2> QED
    BY <1>6, <1>7, <1>8, <1>9 DEF Contract!Create
<1>11. QED
  BY <1>3, <1>10

LEMMA ContractStep == IInv /\ IInv' /\ [Next]_vars => [Contract!Next]_(Contract!vars)
<1> SUFFICES ASSUME IInv, IInv', [Next]_vars PROVE [Contract!Next]_(Contract!vars)
  OBVIOUS
<1>1. TypeOK /\ TypeOK'
  BY DEF IInv
<1>2. Basis' \in [Editors -> Contract!Basis]
  BY <1>1, BasisSeen DEF Basis, TypeOK
<1>3. CASE revision' = revision
  <2>1. Documents' = Documents
    BY <1>3 DEF Documents
  <2>2. QED
    BY <1>2, <2>1 DEF Contract!Next
<1>4. CASE revision' # revision
  <2>1. PICK e \in Editors : HandleSave(e) \/ HandlePublish(e) \/ HandleCreate(e)
    BY <1>4 DEF vars, Next, Type, SaveDraft, PublishSaved, CreateDraft, Send, Reload, LoseCall,
        Saved, Published, Created, Failed, Settle, Fetch, Arrive, FetchFails, TurnTo, PlansFail
  <2>2. QED
    BY <1>1, <1>2, <1>4, <2>1, SaveIsEdit, PublishIsFreeze, DraftIsCreate DEF Contract!Next
<1>5. QED
  BY <1>3, <1>4

\* A save replaces only the version its form had been filled from, and what is
\* published is what its counselor saw when clicking (saveDraft, publishSaved).
THEOREM ByTheBook == Spec => EditsByTheBook
<1>1. Init => Contract!Init
  BY ContractInit
<1>2. IInv /\ IInv' /\ [Next]_vars => [Contract!Next]_(Contract!vars)
  BY ContractStep
<1>3. QED
  BY <1>1, <1>2, InductiveInvariant, PTL DEF Spec, EditsByTheBook, Contract!Spec

-----------------------------------------------------------------------------
(* What was typed stays.                                                    *)

\* Only a form that is mounted has edits.
EditedIsOpen == \A e \in Editors : form[e].edited => form[e].open

\* While a save or a reload of the mounted form is under way, the form says what it
\* said at the click, or a file has been attached since.
PendingIsShown(e) ==
    /\ call[e].kind = "reload" => call[e].stage = "refresh"
    /\ (/\ call[e].here /\ call[e].kind \in {"save", "reload"}
        /\ call[e].stage # "failed" /\ form[e].edited)
       => form[e].content = Asked(e) \/ form[e].content \in Attached

EditsInv == EditedIsOpen /\ \A e \in Editors : PendingIsShown(e)

LEMMA SyncEdits ==
    ASSUME NEW f \in Form, NEW data \in Snapshot, f.edited => f.open
    PROVE  /\ Sync(f, data).edited => Sync(f, data).open
           /\ (f.edited /\ data.state = "draft") => Sync(f, data) = f
<1>1. CASE data.state # "draft"
  BY <1>1 DEF Sync, NoForm
<1>2. CASE data.state = "draft" /\ ~f.open
  <2>1. Sync(f, data) = [NoForm EXCEPT !.open = TRUE, !.base = data, !.content = data.content]
    BY <1>2 DEF Sync
  <2>2. QED
    BY <1>2, <2>1 DEF NoForm
<1>3. CASE data.state = "draft" /\ f.open /\ f.edited
  BY <1>3 DEF Sync
<1>4. CASE data.state = "draft" /\ f.open /\ ~f.edited
  <2>1. Sync(f, data) = [f EXCEPT !.base = data, !.content = data.content]
    BY <1>4 DEF Sync
  <2>2. QED
    BY <1>4, <2>1 DEF Form
<1>5. QED
  BY <1>1, <1>2, <1>3, <1>4

\* The form of the tab that takes a step.
LEMMA EditsStep ==
    ASSUME TypeOK, EditsInv, NEW e \in Editors, StepOf(e)
    PROVE  /\ form'[e].edited => form'[e].open
           /\ Leaves(e) => OwnDoing(e) \/ Overtaken(e) \/ TakenAway(e)
<1>0. /\ form[e] \in Form /\ form \in [Editors -> Form] /\ page[e] \in Page /\ call[e] \in Call
      /\ call \in [Editors -> Call]
      /\ page[e].data \in Snapshot /\ page[e].fetch \in Snapshot /\ call[e].got \in Snapshot
      /\ form[e].edited => form[e].open
      /\ PendingIsShown(e)
  BY DEF TypeOK, EditsInv, EditedIsOpen, Page, Call
<1>1. ASSUME NEW errors, form'[e] = [form[e] EXCEPT !.errors = errors]
      PROVE  (form'[e].edited => form'[e].open) /\ ~Leaves(e)
  BY <1>0, <1>1 DEF Form, Leaves
<1>2. CASE \E content \in Contents : Type(e, content)
  <2>1. PICK content \in Contents : Type(e, content)
    BY <1>2
  <2>2. form'[e] = [form[e] EXCEPT !.content = content, !.edited = TRUE]
    BY <1>0, <2>1 DEF Type
  <2>3. form'[e].edited /\ form'[e].open
    BY <1>0, <2>1, <2>2 DEF Type, Form
  <2>4. QED
    BY <2>1, <2>3 DEF Type, OwnDoing
<1>3. CASE SaveDraft(e) \/ PublishSaved(e) \/ CreateDraft(e)
  <2>1. \E errors : form'[e] = [form[e] EXCEPT !.errors = errors]
    BY <1>0, <1>3 DEF SaveDraft, PublishSaved, CreateDraft, Send
  <2>2. QED
    BY <1>0, <1>1, <2>1
<1>4. CASE Failed(e)
  <2>1. \E errors : form'[e] = [form[e] EXCEPT !.errors = errors]
    BY <1>0, <1>4 DEF Failed
  <2>2. QED
    BY <1>0, <1>1, <2>1
<1>5. CASE form' = form
  BY <1>0, <1>5 DEF Leaves
<1>6. CASE Settle(e)
  <2>1. form'[e] \in {form[e], Accept(form[e], call[e].got)}
    BY <1>0, <1>6 DEF Settle
  <2>2. Accept(form[e], call[e].got).edited = FALSE
    BY <1>0 DEF Accept, Form
  <2>3. call[e].kind = "save" /\ call[e].stage = "settled" /\ Replaces(e)
    BY <1>6 DEF Settle, Replaces
  <2>4. CASE call[e].here /\ form[e].edited
    BY <1>0, <2>1, <2>2, <2>3, <2>4 DEF PendingIsShown, OwnDoing, Overtaken
  <2>5. CASE ~call[e].here
    BY <1>0, <1>6, <2>5 DEF Settle, Leaves
  <2>6. QED
    BY <1>0, <2>1, <2>2, <2>4, <2>5 DEF Leaves
<1>7. CASE Arrive(e)
  <2> DEFINE new == Sync(form[e], page[e].fetch)
             accepted == Accept(new, page[e].fetch)
             taken == [accepted EXCEPT !.errors = {}]
  <2>1. /\ new \in Form
        /\ new.edited => new.open
        /\ (form[e].edited /\ page[e].fetch.state = "draft") => new = form[e]
    BY <1>0, SyncType, SyncEdits
  <2>2. taken.edited = FALSE
    <3> HIDE DEF new
    <3>1. accepted \in Form
      BY <1>0, <2>1, AcceptType
    <3>2. accepted.edited = FALSE
      BY <2>1 DEF Accept, Form
    <3> HIDE DEF accepted
    <3>3. QED
      BY <3>1, <3>2 DEF Form
  <2>3. form'[e] = new \/ (form'[e] = taken /\ call[e].kind = "reload" /\ call[e].here)
    BY <1>0, <1>7 DEF Arrive
  <2>4. page[e].fetch # NoRevision /\ page'[e].data = page[e].fetch
    BY <1>0, <1>7 DEF Arrive, Page, TypeOK
  <2> HIDE DEF new, accepted, taken
  <2>5. CASE form'[e] = taken /\ call[e].kind = "reload" /\ call[e].here
    <3>1. Replaces(e)
      BY <2>4, <2>5 DEF Replaces
    <3>2. QED
      BY <1>0, <2>2, <2>5, <3>1 DEF PendingIsShown, OwnDoing, Overtaken, Leaves
  <2>6. CASE form'[e] = new /\ page[e].fetch.state = "draft"
    BY <2>1, <2>6 DEF Leaves
  <2>7. CASE form'[e] = new /\ page[e].fetch.state # "draft"
    BY <2>1, <2>4, <2>7 DEF TakenAway
  <2>8. QED
    BY <2>3, <2>5, <2>6, <2>7
<1>8. CASE \E r \in Numbers : TurnTo(e, r)
  <2>1. PICK r \in Numbers : TurnTo(e, r)
    BY <1>8
  <2>2. form'[e] = NoForm /\ page'[e].id # page[e].id
    BY <1>0, <2>1 DEF TurnTo, TypeOK, Page, Numbers
  <2>3. NoForm.edited = FALSE
    BY DEF NoForm
  <2>4. QED
    BY <2>2, <2>3 DEF TakenAway
<1>9. CASE PlansFail(e)
  <2>1. form'[e] = Sync(NoForm, page[e].data)
    BY <1>0, <1>9 DEF PlansFail
  <2>2. form'[e].edited => form'[e].open
    BY <1>0, <2>1, SyncEdits, Constants DEF NoForm
  <2>3. QED
    BY <1>9, <2>2 DEF TakenAway
<1>10. QED
  BY <1>2, <1>3, <1>4, <1>5, <1>6, <1>7, <1>8, <1>9
  DEF StepOf, Reload, HandleSave, HandlePublish, HandleCreate, LoseCall, Saved, Published,
      Created, Fetch, FetchFails

\* The call of the tab that takes a step speaks of what its form says.
LEMMA PendingStep ==
    ASSUME TypeOK, EditsInv, NEW e \in Editors, StepOf(e)
    PROVE  PendingIsShown(e)'
<1>0. /\ form[e] \in Form /\ form \in [Editors -> Form] /\ page[e] \in Page /\ call[e] \in Call
      /\ call \in [Editors -> Call] /\ page[e].fetch \in Snapshot
      /\ form[e].edited => form[e].open
      /\ PendingIsShown(e)
      /\ call[e].stage = "none" => call[e].kind = "none"
  BY DEF TypeOK, EditsInv, EditedIsOpen, Page
\* The mutation is over or is neither a save nor a reload.
<1>1. ASSUME call'[e].kind \notin {"save", "reload"} \/ call'[e].stage = "failed",
             call'[e].kind # "reload"
      PROVE  PendingIsShown(e)'
  BY <1>1 DEF PendingIsShown
\* A save goes on, and its form stays as it is or forgets its edits.
<1>2. ASSUME call[e].kind = "save", call[e].stage # "failed", call'[e].kind = "save",
             call'[e].here => call[e].here,
             (call'[e].here /\ form'[e].edited)
                 => form[e].edited /\ form'[e].content = form[e].content,
             Asked(e)' = Asked(e)
      PROVE  PendingIsShown(e)'
  BY <1>0, <1>2 DEF PendingIsShown
<1>3. CASE \E content \in Contents : Type(e, content)
  <2>1. PICK content \in Contents : Type(e, content)
    BY <1>3
  <2>2. form'[e].content = content /\ call' = call
    BY <1>0, <2>1 DEF Type, Form
  <2>3. CASE content \in Attached
    BY <1>0, <2>2, <2>3 DEF PendingIsShown
  <2>4. CASE ~Busy(e)
    BY <1>1, <2>2, <2>4 DEF Busy
  <2>5. QED
    BY <2>1, <2>3, <2>4 DEF Type
<1>4. CASE SaveDraft(e) \/ PublishSaved(e) \/ CreateDraft(e)
  <2>1. PICK kind \in {"save", "publish", "create"} :
            \E version : \E next \in BOOLEAN : Send(e, Request(e, kind, version, next))
    BY <1>4 DEF SaveDraft, PublishSaved, CreateDraft
  <2>2. PICK version : \E next \in BOOLEAN : Send(e, Request(e, kind, version, next))
    BY <2>1
  <2>3. PICK next \in BOOLEAN : Send(e, Request(e, kind, version, next))
    BY <2>2
  <2> DEFINE request == Request(e, kind, version, next)
  <2>4. request.kind = kind /\ request.content = form[e].content /\ request.stage = "sent"
    BY DEF Request
  <2> HIDE DEF request
  <2>5. call'[e] = request /\ form'[e] = [form[e] EXCEPT !.errors = @ \ {request.kind}]
    BY <1>0, <2>3 DEF Send, request
  <2>6. form'[e].content = form[e].content
    BY <1>0, <2>5 DEF Form
  <2>7. QED
    BY <2>4, <2>5, <2>6 DEF PendingIsShown, Asked
<1>5. CASE Reload(e)
  <2> DEFINE request == Request(e, "reload", 0, FALSE)
             reload == [request EXCEPT !.stage = "refresh"]
  <2>1. reload.kind = "reload" /\ reload.content = form[e].content /\ reload.stage = "refresh"
    BY DEF Request
  <2> HIDE DEF reload
  <2>2. call'[e] = reload /\ form' = form
    BY <1>0, <1>5 DEF Reload, reload
  <2>3. QED
    BY <2>1, <2>2 DEF PendingIsShown, Asked
<1>6. CASE LoseCall(e) \/ HandlePublish(e) \/ HandleCreate(e)
  <2>1. PICK stage \in {"failed", "done"} : \E row : Answer(e, stage, row)
    BY <1>6 DEF LoseCall, HandlePublish, HandleCreate, Refuse, Reply
  <2>2. call'[e].kind = call[e].kind /\ call'[e].stage = stage
    BY <1>0, <2>1 DEF Answer, Idle
  <2>3. call[e].kind # "reload" /\ (call'[e].stage = "failed" \/ call[e].kind # "save")
    <3>1. CASE LoseCall(e)
      BY <1>0, <3>1 DEF LoseCall, Refuse, Answer, Idle, PendingIsShown
    <3>2. QED
      BY <1>6, <3>1 DEF HandlePublish, HandleCreate
  <2>4. QED
    BY <1>1, <2>2, <2>3
<1>7. CASE HandleSave(e)
  <2> DEFINE r == call[e].of
             row == [revision[r] EXCEPT !.content = call[e].content, !.version = @ + 1]
  <2>1. call[e].kind = "save" /\ call[e].stage = "sent" /\ form' = form
        /\ (Answer(e, "failed", NoRevision) \/ Answer(e, "done", row))
    BY <1>7 DEF HandleSave, Refuse, Reply
  <2>2. r \in Numbers /\ revision[r] \in Snapshot
    BY <1>0 DEF TypeOK, Call
  <2>3. row.content = call[e].content
    BY <2>2 DEF Snapshot
  <2> HIDE DEF row, r
  <2>4. CASE Answer(e, "failed", NoRevision)
    BY <1>0, <1>1, <2>1, <2>4 DEF Answer, Idle
  <2>5. CASE Answer(e, "done", row)
    <3>1. /\ call'[e].kind = "save" /\ call'[e].stage = "done" /\ call'[e].got = row
          /\ call'[e].here = call[e].here
      BY <1>0, <2>1, <2>5 DEF Answer, Idle
    <3>2. Asked(e)' = Asked(e)
      BY <2>1, <2>3, <3>1 DEF Asked
    <3>3. QED
      BY <1>2, <2>1, <3>1, <3>2
  <2>6. QED
    BY <2>1, <2>4, <2>5
<1>8. CASE Saved(e)
  <2>1. /\ call[e].kind = "save" /\ call[e].stage = "done" /\ form' = form
        /\ call'[e] = [call[e] EXCEPT !.stage = "refresh"]
    BY <1>0, <1>8 DEF Saved
  <2>2. /\ call'[e].kind = "save" /\ call'[e].stage = "refresh"
        /\ call'[e].got = call[e].got /\ call'[e].here = call[e].here
    BY <1>0, <2>1 DEF Call
  <2>3. Asked(e)' = Asked(e)
    BY <2>1, <2>2 DEF Asked
  <2>4. QED
    BY <1>2, <2>1, <2>2, <2>3
<1>9. CASE Published(e) \/ Failed(e)
  <2>1. call'[e] = Idle
    BY <1>0, <1>9 DEF Published, Failed
  <2>2. QED
    BY <1>1, <2>1 DEF Idle
<1>10. CASE Created(e)
  <2>1. call'[e].kind = "create"
    BY <1>0, <1>10 DEF Created, Call
  <2>2. QED
    BY <1>1, <2>1
<1>11. CASE Settle(e)
  <2>1. call'[e].kind \in {"none", "publish"}
    BY <1>0, <1>11 DEF Settle, Idle, Call
  <2>2. QED
    BY <1>1, <2>1
\* What the end of a fetch makes of the call.
<1>12. ASSUME NEW read \in BOOLEAN, NEW here \in BOOLEAN, here => call[e].here,
              call'[e] = [Ended(call[e], read) EXCEPT !.here = here],
              (here /\ form'[e].edited) => form[e].edited /\ form'[e].content = form[e].content
       PROVE  PendingIsShown(e)'
  <2>1. CASE call[e].kind = "save" /\ call[e].stage = "refresh"
    <3>1. call'[e] = [[call[e] EXCEPT !.stage = "settled"] EXCEPT !.here = here]
      BY <1>12, <2>1 DEF Ended
    <3>2. /\ call'[e].kind = "save" /\ call'[e].stage = "settled"
          /\ call'[e].got = call[e].got /\ call'[e].here = here
      BY <1>0, <2>1, <3>1 DEF Call
    <3>3. Asked(e)' = Asked(e)
      BY <2>1, <3>2 DEF Asked
    <3>4. QED
      BY <1>2, <1>12, <2>1, <3>2, <3>3
  <2>2. CASE call[e].kind = "reload"
    <3>1. call'[e] = [Idle EXCEPT !.here = here]
      BY <1>12, <2>2 DEF Ended
    <3>2. QED
      BY <1>1, <3>1 DEF Idle
  <2>3. CASE ~(call[e].kind = "save" /\ call[e].stage = "refresh") /\ call[e].kind # "reload"
    <3>1. call'[e] = [call[e] EXCEPT !.here = here]
      BY <1>12, <2>3 DEF Ended
    <3>2. /\ call'[e].kind = call[e].kind /\ call'[e].stage = call[e].stage
          /\ call'[e].got = call[e].got /\ call'[e].content = call[e].content
          /\ call'[e].here = here
      BY <1>0, <3>1 DEF Call
    <3>3. Asked(e)' = Asked(e)
      BY <3>2 DEF Asked
    <3>4. QED
      BY <1>1, <1>2, <1>12, <2>3, <3>2, <3>3
  <2>4. QED
    BY <2>1, <2>2, <2>3
<1>13. CASE Fetch(e)
  BY <1>0, <1>13 DEF Fetch, PendingIsShown, Asked
<1>14. CASE Arrive(e)
  <2> DEFINE new == Sync(form[e], page[e].fetch)
             taken == [Accept(new, page[e].fetch) EXCEPT !.errors = {}]
             ended == Ended(call[e], TRUE)
  <2>1. /\ new \in Form
        /\ (form[e].edited /\ page[e].fetch.state = "draft") => new = form[e]
    BY <1>0, SyncType, SyncEdits
  <2>2. ended \in Call /\ (call[e].kind = "reload" => ended = Idle)
        /\ (ended.here => call[e].here)
    BY <1>0, EndedType DEF Ended, Idle, Call
  <2>3. new.edited => form[e].edited /\ new = form[e]
    BY <1>0 DEF Sync, NoForm, Form
  <2>4. /\ call'[e] = [ended EXCEPT !.here = @ /\ new.open]
        /\ form'[e] = new \/ (form'[e] = taken /\ call[e].kind = "reload")
    BY <1>0, <1>14 DEF Arrive
  <2> HIDE DEF new, taken, ended
  <2>5. CASE call[e].kind = "reload"
    <3>1. call'[e].kind = "none"
      BY <2>2, <2>4, <2>5 DEF Idle
    <3>2. QED
      BY <1>1, <3>1
  <2>6. CASE call[e].kind # "reload"
    <3> DEFINE here == ended.here /\ new.open
    <3>1. /\ form'[e] = new /\ call'[e] = [ended EXCEPT !.here = here]
          /\ here \in BOOLEAN /\ (here => call[e].here)
      BY <2>1, <2>2, <2>4, <2>6 DEF Call, Form
    <3> HIDE DEF here
    <3>2. QED
      BY <1>12, <2>3, <3>1 DEF ended
  <2>7. QED
    BY <2>5, <2>6
<1>15. CASE FetchFails(e)
  <2>1. call'[e] = Ended(call[e], FALSE) /\ form' = form
    BY <1>0, <1>15 DEF FetchFails
  <2>2. Ended(call[e], FALSE) \in Call
    BY <1>0, EndedType
  <2>3. CASE call[e].kind = "reload"
    BY <1>1, <2>1, <2>3 DEF Ended, Idle
  <2>4. CASE call[e].kind # "reload"
    <3>1. Ended(call[e], FALSE) = [Ended(call[e], FALSE) EXCEPT !.here = call[e].here]
      BY <1>0, <2>2, <2>4 DEF Ended, Call
    <3>2. call[e].here \in BOOLEAN
      BY <1>0 DEF Call
    <3>3. QED
      BY <1>12, <2>1, <3>1, <3>2
  <2>5. QED
    BY <2>3, <2>4
<1>16. CASE \E r \in Numbers : TurnTo(e, r)
  <2>1. call'[e] \in {Idle, [Ended(call[e], TRUE) EXCEPT !.here = FALSE]}
    BY <1>0, <1>16 DEF TurnTo
  <2>2. CASE call'[e] = Idle
    BY <1>1, <2>2 DEF Idle
  <2>3. CASE call'[e] = [Ended(call[e], TRUE) EXCEPT !.here = FALSE]
    BY <1>12, <2>3
  <2>4. QED
    BY <2>1, <2>2, <2>3
<1>17. CASE PlansFail(e)
  <2>1. call'[e] \in {Idle, [call[e] EXCEPT !.here = FALSE]}
    BY <1>0, <1>17 DEF PlansFail
  <2>2. CASE call'[e] = Idle
    BY <1>1, <2>2 DEF Idle
  <2>3. CASE call'[e] = [call[e] EXCEPT !.here = FALSE]
    <3>1. /\ call'[e].kind = call[e].kind /\ call'[e].stage = call[e].stage
          /\ call'[e].here = FALSE
      BY <1>0, <2>3 DEF Call
    <3>2. QED
      BY <1>0, <3>1 DEF PendingIsShown
  <2>4. QED
    BY <2>1, <2>2, <2>3
<1>18. QED
  BY <1>3, <1>4, <1>5, <1>6, <1>7, <1>8, <1>9, <1>10, <1>11, <1>13, <1>14, <1>15, <1>16, <1>17
  DEF StepOf

LEMMA EditsInvInit == Init => EditsInv
BY DEF Init, EditsInv, EditedIsOpen, PendingIsShown, NoForm, Idle

LEMMA EditsInvNext == TypeOK /\ EditsInv /\ [Next]_vars => EditsInv' /\ KeepsTyping
<1> SUFFICES ASSUME TypeOK, EditsInv, [Next]_vars
             PROVE  EditsInv' /\ KeepsTyping
  OBVIOUS
<1>1. CASE UNCHANGED vars
  BY <1>1 DEF vars, EditsInv, EditedIsOpen, PendingIsShown, Asked, KeepsTyping, Leaves
<1>2. ASSUME NEW e \in Editors, StepOf(e)
      PROVE  EditsInv' /\ KeepsTyping
  <2>1. \A d \in Editors : d # e => form'[d] = form[d] /\ call'[d] = call[d]
    BY <1>2, OthersStay
  <2>2. EditedIsOpen'
    BY <1>2, <2>1, EditsStep DEF EditsInv, EditedIsOpen
  <2>3. \A d \in Editors : PendingIsShown(d)'
    <3>1. ASSUME NEW d \in Editors, d # e
          PROVE  PendingIsShown(d)'
      BY <2>1, <3>1 DEF EditsInv, PendingIsShown, Asked
    <3>2. QED
      BY <1>2, <3>1, PendingStep
  <2>4. KeepsTyping
    BY <1>2, <2>1, EditsStep DEF KeepsTyping, Leaves
  <2>5. QED
    BY <2>2, <2>3, <2>4 DEF EditsInv
<1>3. QED
  BY <1>1, <1>2 DEF Next, StepOf

\* What was put into a draft leaves the form only by typing on, by a save or a reload
\* of what it says (edited.current), because the editor is taken away - the plans
\* cannot be read, a newer revision takes its place, or it has been published -
\* or, a file attached meanwhile, by the reply to that save or reload.  No fetch of
\* the revision, refusal or lost reply takes it away.
THEOREM DraftTyping == Spec => [][KeepsTyping]_vars
<1>1. Spec => []TypeOK
  BY TypeCorrect
<1>2. QED
  BY <1>1, EditsInvInit, EditsInvNext, PTL DEF Spec

=============================================================================
