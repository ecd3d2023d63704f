-------------------------- MODULE MatchEditorProofs --------------------------
(***************************************************************************)
(* What holds of the editor of a match for any number of tabs, any texts   *)
(* and any failures of requests, replies and fetches: a match is confirmed *)
(* as its counselor saw it, and what is saved on the way replaces only     *)
(* what the form was filled from.                                          *)
(*                                                                         *)
(* The argument: whatever a tab has of the match, in its cache, in a fetch *)
(* or in a reply, is the match itself as long as the versions are equal.   *)
(***************************************************************************)
EXTENDS MatchEditor, TLAPS

\* The text before any edit is a text.
FirstAssumption == First \in Contents

-----------------------------------------------------------------------------
(* Types.                                                                   *)

\* The initial records are well formed.
LEMMA Blank ==
    ASSUME FirstAssumption
    PROVE  /\ None \in Snapshot /\ NoForm \in Form /\ Idle \in Call
           /\ Idle.stage = "none" /\ None.version = 0 /\ NoForm.edited = FALSE
BY DEF FirstAssumption, None, Snapshot, NoForm, Form, Idle, Call

\* A click that makes f a request of a kind under a version.
Sent(f, kind, version, next) ==
    [Idle EXCEPT !.kind = kind, !.version = version, !.content = f.content,
                 !.basis = f.base, !.next = next, !.here = TRUE, !.shown = TRUE,
                 !.stage = "sent"]

\* The call c, answered.
Answered(c, stage, row) ==
    [Idle EXCEPT !.kind = c.kind, !.next = c.next, !.here = c.here, !.shown = c.shown,
                 !.stage = stage, !.got = row]

\* What such calls are.
LEMMA SentIs ==
    ASSUME FirstAssumption, NEW f \in Form, NEW kind \in {"save", "confirm"},
           NEW version \in Nat, NEW next \in BOOLEAN
    PROVE  LET c == Sent(f, kind, version, next)
           IN  /\ c \in Call /\ c.stage = "sent" /\ c.kind = kind /\ c.version = version
               /\ c.content = f.content /\ c.basis = f.base /\ c.next = next /\ c.got = None
BY Blank DEF Sent, Idle, Call, Form

\* What an answered call keeps of the request.
LEMMA AnsweredIs ==
    ASSUME FirstAssumption, NEW c \in Call, NEW stage \in {"done", "refused", "failed"},
           NEW row \in Snapshot
    PROVE  LET a == Answered(c, stage, row)
           IN  a \in Call /\ a.stage = stage /\ a.kind = c.kind /\ a.got = row
BY Blank DEF Answered, Idle, Call, FirstAssumption

\* Filling a form, typing into it or marking it clean keeps it well formed.
LEMMA FormTypes ==
    ASSUME NEW f \in Form, NEW row \in Snapshot
    PROVE  /\ Fill(f, row) \in Form /\ Sync(f, row) \in Form
           /\ Fill(f, row).base = row /\ Fill(f, row).edited = f.edited
           /\ [f EXCEPT !.edited = FALSE, !.base = row] \in Form
           /\ \A kinds \in SUBSET {"save", "confirm"} :
                 [f EXCEPT !.conflicts = kinds] \in Form
           /\ \A content \in Contents :
                 [f EXCEPT !.content = content, !.edited = TRUE] \in Form
           /\ \A reload \in BOOLEAN :
                 LET g == [f EXCEPT !.reload = reload]
                 IN  g \in Form /\ g.base = f.base /\ g.edited = f.edited
                     /\ g.content = f.content
<1>1. row.content \in Contents
  BY DEF Snapshot
<1>2. QED
  BY <1>1 DEF Fill, Sync, Form

-----------------------------------------------------------------------------
(* The inductive invariant.                                                 *)

\* As long as the version is that of the match, s is what the match says.
Real(m, s) == s.version <= m.version /\ (s.version = m.version => s.content = m.content)

\* What is cached was fetched, and a form with a base that was fetched keeps one.
Known(d, f, fo) ==
    /\ f # None => f.version > 0
    /\ d # None => d.version > 0 /\ fo.base.version > 0
    /\ fo.edited => fo.base.version > 0

\* A confirmation under way is of the text that was shown, and the save before it
\* has the version the form was filled from.
CallFits(m, c) ==
    /\ c.stage = "none" => c = Idle
    /\ Real(m, c.got)
    /\ c.stage = "refused" => c.kind \in {"save", "confirm"}
    /\ c.kind = "save" /\ c.stage \in {"done", "refresh", "settled"} => c.got.version > 0
    /\ c.kind = "confirm" /\ c.stage = "sent" => Real(m, c)
    /\ c.kind = "save" /\ c.next /\ c.stage = "sent" => c.basis.version = c.version

\* One tab: its cache, fetch, form and call.
Good(m, d, f, fo, c) == Real(m, d) /\ Real(m, f) /\ Known(d, f, fo) /\ CallFits(m, c)

Tabs ==
    /\ data \in [Editors -> Snapshot] /\ fetch \in [Editors -> Snapshot]
    /\ form \in [Editors -> Form] /\ call \in [Editors -> Call]

IInv ==
    /\ match \in Snapshot /\ match.version > 0
    /\ Tabs
    /\ \A e \in Editors : Good(match, data[e], fetch[e], form[e], call[e])

\* The match moves only to a higher version.
Moves(m, n) == n = m \/ (n \in Snapshot /\ n.version = m.version + 1)

\* A tab that stays as it is remains good when the match moves.
LEMMA StaysGood ==
    ASSUME NEW m \in Snapshot, NEW n, Moves(m, n), NEW d \in Snapshot, NEW f \in Snapshot,
           NEW fo \in Form, NEW c \in Call, Good(m, d, f, fo, c)
    PROVE  Good(n, d, f, fo, c)
<1>1. ASSUME NEW s, s.version \in Nat, Real(m, s)
      PROVE  Real(n, s)
  BY <1>1 DEF Real, Moves, Snapshot
<1>2. d.version \in Nat /\ f.version \in Nat /\ c.version \in Nat /\ c.got.version \in Nat
  BY DEF Snapshot, Call
<1>3. QED
  BY <1>1, <1>2 DEF Good, CallFits

\* A step of one tab that leaves it good keeps the invariant.
LEMMA TabStep ==
    ASSUME IInv, NEW e \in Editors, Moves(match, match'),
           NEW d \in Snapshot, data' = [data EXCEPT ![e] = d],
           NEW f \in Snapshot, fetch' = [fetch EXCEPT ![e] = f],
           NEW fo \in Form, form' = [form EXCEPT ![e] = fo],
           NEW c \in Call, call' = [call EXCEPT ![e] = c],
           Good(match', d, f, fo, c)
    PROVE  IInv'
<1>1. match' \in Snapshot /\ match'.version > 0
  BY DEF IInv, Moves, Snapshot
<1>2. Tabs'
  BY DEF IInv, Tabs
<1>3. ASSUME NEW t \in Editors
      PROVE  Good(match', data'[t], fetch'[t], form'[t], call'[t])
  <2>1. CASE t = e
    BY <2>1 DEF IInv, Tabs
  <2>2. CASE t # e
    <3>1. Good(match, data[t], fetch[t], form[t], call[t])
      BY DEF IInv
    <3>2. Good(match', data[t], fetch[t], form[t], call[t])
      BY <3>1, StaysGood DEF IInv, Tabs
    <3>3. QED
      BY <2>2, <3>2 DEF IInv, Tabs
  <2>3. QED
    BY <2>1, <2>2
<1>4. QED
  BY <1>1, <1>2, <1>3 DEF IInv

\* The tab of e: well formed and good, and a component that is not written is
\* written with itself.
LEMMA Here ==
    ASSUME IInv, NEW e \in Editors
    PROVE  /\ match \in Snapshot /\ match.version \in Nat /\ match.version > 0
           /\ data[e] \in Snapshot /\ fetch[e] \in Snapshot
           /\ form[e] \in Form /\ call[e] \in Call
           /\ Good(match, data[e], fetch[e], form[e], call[e])
           /\ data = [data EXCEPT ![e] = data[e]] /\ fetch = [fetch EXCEPT ![e] = fetch[e]]
           /\ form = [form EXCEPT ![e] = form[e]] /\ call = [call EXCEPT ![e] = call[e]]
BY DEF IInv, Tabs, Snapshot

-----------------------------------------------------------------------------
(* The steps.                                                               *)

\* What is clicked and typed.
LEMMA TypeKeeps ==
    ASSUME FirstAssumption, IInv, NEW e \in Editors, NEW content \in Contents, Type(e, content)
    PROVE  IInv'
<1> DEFINE fo == [form[e] EXCEPT !.content = content, !.edited = TRUE]
<1>1. data[e] # None
  BY DEF Type, Editable, None
<1>2. fo \in Form /\ fo.base = form[e].base
  BY Here, FormTypes DEF Form
<1>3. form' = [form EXCEPT ![e] = fo]
  BY Here DEF Type
<1> HIDE DEF fo
<1>4. Good(match, data[e], fetch[e], fo, call[e])
  BY <1>1, <1>2, Here DEF Good, Known
<1>5. QED
  BY <1>2, <1>3, <1>4, Here, TabStep DEF Type, Moves

\* A request is sent with a form that has the base it names, if it saves before it
\* confirms, and that says what the match says, if it confirms.
LEMMA SendKeeps ==
    ASSUME FirstAssumption, IInv, NEW e \in Editors, NEW fo \in Form,
           NEW kind \in {"save", "confirm"}, NEW version \in Nat, NEW next \in BOOLEAN,
           fo.base = form[e].base \/ fo.base = data[e], fo.edited => form[e].edited,
           data[e] # None,
           kind = "save" /\ next => fo.base.version = version,
           kind = "confirm" => Real(match, [version |-> version, content |-> fo.content]),
           Send(e, fo, kind, version, next)
    PROVE  IInv'
<1> DEFINE new == [fo EXCEPT !.conflicts = @ \ {kind}]
           c == Sent(fo, kind, version, next)
<1>1. /\ c \in Call /\ c.stage = "sent" /\ c.kind = kind /\ c.version = version
      /\ c.content = fo.content /\ c.basis = fo.base /\ c.next = next /\ c.got = None
  BY SentIs
<1>2. new \in Form /\ new.base = fo.base /\ new.edited = fo.edited
  BY DEF Form
<1>3. form' = [form EXCEPT ![e] = new] /\ call' = [call EXCEPT ![e] = c]
  BY DEF Send, Sent
<1> HIDE DEF new, c
<1>4. CallFits(match, c)
  <2>1. Real(match, None)
    BY Here, Blank DEF Real
  <2>2. QED
    BY <1>1, <2>1 DEF CallFits, Real
<1>5. Known(data[e], fetch[e], new)
  BY <1>2, Here DEF Good, Known
<1>6. Good(match, data[e], fetch[e], new, c)
  BY <1>4, <1>5, Here DEF Good
<1>7. QED
  BY <1>1, <1>2, <1>3, <1>6, Here, TabStep DEF Send, Moves

\* The plain button: no more is promised than a save.
LEMMA SaveDraftKeeps ==
    ASSUME FirstAssumption, IInv, NEW e \in Editors, SaveDraft(e)
    PROVE  IInv'
<1>1. data[e] # None /\ data[e].version \in Nat
  BY Here DEF SaveDraft, Editable, None, Snapshot
<1>2. QED
  BY <1>1, Here, SendKeeps DEF SaveDraft

\* confirmSaved: a dirty form names its base, a clean one is what is cached.
LEMMA ConfirmSavedKeeps ==
    ASSUME FirstAssumption, IInv, NEW e \in Editors, ConfirmSaved(e)
    PROVE  IInv'
<1>1. data[e] # None /\ data[e].version \in Nat /\ form[e].base.version \in Nat
  BY Here DEF ConfirmSaved, Editable, None, Snapshot, Form
<1>2. form[e].base.version > 0
  BY <1>1, Here DEF Good, Known
<1>3. ASSUME Send(e, form[e], "save", BaseVersion(e), TRUE)
      PROVE  IInv'
  <2>1. BaseVersion(e) = form[e].base.version
    BY <1>1, <1>2 DEF BaseVersion
  <2>2. QED
    BY <1>1, <1>3, <2>1, Here, SendKeeps
<1>4. ASSUME ~Dirty(e), Send(e, Clean(e), "confirm", data[e].version, FALSE)
      PROVE  IInv'
  <2>1. /\ Clean(e) \in Form /\ Clean(e).base = data[e] /\ Clean(e).edited = FALSE
        /\ Clean(e).content = data[e].content
    <3>1. form[e] \in Form /\ data[e] \in Snapshot
      BY Here
    <3>2. Clean(e) \in Form
      BY <3>1, FormTypes DEF Clean
    <3>3. /\ Clean(e).base = data[e] /\ Clean(e).edited = FALSE
          /\ Clean(e).content = form[e].content
      BY <3>1 DEF Clean, Form
    <3>4. QED
      BY <1>4, <3>2, <3>3 DEF Dirty
  <2>2. Real(match, [version |-> data[e].version, content |-> Clean(e).content])
    BY <2>1, Here DEF Good, Real
  <2>3. QED
    BY <1>1, <1>4, <2>1, <2>2, Here, SendKeeps
<1>5. QED
  BY <1>3, <1>4 DEF ConfirmSaved

\* A reload asks for the match and has nothing yet.
LEMMA ReloadKeeps ==
    ASSUME FirstAssumption, IInv, NEW e \in Editors, Reload(e)
    PROVE  IInv'
<1> DEFINE fo == [form[e] EXCEPT !.reload = TRUE]
<1>1. fo \in Form /\ fo.base = form[e].base /\ fo.edited = form[e].edited
  BY Here, FormTypes
<1>2. fetch' = [fetch EXCEPT ![e] = None] /\ form' = [form EXCEPT ![e] = fo]
  BY Here DEF Reload
<1> HIDE DEF fo
<1>3. Good(match, data[e], None, fo, call[e])
  BY <1>1, Here, Blank DEF Good, Known, Real
<1>4. QED
  BY <1>1, <1>2, <1>3, Here, Blank, TabStep DEF Reload, Moves

\* An answer that brings nothing, or the match.
LEMMA AnswerKeeps ==
    ASSUME FirstAssumption, IInv, NEW e \in Editors, Moves(match, match'),
           NEW stage \in {"done", "refused", "failed"}, NEW row \in Snapshot,
           row = match' \/ (row = None /\ stage # "done"),
           stage = "refused" => call[e].kind \in {"save", "confirm"},
           Answer(e, stage, row), UNCHANGED <<data, fetch, form>>
    PROVE  IInv'
<1> DEFINE c == Answered(call[e], stage, row)
<1>1. c \in Call /\ c.stage = stage /\ c.kind = call[e].kind /\ c.got = row
  <2>1. call[e] \in Call
    BY Here
  <2>2. QED
    BY <2>1, AnsweredIs
<1>2. call' = [call EXCEPT ![e] = c]
  BY DEF Answer, Answered
<1> HIDE DEF c
<1>3. match'.version \in Nat /\ match'.version > 0
  BY Here DEF Moves, Snapshot
<1>4. CallFits(match', c)
  BY <1>1, <1>3, Blank DEF CallFits, Real
<1>5. Good(match', data[e], fetch[e], form[e], call[e])
  BY Here, StaysGood
<1>6. Good(match', data[e], fetch[e], form[e], c)
  BY <1>4, <1>5 DEF Good
<1>7. QED
  BY <1>1, <1>2, <1>6, Here, TabStep

\* A row that is written is a row of the next version.
LEMMA Written ==
    ASSUME NEW row \in Snapshot, NEW content \in Contents, NEW version \in Nat
    PROVE  /\ [row EXCEPT !.content = content, !.version = version] \in Snapshot
           /\ [row EXCEPT !.content = content, !.version = version].version = version
           /\ [row EXCEPT !.state = "confirmed", !.version = version] \in Snapshot
           /\ [row EXCEPT !.state = "confirmed", !.version = version].version = version
BY DEF Snapshot

\* The server moves the match and answers with it, or refuses and answers nothing.
LEMMA HandleKeeps ==
    ASSUME FirstAssumption, IInv, NEW e \in Editors, HandleSave(e) \/ HandleConfirm(e)
    PROVE  IInv'
<1> DEFINE saved == [match EXCEPT !.content = call[e].content, !.version = match.version + 1]
           confirmed == [match EXCEPT !.state = "confirmed", !.version = match.version + 1]
<1>1. match \in Snapshot /\ match.version + 1 \in Nat /\ call[e].content \in Contents
  BY Here DEF Call
<1>2. saved \in Snapshot /\ saved.version = match.version + 1
  BY <1>1, Written
<1>3. confirmed \in Snapshot /\ confirmed.version = match.version + 1
  BY <1>1, Written
<1> HIDE DEF saved, confirmed
<1>4. ASSUME NEW kind \in {"save", "confirm"}, NEW row \in Snapshot, row.version = match.version + 1, NEW allowed,
             Handle(e, kind, row, allowed)
      PROVE  IInv'
  <2>1. UNCHANGED <<data, fetch, form>>
    BY <1>4 DEF Handle
  <2>2. ASSUME match' = row, Answer(e, "done", row)
        PROVE  IInv'
    BY <1>4, <2>1, <2>2, AnswerKeeps DEF Moves
  <2>3. ASSUME UNCHANGED match, NEW stage \in {"refused", "failed"}, Answer(e, stage, None)
        PROVE  IInv'
    BY <1>4, <2>1, <2>3, AnswerKeeps, Blank DEF Moves, Handle
  <2>4. QED
    BY <1>4, <2>2, <2>3 DEF Handle
<1>5. QED
  BY <1>2, <1>3, <1>4 DEF HandleSave, HandleConfirm, saved, confirmed

\* A lost call is answered with nothing.
LEMMA LoseCallKeeps ==
    ASSUME FirstAssumption, IInv, NEW e \in Editors, LoseCall(e)
    PROVE  IInv'
BY AnswerKeeps, Blank DEF LoseCall, Moves

\* No call fits any match.
LEMMA IdleFits ==
    ASSUME FirstAssumption, NEW m \in Snapshot, m.version > 0
    PROVE  CallFits(m, Idle)
<1>1. Idle.stage = "none" /\ Idle.kind = "none" /\ Idle.got = None
  BY DEF Idle
<1>2. QED
  BY <1>1, Blank DEF CallFits, Real, Snapshot

\* A save that was answered waits, a confirmation is over.
LEMMA DoneKeeps ==
    ASSUME FirstAssumption, IInv, NEW e \in Editors, Done(e)
    PROVE  IInv'
<1> DEFINE c == IF call[e].kind = "save" THEN [call[e] EXCEPT !.stage = "refresh"] ELSE Idle
<1>1. call[e] \in Call /\ CallFits(match, call[e])
  BY Here DEF Good
<1>2. c \in Call
  BY <1>1, Blank DEF Call
<1>3. CallFits(match, c)
  <2>1. CASE call[e].kind = "save"
    <3>1. /\ c.stage = "refresh" /\ c.kind = "save" /\ c.got = call[e].got
          /\ call[e].stage = "done"
      BY <1>1, <2>1 DEF Call, Done
    <3>2. QED
      BY <1>1, <2>1, <3>1 DEF CallFits
  <2>2. CASE call[e].kind # "save"
    BY <2>2, Here, IdleFits
  <2>3. QED
    BY <2>1, <2>2
<1>4. fetch' = [fetch EXCEPT ![e] = None] /\ call' = [call EXCEPT ![e] = c]
  BY Here DEF Done, Tabs, IInv
<1> HIDE DEF c
<1>5. Good(match, data[e], None, form[e], c)
  BY <1>3, Here, Blank DEF Good, Known, Real
<1>6. QED
  BY <1>2, <1>4, <1>5, Here, Blank, TabStep DEF Done, Moves

\* An error changes the error that is shown.
LEMMA FailedKeeps ==
    ASSUME FirstAssumption, IInv, NEW e \in Editors, Failed(e)
    PROVE  IInv'
<1> DEFINE kinds == IF call[e].shown /\ call[e].stage = "refused"
                    THEN form[e].conflicts \cup {call[e].kind} ELSE form[e].conflicts
           fo == [form[e] EXCEPT !.conflicts = kinds]
<1>1. form[e] \in Form /\ call[e] \in Call
  BY Here
<1>2. form' = [form EXCEPT ![e] = fo] /\ call' = [call EXCEPT ![e] = Idle]
  BY Here DEF Failed
<1>3. kinds \in SUBSET {"save", "confirm"}
  <2>1. form[e].conflicts \in SUBSET {"save", "confirm"}
    BY <1>1 DEF Form
  <2>2. call[e].stage = "refused" => call[e].kind \in {"save", "confirm"}
    BY Here DEF Good, CallFits
  <2>3. QED
    BY <2>1, <2>2
<1> HIDE DEF kinds
<1>4. fo \in Form /\ fo.base = form[e].base /\ fo.edited = form[e].edited
  BY <1>1, <1>3 DEF Form
<1> HIDE DEF fo
<1>5. Good(match, data[e], fetch[e], fo, Idle)
  BY <1>4, Here, IdleFits DEF Good, Known
<1>6. QED
  BY <1>2, <1>4, <1>5, Here, Blank, TabStep DEF Failed, Moves

\* confirmSaved goes on to confirm the version of the reply, which says what the
\* form said.
LEMMA SettleKeeps ==
    ASSUME FirstAssumption, IInv, NEW e \in Editors, Settle(e)
    PROVE  IInv'
<1> DEFINE old == call[e]
           fo == [form[e] EXCEPT !.edited = FALSE, !.base = old.got]
           c == [old EXCEPT !.kind = "confirm", !.stage = "sent", !.next = FALSE,
                            !.shown = old.here, !.version = old.got.version, !.content = old.got.content,
                            !.basis = old.got, !.got = None]
<1>1. old \in Call /\ CallFits(match, old) /\ form[e] \in Form /\ old.got \in Snapshot
  BY Here DEF Good, Call
<1>2. old.kind = "save" /\ old.stage = "settled"
  BY DEF Settle
<1>3. CASE ~old.next
  <2>1. UNCHANGED <<match, data, fetch, form>> /\ call' = [call EXCEPT ![e] = Idle]
    BY <1>3 DEF Settle
  <2>2. Good(match, data[e], fetch[e], form[e], Idle)
    BY Here, IdleFits DEF Good
  <2>3. QED
    BY <2>1, <2>2, Here, Blank, TabStep DEF Moves
<1>4. CASE old.next
  <2>1. /\ UNCHANGED <<match, data, fetch>> /\ call' = [call EXCEPT ![e] = c]
        /\ form' = [form EXCEPT ![e] = IF old.here THEN fo ELSE form[e]]
    BY <1>4 DEF Settle
  <2>2. old.got.version \in Nat /\ old.got.content \in Contents /\ old.got.version > 0
    BY <1>1, <1>2 DEF Snapshot, CallFits
  <2>3. c \in Call
    BY <1>1, <2>2, Blank DEF Call
  <2>4. /\ c.kind = "confirm" /\ c.stage = "sent" /\ c.next = FALSE /\ c.got = None
        /\ c.version = old.got.version /\ c.content = old.got.content
    BY <1>1 DEF Call
  <2>5. CallFits(match, c)
    BY <1>1, <2>4, Here, Blank DEF CallFits, Real
  <2>6. fo \in Form /\ fo.base = old.got /\ fo.edited = FALSE
    BY <1>1 DEF Form
  <2> HIDE DEF fo, c, old
  <2>7. Good(match, data[e], fetch[e], fo, c) /\ Good(match, data[e], fetch[e], form[e], c)
    BY <2>2, <2>5, <2>6, Here DEF Good, Known
  <2>8. (IF old.here THEN fo ELSE form[e]) \in Form
    BY <1>1, <2>6
  <2>9. Good(match, data[e], fetch[e], IF old.here THEN fo ELSE form[e], c)
    BY <2>7
  <2>10. QED
    BY <2>1, <2>3, <2>8, <2>9, Here, TabStep DEF Moves
<1>5. QED
  BY <1>3, <1>4

\* A fetch brings the match.
LEMMA FetchKeeps ==
    ASSUME FirstAssumption, IInv, NEW e \in Editors, Fetch(e)
    PROVE  IInv'
<1>1. Good(match, data[e], match, form[e], call[e])
  BY Here DEF Good, Known, Real
<1>2. QED
  BY <1>1, Here, TabStep DEF Fetch, Moves

\* The end of a fetch leaves a call that fits.
LEMMA EndedFits ==
    ASSUME FirstAssumption, NEW m \in Snapshot, m.version > 0, NEW c \in Call, CallFits(m, c)
    PROVE  Ended(c) \in Call /\ CallFits(m, Ended(c))
<1>1. CASE c.kind = "save" /\ c.stage = "refresh"
  <2> DEFINE s == [c EXCEPT !.stage = "settled"]
  <2>1. Ended(c) = s
    BY <1>1 DEF Ended
  <2>2. s \in Call /\ s.stage = "settled" /\ s.kind = "save" /\ s.got = c.got
    BY <1>1 DEF Call
  <2> HIDE DEF s
  <2>3. CallFits(m, s)
    BY <1>1, <2>2 DEF CallFits
  <2>4. QED
    BY <2>1, <2>2, <2>3
<1>2. CASE ~(c.kind = "save" /\ c.stage = "refresh")
  BY <1>2 DEF Ended
<1>3. QED
  BY <1>1, <1>2

\* Letting go of a call changes nothing that counts.
LEMMA HiddenFits ==
    ASSUME FirstAssumption, NEW m \in Snapshot, NEW c \in Call, CallFits(m, c),
           NEW here \in BOOLEAN, NEW shown \in BOOLEAN, here => c.here, shown => c.shown
    PROVE  LET h == [c EXCEPT !.here = here, !.shown = shown]
           IN  h \in Call /\ CallFits(m, h) /\ h.stage = c.stage
<1> DEFINE h == [c EXCEPT !.here = here, !.shown = shown]
<1>1. /\ h \in Call
      /\ h.stage = c.stage /\ h.kind = c.kind /\ h.got = c.got
      /\ h.version = c.version /\ h.content = c.content
      /\ h.basis = c.basis /\ h.next = c.next
  BY DEF Call
<1>2. c.stage = "none" => h = Idle
  <2>1. ASSUME c = Idle PROVE h = Idle
    <3>1. here = FALSE /\ shown = FALSE /\ c.here = FALSE /\ c.shown = FALSE
      BY <2>1 DEF Idle
    <3>2. [c EXCEPT !.here = FALSE, !.shown = FALSE] = c
      BY <3>1 DEF Call
    <3>3. QED
      BY <2>1, <3>1, <3>2
  <2>2. QED
    BY <2>1 DEF CallFits
<1> HIDE DEF h
<1>3. QED
  BY <1>1, <1>2 DEF CallFits, Real, h

\* What was fetched is cached, and the form is filled from it or has a base.
LEMMA ArriveKeeps ==
    ASSUME FirstAssumption, IInv, NEW e \in Editors, Arrive(e)
    PROVE  IInv'
<1> DEFINE row == fetch[e]
           fo == IF form[e].reload THEN Fill(NoForm, row) ELSE Sync(form[e], row)
           ended == Ended(call[e])
           shown == ended.shown /\ ~form[e].reload
           c == [ended EXCEPT !.shown = shown]
<1>1. /\ row \in Snapshot /\ row # None /\ form[e] \in Form /\ call[e] \in Call
      /\ Real(match, row) /\ row.version > 0 /\ CallFits(match, call[e])
      /\ Known(data[e], fetch[e], form[e])
  BY Here DEF Arrive, Good, Known
<1>2. fo \in Form /\ fo.base.version > 0
  <2>1. Fill(NoForm, row) \in Form /\ Fill(NoForm, row).base = row
    BY <1>1, Blank, FormTypes
  <2>2. Sync(form[e], row) \in Form
    BY <1>1, FormTypes
  <2>3. Sync(form[e], row).base.version > 0
    <3>1. CASE form[e].edited
      BY <1>1, <3>1 DEF Sync, Known
    <3>2. CASE ~form[e].edited
      BY <1>1, <3>2, FormTypes DEF Sync
    <3>3. QED
      BY <3>1, <3>2
  <2>4. QED
    BY <1>1, <2>1, <2>2, <2>3
<1>3. c \in Call /\ CallFits(match, c)
  <2>1. ended \in Call /\ CallFits(match, ended)
    BY <1>1, Here, EndedFits
  <2>2. ended.shown \in BOOLEAN /\ ended.here \in BOOLEAN /\ form[e].reload \in BOOLEAN
        /\ shown \in BOOLEAN /\ (shown => ended.shown)
    BY <1>1, <2>1 DEF Call, Form
  <2>3. c = [ended EXCEPT !.here = ended.here, !.shown = shown]
    BY <2>1 DEF Call
  <2> HIDE DEF ended, shown, c
  <2>4. QED
    BY <2>1, <2>2, <2>3, Here, HiddenFits
<1>4. /\ data' = [data EXCEPT ![e] = row] /\ fetch' = [fetch EXCEPT ![e] = None]
      /\ form' = [form EXCEPT ![e] = fo] /\ call' = [call EXCEPT ![e] = c]
      /\ match' = match
  BY Here DEF Arrive
<1> HIDE DEF row, fo, c, ended, shown
<1>5. Good(match, row, None, fo, c)
  BY <1>1, <1>2, <1>3, Here, Blank DEF Good, Known, Real
<1>6. QED
  BY <1>1, <1>2, <1>3, <1>4, <1>5, Blank, TabStep DEF Moves

\* A fetch that fails brings nothing.
LEMMA FetchFailsKeeps ==
    ASSUME FirstAssumption, IInv, NEW e \in Editors, FetchFails(e)
    PROVE  IInv'
<1> DEFINE c == Ended(call[e])
           fo == [form[e] EXCEPT !.reload = FALSE]
<1>1. c \in Call /\ CallFits(match, c)
  BY Here, EndedFits DEF Good
<1>2. fo \in Form /\ fo.base = form[e].base /\ fo.edited = form[e].edited
  BY Here, FormTypes
<1>3. /\ UNCHANGED <<match, data>> /\ fetch' = [fetch EXCEPT ![e] = None]
      /\ call' = [call EXCEPT ![e] = c] /\ form' = [form EXCEPT ![e] = fo]
  BY Here DEF FetchFails
<1> HIDE DEF c, fo
<1>4. Good(match, data[e], None, fo, c)
  BY <1>1, <1>2, Here, Blank DEF Good, Known, Real
<1>5. QED
  BY <1>1, <1>2, <1>3, <1>4, Here, Blank, TabStep DEF Moves

\* A new editor is filled from what is cached.
LEMMA PageFailsKeeps ==
    ASSUME FirstAssumption, IInv, NEW e \in Editors, PageFails(e)
    PROVE  IInv'
<1> DEFINE fo == Fill(NoForm, data[e])
           c == [call[e] EXCEPT !.here = FALSE, !.shown = FALSE]
<1>1. data[e] \in Snapshot /\ data[e] # None /\ call[e] \in Call /\ CallFits(match, call[e])
  BY Here DEF PageFails, Good
<1>2. fo \in Form /\ fo.base = data[e]
  BY <1>1, Blank, FormTypes
<1>3. c \in Call /\ CallFits(match, c)
  BY <1>1, Here, HiddenFits
<1>5. /\ UNCHANGED <<match, data, fetch>>
      /\ form' = [form EXCEPT ![e] = fo] /\ call' = [call EXCEPT ![e] = c]
  BY <1>1 DEF PageFails, Call, IInv, Tabs
<1> HIDE DEF fo, c
<1>6. Good(match, data[e], fetch[e], fo, c)
  BY <1>1, <1>2, <1>3, Here DEF Good, Known
<1>7. QED
  BY <1>2, <1>3, <1>5, <1>6, Here, TabStep DEF Moves

-----------------------------------------------------------------------------
(* The invariant holds.                                                     *)

LEMMA IInvInit == FirstAssumption /\ Init => IInv
<1> SUFFICES ASSUME FirstAssumption, Init PROVE IInv
  OBVIOUS
<1>1. match \in Snapshot /\ match.version = 1
  BY DEF Init, Snapshot, FirstAssumption
<1>2. Tabs
  BY Blank DEF Init, Tabs
<1>3. Good(match, None, None, NoForm, Idle)
  <2>1. Known(None, None, NoForm)
    BY Blank DEF Known
  <2>2. QED
    BY <1>1, <2>1, Blank, IdleFits DEF Good, Real
<1>4. QED
  BY <1>1, <1>2, <1>3 DEF Init, IInv

LEMMA IInvNext == FirstAssumption /\ IInv /\ [Next]_vars => IInv'
<1> SUFFICES ASSUME FirstAssumption, IInv, [Next]_vars PROVE IInv'
  OBVIOUS
<1>1. CASE UNCHANGED vars
  BY <1>1 DEF vars, IInv, Tabs
<1>2. ASSUME NEW e \in Editors, NEW content \in Contents, Type(e, content) PROVE IInv'
  BY <1>2, TypeKeeps
<1>3. ASSUME NEW e \in Editors, SaveDraft(e) \/ ConfirmSaved(e) \/ Reload(e) PROVE IInv'
  BY <1>3, SaveDraftKeeps, ConfirmSavedKeeps, ReloadKeeps
<1>4. ASSUME NEW e \in Editors, HandleSave(e) \/ HandleConfirm(e) \/ LoseCall(e) PROVE IInv'
  BY <1>4, HandleKeeps, LoseCallKeeps
<1>5. ASSUME NEW e \in Editors, Done(e) \/ Failed(e) \/ Settle(e) PROVE IInv'
  BY <1>5, DoneKeeps, FailedKeeps, SettleKeeps
<1>6. ASSUME NEW e \in Editors, Fetch(e) \/ Arrive(e) \/ FetchFails(e) \/ PageFails(e)
      PROVE  IInv'
  BY <1>6, FetchKeeps, ArriveKeeps, FetchFailsKeeps, PageFailsKeeps
<1>7. QED
  BY <1>1, <1>2, <1>3, <1>4, <1>5, <1>6 DEF Next

\* The invariant holds of every state.
LEMMA InductiveInvariant == FirstAssumption => (Spec => []IInv)
<1>1. FirstAssumption /\ Init => IInv
  BY IInvInit
<1>2. FirstAssumption /\ IInv /\ [Next]_vars => IInv'
  BY IInvNext
<1>3. SUFFICES ASSUME FirstAssumption PROVE Spec => []IInv
  OBVIOUS
<1>4. QED
  BY <1>1, <1>2, <1>3, PTL DEF Spec

LEMMA InvTypes == IInv => TypeOK
BY DEF IInv, Tabs, Good, CallFits, TypeOK

\* The state of a match and of its tabs is well formed in every behaviour.
THEOREM MatchTypes == FirstAssumption => (Spec => []TypeOK)
<1>1. IInv => TypeOK
  BY InvTypes
<1>2. SUFFICES ASSUME FirstAssumption PROVE Spec => []TypeOK
  OBVIOUS
<1>3. QED
  BY <1>1, <1>2, InductiveInvariant, PTL

-----------------------------------------------------------------------------
(* What a confirmation confirms, and what typing suffers.                   *)

\* A step that is not the server's leaves the match alone.
LEMMA ServerMoves ==
    ASSUME [Next]_vars, match' # match
    PROVE  \E e \in Editors : HandleSave(e) \/ HandleConfirm(e)
BY DEF vars, Next, Type, SaveDraft, ConfirmSaved, Send, Reload, LoseCall, Done, Failed, Settle,
    Fetch, Arrive, FetchFails, PageFails

LEMMA ReviewedStep == IInv /\ [Next]_vars => ConfirmsReviewed
<1> SUFFICES ASSUME IInv, [Next]_vars, match.state = "draft", match'.state = "confirmed"
             PROVE  \E e \in Editors : /\ call[e].kind = "confirm" /\ call[e].stage = "sent"
                                       /\ call[e].content = match'.content
  BY DEF ConfirmsReviewed
<1>1. PICK e \in Editors : HandleSave(e) \/ HandleConfirm(e)
  BY ServerMoves
<1>2. match \in Snapshot
  BY Here
<1>3. ~HandleSave(e)
  BY <1>2 DEF HandleSave, Handle, Snapshot
<1>4. /\ call[e].kind = "confirm" /\ call[e].stage = "sent" /\ match.version = call[e].version
      /\ match'.content = match.content
  BY <1>1, <1>2, <1>3 DEF HandleConfirm, Handle, Snapshot
<1>5. call[e].content = match.content
  BY <1>4, Here DEF Good, CallFits, Real
<1>6. QED
  BY <1>4, <1>5

\* A confirmed match says what its counselor's form said at the click: a save by
\* anybody else before it makes the confirmation fail (confirmSaved).
THEOREM ConfirmedAsReviewed == FirstAssumption => (Spec => [][ConfirmsReviewed]_vars)
<1>1. SUFFICES ASSUME FirstAssumption PROVE Spec => [][ConfirmsReviewed]_vars
  OBVIOUS
<1>2. QED
  BY <1>1, InductiveInvariant, ReviewedStep, PTL DEF Spec

LEMMA OwnBaseStep == IInv /\ [Next]_vars => ReplacesOwnBase
<1> SUFFICES ASSUME IInv, [Next]_vars, NEW e \in Editors,
                    call[e].kind = "save", call[e].next, call[e].stage = "sent",
                    call'[e].stage = "done"
             PROVE  call[e].basis.version = match.version
  BY DEF ReplacesOwnBase
<1>1. call \in [Editors -> Call]
  BY DEF IInv, Tabs
<1>2. call' # call /\ call'[e].stage # call[e].stage
  OBVIOUS
<1>3. PICK t \in Editors : \/ \E content \in Contents : Type(t, content)
                           \/ SaveDraft(t) \/ ConfirmSaved(t) \/ Reload(t)
                           \/ HandleSave(t) \/ HandleConfirm(t)
                           \/ LoseCall(t) \/ Done(t) \/ Failed(t) \/ Settle(t)
                           \/ Fetch(t) \/ Arrive(t) \/ FetchFails(t) \/ PageFails(t)
  BY <1>2 DEF Next, vars
<1>4. \A x : call' = [call EXCEPT ![t] = x] => t = e /\ x = call'[e]
  BY <1>1, <1>2
<1>5. HandleSave(t) \/ HandleConfirm(t)
  <2>1. ~(\E content \in Contents : Type(t, content)) /\ ~Fetch(t) /\ ~Reload(t)
    BY <1>2 DEF Type, Fetch, Reload
  <2>2. ~SaveDraft(t) /\ ~ConfirmSaved(t)
    <3>1. ASSUME SaveDraft(t) \/ ConfirmSaved(t) PROVE t = e /\ ~Busy(t)
      BY <1>4, <3>1 DEF SaveDraft, ConfirmSaved, Send, Editable
    <3>2. QED
      BY <3>1 DEF Busy
  <2>3. ~LoseCall(t)
    BY <1>4 DEF LoseCall, Answer, Idle
  <2>4. ~Done(t) /\ ~Failed(t) /\ ~Settle(t)
    <3>1. ASSUME Done(t) \/ Failed(t) \/ Settle(t) PROVE call[t].stage # "sent" /\ t = e
      BY <1>1, <1>2, <1>3, <3>1 DEF Done, Failed, Settle
    <3>2. QED
      BY <3>1
  <2>5. ~Arrive(t) /\ ~FetchFails(t)
    <3>1. Ended(call[e]) = call[e] /\ call[e] \in Call
      BY <1>1 DEF Ended
    <3>2. \A shown : [call[e] EXCEPT !.shown = shown].stage = call[e].stage
      BY <3>1 DEF Call
    <3>3. ASSUME Arrive(t) PROVE FALSE
      <4>1. call' = [call EXCEPT ![t] = [Ended(call[t]) EXCEPT
                        !.shown = Ended(call[t]).shown /\ ~form[t].reload]]
        BY <1>1, <3>3 DEF Arrive
      <4>2. QED
        BY <1>1, <1>2, <1>4, <3>1, <3>2, <4>1
    <3>4. ASSUME FetchFails(t) PROVE FALSE
      BY <1>1, <1>2, <1>4, <3>1, <3>4 DEF FetchFails
    <3>5. QED
      BY <3>3, <3>4
  <2>6. ~PageFails(t)
    <3>1. call[e] \in Call
      BY <1>1
    <3>2. [call[e] EXCEPT !.here = FALSE, !.shown = FALSE].stage = call[e].stage
      BY <3>1 DEF Call
    <3>3. QED
      BY <1>2, <1>4, <3>2 DEF PageFails
  <2>7. QED
    BY <1>3, <2>1, <2>2, <2>3, <2>4, <2>5, <2>6
<1>6. t = e /\ HandleSave(e)
  BY <1>4, <1>5 DEF HandleSave, HandleConfirm, Handle, Answer
<1>7. match.version = call[e].version
  <2>1. ASSUME NEW stage, NEW row, Answer(e, stage, row) PROVE call'[e].stage = stage
    BY <1>1, <2>1 DEF Answer, Idle
  <2>2. ~Answer(e, "refused", None)
    BY <2>1
  <2>3. QED
    BY <1>6, <2>2 DEF HandleSave, Handle
<1>8. QED
  BY <1>7, Here DEF Good, CallFits

\* The save made by confirming replaces only the version its form was filled from,
\* whatever has been fetched since (baseVersion).
THEOREM OwnBaseReplaced == FirstAssumption => (Spec => [][ReplacesOwnBase]_vars)
<1>1. SUFFICES ASSUME FirstAssumption PROVE Spec => [][ReplacesOwnBase]_vars
  OBVIOUS
<1>2. QED
  BY <1>1, InductiveInvariant, OwnBaseStep, PTL DEF Spec

\* What a step of another tab does not touch.
LEMMA TypingStep ==
    ASSUME IInv, Next
    PROVE  KeepsTyping
<1> SUFFICES ASSUME NEW e \in Editors, form[e].edited, form'[e].content # form[e].content
             PROVE  \/ form'[e].edited /\ UNCHANGED data
                    \/ form[e].reload /\ fetch[e] # None
                    \/ PageFails(e)
  BY DEF KeepsTyping
<1>1. form \in [Editors -> Form] /\ form[e] \in Form
  BY DEF IInv, Tabs
<1>2. PICK t \in Editors : \/ \E content \in Contents : Type(t, content)
                           \/ SaveDraft(t) \/ ConfirmSaved(t) \/ Reload(t)
                           \/ HandleSave(t) \/ HandleConfirm(t)
                           \/ LoseCall(t) \/ Done(t) \/ Failed(t) \/ Settle(t)
                           \/ Fetch(t) \/ Arrive(t) \/ FetchFails(t) \/ PageFails(t)
  BY DEF Next
<1>3. \A x : form' = [form EXCEPT ![t] = x] => t = e /\ x.content # form[e].content
  BY <1>1
<1>4. form' # form
  OBVIOUS
<1>5. ASSUME NEW content \in Contents, Type(t, content) PROVE form'[e].edited /\ UNCHANGED data
  BY <1>1, <1>3, <1>5 DEF Type, Form
<1>6. ~SaveDraft(t) /\ ~ConfirmSaved(t)
  <2>1. ASSUME NEW fo \in Form, NEW kind, NEW version, NEW next, fo.content = form[t].content,
               Send(t, fo, kind, version, next)
        PROVE  FALSE
    <3>1. [fo EXCEPT !.conflicts = @ \ {kind}].content = form[t].content
      BY <2>1 DEF Form
    <3>2. QED
      BY <1>3, <2>1, <3>1 DEF Send
  <2>2. form[t] \in Form /\ data[t] \in Snapshot
    BY Here
  <2>3. Clean(t) \in Form /\ Clean(t).content = form[t].content
    BY <2>2, FormTypes DEF Clean, Form
  <2>4. QED
    BY <2>1, <2>2, <2>3 DEF SaveDraft, ConfirmSaved
<1>7. ~Failed(t) /\ ~Settle(t)
  <2>1. \A kinds : [form[t] EXCEPT !.conflicts = kinds].content = form[t].content
    BY <1>1 DEF Form
  <2>2. \A row : [form[t] EXCEPT !.edited = FALSE, !.base = row].content = form[t].content
    BY <1>1 DEF Form
  <2>3. ASSUME Failed(t) PROVE FALSE
    <3>1. form' = [form EXCEPT ![t] = [form[t] EXCEPT !.conflicts =
              IF call[t].shown /\ call[t].stage = "refused"
              THEN form[t].conflicts \cup {call[t].kind} ELSE form[t].conflicts]]
      BY <1>1, <2>3 DEF Failed
    <3>2. QED
      BY <1>3, <2>1, <3>1
  <2>4. ASSUME Settle(t) PROVE FALSE
    <3>1. call[t].next /\ form' = [form EXCEPT ![t] =
              IF call[t].here THEN [form[t] EXCEPT !.edited = FALSE, !.base = call[t].got]
              ELSE form[t]]
      BY <1>4, <2>4 DEF Settle
    <3>2. QED
      BY <1>3, <2>2, <3>1
  <2>5. QED
    BY <2>3, <2>4
<1>8. ASSUME Arrive(t) PROVE form[e].reload /\ fetch[e] # None
  <2>1. form' = [form EXCEPT ![t] =
            IF form[t].reload THEN Fill(NoForm, fetch[t]) ELSE Sync(form[t], fetch[t])]
    BY <1>8 DEF Arrive
  <2>2. Sync(form[e], fetch[e]) = form[e]
    BY DEF Sync
  <2>3. QED
    BY <1>3, <1>8, <2>1, <2>2 DEF Arrive
<1>9. ~Reload(t) /\ ~FetchFails(t)
  <2>1. \A reload : [form[t] EXCEPT !.reload = reload].content = form[t].content
    BY <1>1 DEF Form
  <2>2. ASSUME NEW reload, form' = [form EXCEPT ![t] = [form[t] EXCEPT !.reload = reload]]
        PROVE  FALSE
    BY <1>3, <2>1, <2>2
  <2>3. Reload(t) => form' = [form EXCEPT ![t] = [form[t] EXCEPT !.reload = TRUE]]
    BY <1>1 DEF Reload
  <2>4. FetchFails(t) => form' = [form EXCEPT ![t] = [form[t] EXCEPT !.reload = FALSE]]
    BY <1>1 DEF FetchFails
  <2>5. QED
    BY <2>2, <2>3, <2>4
<1>10. ~(HandleSave(t) \/ HandleConfirm(t) \/ LoseCall(t) \/ Done(t) \/ Fetch(t))
  BY <1>4 DEF HandleSave, HandleConfirm, Handle, LoseCall, Done, Fetch
<1>11. PageFails(t) => t = e
  BY <1>3 DEF PageFails
<1>12. QED
  BY <1>2, <1>5, <1>6, <1>7, <1>8, <1>9, <1>10, <1>11

\* What was typed leaves the form only by typing on, by a reload the user asked for, or
\* with the editor itself, when the queries above it on the page fail: no refresh of
\* the match in the background takes it away (edited.current).
THEOREM TypingIsKept == FirstAssumption => (Spec => [][KeepsTyping]_vars)
<1>1. SUFFICES ASSUME FirstAssumption PROVE Spec => [][KeepsTyping]_vars
  OBVIOUS
<1>2. IInv /\ Next => KeepsTyping
  BY TypingStep
<1>3. IInv /\ UNCHANGED vars => [KeepsTyping]_vars
  OBVIOUS
<1>4. QED
  BY <1>1, <1>2, InductiveInvariant, PTL DEF Spec

=============================================================================
