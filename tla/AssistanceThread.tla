--------------------------- MODULE AssistanceThread ---------------------------
(***************************************************************************)
(* The requests for help about one task, as one person has them on the     *)
(* screen (features/support: SupportPage of a learner, AssistancePage of a *)
(* counselor, queries), with the server's part (modules/support).  Other   *)
(* counselors and the learner's other devices act at the server.           *)
(*                                                                         *)
(* A GET takes one step.  A request that is changed, or a reply that is    *)
(* sent, is one call; a second call about a request, after the page was    *)
(* left for another one, waits for the first (bound of the model).  Of the *)
(* messages only those written on this page are kept, and of a new request *)
(* nothing but that it was made.  The request a counselor's route names    *)
(* stays: a jump from one such route to another, which would keep the      *)
(* unkeyed page with its draft, is left out.                               *)
(***************************************************************************)
EXTENDS Naturals, FiniteSets, Sequences, FiniteSetsExt

CONSTANTS
    MaxRequests, \* bound on the requests of the task
    Texts,       \* what may be written
    Blank,       \* nothing is written
    MaxSaid,     \* bound on the messages of a request
    Faults       \* bound on what the network does to what is open: "call", "fetch" fail

VARIABLES
    role,      \* whose page it is
    request,   \* request[q]: the row at the server, in the order of creation
    thread,    \* thread[q]: the messages about it, the newest last
    list,      \* the requests the learner's page has cached, and which are open
    view,      \* view[q]: what has been cached of request q and its messages
    selected,  \* the request the learner selected, or the counselor's route names
    draft,     \* the reply in the box
    create,    \* the pending request for help
    call       \* call[q]: the pending action on, or message to, request q

vars == <<role, request, thread, list, view, selected, draft, create, call>>

Ids == 1..MaxRequests
Actions == {"accept", "resolve", "cancel"}
States == {"absent", "queued", "accepted", "resolved", "cancelled"}

Row == [state: States, version: 0..3]
NoRow == [state |-> "absent", version |-> 0]
New == [state |-> "queued", version |-> 1]
\* What the list of requests is used for.  As there is a request to begin with, an
\* empty list is one that was not read yet.
List == [ids: SUBSET Ids, open: SUBSET Ids]
Empty == [ids |-> {}, open |-> {}]

Open(row) == row.state \in {"queued", "accepted"}

\* broken: the queries whose last GET failed.
Queries == {"request", "messages"}
View == [row: Row, said: Seq(Texts), loaded: SUBSET Queries, broken: SUBSET Queries]
NoView == [row |-> NoRow, said |-> <<>>, loaded |-> {}, broken |-> {}]

\* seen: the row that was shown at the click.  here: the page is still the one.
Call == [kind: Actions \cup {"none", "send"}, seen: Row, text: Texts \cup {Blank},
         here: BOOLEAN, stage: {"none", "sent", "done", "failed", "refresh", "settled"}]
Idle == [kind |-> "none", seen |-> NoRow, text |-> Blank, here |-> FALSE, stage |-> "none"]

\* A new request of the learner, or one that a counselor opens.
Init ==
    /\ role \in {"learner", "counselor"}
    /\ request = [q \in Ids |-> IF q = 1 THEN New ELSE NoRow]
    /\ thread = [q \in Ids |-> <<>>]
    /\ list = Empty
    /\ view = [q \in Ids |-> NoView]
    /\ selected = IF role = "counselor" THEN 1 ELSE 0
    /\ draft = Blank
    /\ create = [stage |-> "none", got |-> 0]
    /\ call = [q \in Ids |-> Idle]

-----------------------------------------------------------------------------
(* What the page shows.                                                     *)

\* The list is sorted, the newest first, and find returns the first.
Active(rows) == Max({0} \cup rows.open)

\* selected ?? active?.id
ShownOf(choice, rows) == IF choice # 0 \/ role = "counselor" THEN choice ELSE Active(rows)
Shown == ShownOf(selected, list)

\* The detail of the shown request, with its form, buttons and messages.
Detail == Shown # 0 /\ view[Shown].loaded = Queries /\ view[Shown].broken = {}
Closed == ~Open(view[Shown].row)
Busy == Shown # 0 /\ call[Shown].here

\* Another request is shown: what was typed is gone, and nobody waits any longer
\* for the answer about the old one (key).
Show(choice, rows) ==
    /\ selected' = choice /\ list' = rows
    /\ IF ShownOf(choice, rows) = Shown
       THEN UNCHANGED <<draft, call>>
       ELSE /\ draft' = Blank
            /\ call' = [q \in Ids |->
                   CASE call[q].stage \in {"none", "refresh", "settled"} -> Idle
                     [] OTHER -> [call[q] EXCEPT !.here = FALSE]]

Select(q) ==
    /\ role = "learner"
    /\ q \in list.ids
    /\ Show(q, list)
    /\ UNCHANGED <<role, request, thread, view, create>>

Type(text) ==
    /\ Detail /\ ~Closed
    /\ draft' = text
    /\ UNCHANGED <<role, request, thread, list, view, selected, create, call>>

Begin(kind, text) ==
    /\ Detail /\ ~Closed /\ ~Busy
    /\ call[Shown] = Idle
    /\ call' = [call EXCEPT ![Shown] =
           [kind |-> kind, seen |-> view[Shown].row, text |-> text, here |-> TRUE,
            stage |-> "sent"]]
    /\ UNCHANGED <<role, request, thread, list, view, selected, draft, create>>

\* The buttons: each role has its own, and a counselor's depend on the state.
Act(kind) ==
    /\ CASE kind = "cancel" -> role = "learner"
         [] kind = "accept" -> role = "counselor" /\ view[Shown].row.state = "queued"
         [] kind = "resolve" -> role = "counselor" /\ view[Shown].row.state = "accepted"
    /\ Begin(kind, Blank)

\* Bound: no more than MaxSaid messages are sent.
Reply ==
    /\ Shown # 0 /\ Len(thread[Shown]) < MaxSaid
    /\ draft # Blank /\ Begin("send", draft)

\* The form is there while the list names no open request.
Ask ==
    /\ role = "learner" /\ list # Empty
    /\ Active(list) = 0
    /\ create.stage = "none"
    /\ create' = [create EXCEPT !.stage = "sent"]
    /\ UNCHANGED <<role, request, thread, list, view, selected, draft, call>>

-----------------------------------------------------------------------------
(* The server.                                                              *)

\* transition_assistance
From == [accept |-> {"queued"}, resolve |-> {"accepted"}, cancel |-> {"queued", "accepted"}]
To == [accept |-> "accepted", resolve |-> "resolved", cancel |-> "cancelled"]
Changed(row, kind) == [state |-> To[kind], version |-> row.version + 1]

\* Mutant: an action applies to any version from which it may be taken.
Permitted_AnyVersion(q) == TRUE

\* require_version
Permitted(q) == call[q].seen.version = request[q].version

Answer(q, stage) ==
    /\ call' = [call EXCEPT ![q].stage = stage]
    /\ UNCHANGED <<role, list, view, selected, draft, create>>

\* change_assistance
HandleAction(q) ==
    LET kind == call[q].kind IN
    /\ kind \in Actions /\ call[q].stage = "sent"
    /\ IF Permitted(q) /\ request[q].state \in From[kind]
       THEN request' = [request EXCEPT ![q] = Changed(@, kind)] /\ Answer(q, "done")
       ELSE UNCHANGED request /\ Answer(q, "failed")
    /\ UNCHANGED thread

\* add_message
HandleSend(q) ==
    /\ call[q].kind = "send" /\ call[q].stage = "sent"
    /\ IF Open(request[q])
       THEN thread' = [thread EXCEPT ![q] = Append(@, call[q].text)] /\ Answer(q, "done")
       ELSE UNCHANGED thread /\ Answer(q, "failed")
    /\ UNCHANGED request

\* Mutant: an open request of the task does not stand in the way of another.
Creatable_AnyTime == {q \in Ids : request[q].state = "absent"}

\* The next request, unless one is open (create_assistance, uq_open_assistance).
Creatable == {q \in Ids : request[q].state = "absent" /\ \A p \in Ids : ~Open(request[p])}

Make == /\ Creatable # {}
        /\ request' = [request EXCEPT ![Min(Creatable)] = New]

\* The task may be over by then, and the answer may be lost.
HandleCreate ==
    /\ create.stage = "sent"
    /\ \/ Make /\ create' = [stage |-> "done", got |-> Min(Creatable)]
       \/ (Make \/ UNCHANGED request) /\ create' = [create EXCEPT !.stage = "failed"]
    /\ UNCHANGED <<role, thread, list, view, selected, draft, call>>

\* Others act on a request, or make one.
Elsewhere ==
    /\ \/ Make
       \/ \E q \in Ids, kind \in Actions :
             /\ request[q].state \in From[kind]
             /\ request' = [request EXCEPT ![q] = Changed(@, kind)]
    /\ UNCHANGED <<role, thread, list, view, selected, draft, create, call>>

LoseCall(q) ==
    /\ "call" \in Faults
    /\ call[q].stage \in {"sent", "done"}
    /\ Answer(q, "failed")
    /\ UNCHANGED <<request, thread>>

-----------------------------------------------------------------------------
(* Answers and queries.                                                     *)

\* Mutant: the promise of a message does not wait for the messages.
AfterDone_NotAwaited(c) == IF c.kind = "send" THEN [c EXCEPT !.stage = "settled"] ELSE Idle

\* onSuccess of a message returns the promise of the invalidated messages, which
\* nobody reads again once the page is left; that of an action returns nothing.
AfterDone(c) == IF c.kind = "send" /\ c.here THEN [c EXCEPT !.stage = "refresh"] ELSE Idle

Done(q) ==
    /\ call[q].stage = "done"
    /\ call' = [call EXCEPT ![q] = AfterDone(@)]
    /\ UNCHANGED <<role, request, thread, list, view, selected, draft, create>>

\* The error is shown, what was typed stays.
Failed(q) ==
    /\ call[q].stage = "failed"
    /\ call' = [call EXCEPT ![q] = Idle]
    /\ UNCHANGED <<role, request, thread, list, view, selected, draft, create>>

\* The box is emptied.
Settle(q) ==
    /\ call[q].stage = "settled"
    /\ draft' = Blank
    /\ call' = [call EXCEPT ![q] = Idle]
    /\ UNCHANGED <<role, request, thread, list, view, selected, create>>

Created ==
    /\ create.stage \in {"done", "failed"}
    /\ create' = [stage |-> "none", got |-> 0]
    /\ IF create.stage = "done" THEN Show(create.got, list)
       ELSE UNCHANGED <<list, selected, draft, call>>
    /\ UNCHANGED <<role, request, thread, view>>

\* GETs of what is shown: on mounting, on focus, by an invalidation or "retry".
ReadList ==
    /\ role = "learner"
    /\ Show(selected, [ids |-> {q \in Ids : request[q] # NoRow},
                       open |-> {q \in Ids : Open(request[q])}])
    /\ UNCHANGED <<role, request, thread, view, create>>

ReadRequest(q) ==
    /\ q = Shown
    /\ view' = [view EXCEPT ![q].row = request[q], ![q].loaded = @ \cup {"request"},
                            ![q].broken = @ \ {"request"}]
    /\ UNCHANGED <<role, request, thread, list, selected, draft, create, call>>

\* A message's promise waits for the end of this GET.
Ended(c) == IF c.stage = "refresh" THEN [c EXCEPT !.stage = "settled"] ELSE c

ReadMessages(q) ==
    /\ q = Shown
    /\ view' = [view EXCEPT ![q].said = thread[q], ![q].loaded = @ \cup {"messages"},
                            ![q].broken = @ \ {"messages"}]
    /\ call' = [call EXCEPT ![q] = Ended(@)]
    /\ UNCHANGED <<role, request, thread, list, selected, draft, create>>

\* A failed GET puts an error in place of the page; the box keeps its text.
ReadFails(q, query) ==
    /\ "fetch" \in Faults
    /\ q = Shown
    /\ view' = [view EXCEPT ![q].broken = @ \cup {query}]
    /\ call' = [call EXCEPT ![q] = IF query = "messages" THEN Ended(@) ELSE @]
    /\ UNCHANGED <<role, request, thread, list, selected, draft, create>>

Next ==
    \/ \E text \in Texts \cup {Blank} : Type(text)
    \/ \E kind \in Actions : Act(kind)
    \/ Reply \/ Ask \/ HandleCreate \/ Created \/ Elsewhere \/ ReadList
    \/ \E q \in Ids :
          \/ Select(q) \/ HandleAction(q) \/ HandleSend(q) \/ LoseCall(q)
          \/ Done(q) \/ Failed(q) \/ Settle(q)
          \/ ReadRequest(q) \/ ReadMessages(q)
          \/ \E query \in Queries : ReadFails(q, query)

Spec == Init /\ [][Next]_vars

\* Every call is answered or lost, the GET that a message waits for ends, and
\* promises are resolved.
Fairness ==
    \A q \in Ids :
        /\ WF_vars(HandleAction(q) \/ HandleSend(q) \/ LoseCall(q))
        /\ WF_vars(Done(q) \/ Failed(q) \/ Settle(q))
        /\ WF_vars((ReadMessages(q) \/ ReadFails(q, "messages")) /\ call[q].stage = "refresh")

-----------------------------------------------------------------------------
(* Properties.                                                              *)

TypeOK ==
    /\ role \in {"learner", "counselor"}
    /\ request \in [Ids -> Row] /\ list \in List
    /\ thread \in [Ids -> Seq(Texts)]
    /\ view \in [Ids -> View]
    /\ selected \in Ids \cup {0}
    /\ draft \in Texts \cup {Blank}
    /\ create \in [stage: {"none", "sent", "done", "failed"}, got: Ids \cup {0}]
    /\ call \in [Ids -> Call]

\* A task has one open request for help at most, whoever asks on which device and
\* however old the list that offers to ask (create_assistance).
OneOpen == \A p, q \in Ids : Open(request[p]) /\ Open(request[q]) => p = q

\* A click changes a request only as it was on the screen then, whatever others
\* have done since.
DoesAsSeen ==
    \A q \in Ids :
        (/\ call[q].kind \in Actions /\ call[q].stage = "sent" /\ call'[q].stage = "done") =>
            call[q].seen = request[q]

\* The box is emptied by an answer only when the words stand in the thread of
\* the request that is shown, on the screen, too, unless the page shows that the
\* messages could not be read.
ShownWhenCleared ==
    \A q \in Ids :
        (/\ call[q].stage = "settled" /\ call'[q].stage = "none"
         /\ draft' = Blank /\ Shown' = q) =>
            \/ \E i \in DOMAIN view[q].said : view[q].said[i] = call[q].text
            \/ "messages" \in view[q].broken

\* Only what was sent leaves the box of a request that stays on the screen.
KeepsTyping ==
    (draft # Blank /\ draft' = Blank /\ call' # call /\ Shown' = Shown) =>
        \E q \in Ids : call[q].text = draft

=============================================================================
