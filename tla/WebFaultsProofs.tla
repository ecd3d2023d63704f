--------------------------- MODULE WebFaultsProofs ---------------------------
(***************************************************************************)
(* What holds of the list of steps, the page "steps" of MCWebFaults, for   *)
(* any identifiers, any texts and any number of steps, when a new step     *)
(* says one of the texts; and what a counselor has typed into the list,    *)
(* the draft or the match, whatever fails.                                 *)
(***************************************************************************)
EXTENDS MCWebFaults, DraftEditorProofs, SequenceTheorems

NewTextAssumption == NewText \in Texts

\* The steps are a list in which nobody is twice and positions count up from
\* one: ServerAccepts with the type that its induction needs.
Sound(list) ==
    /\ list \in Seq(List!Step)
    /\ \A i, j \in DOMAIN list :
          /\ list[i].position = i
          /\ list[i].id = list[j].id => i = j

-----------------------------------------------------------------------------
(* The operators that change the list.                                      *)

LEMMA FunctionIsSeq ==
    ASSUME NEW n \in Nat, NEW f \in [1..n -> List!Step]
    PROVE  f \in Seq(List!Step) /\ Len(f) = n
OBVIOUS

LEMMA ElementFields ==
    ASSUME NEW list \in Seq(List!Step)
    PROVE  /\ Len(list) \in Nat /\ DOMAIN list = 1..Len(list)
           /\ \A i \in DOMAIN list :
                 /\ i \in Nat /\ list[i] \in List!Step
                 /\ list[i].id \in StepIds /\ list[i].position \in Nat /\ list[i].text \in Texts
<1>1. Len(list) \in Nat /\ DOMAIN list = 1..Len(list) /\ list \in [1..Len(list) -> List!Step]
  BY LenProperties
<1>2. \A i \in DOMAIN list : i \in Nat /\ list[i] \in List!Step
  BY <1>1
<1>3. \A s \in List!Step : s.id \in StepIds /\ s.position \in Nat /\ s.text \in Texts
  BY DEF List!Step
<1>4. QED
  BY <1>1, <1>2, <1>3

\* Numbering again keeps who stands where and what they say.
LEMMA RenumberKeeps ==
    ASSUME NEW list \in Seq(List!Step)
    PROVE  /\ List!Renumber(list) \in Seq(List!Step)
           /\ DOMAIN List!Renumber(list) = DOMAIN list
           /\ \A i \in DOMAIN list :
                 /\ List!Renumber(list)[i].id = list[i].id
                 /\ List!Renumber(list)[i].text = list[i].text
                 /\ List!Renumber(list)[i].position = i
<1>1. ASSUME NEW i \in DOMAIN list
      PROVE  /\ List!Renumber(list)[i] \in List!Step
             /\ List!Renumber(list)[i].id = list[i].id
             /\ List!Renumber(list)[i].text = list[i].text
             /\ List!Renumber(list)[i].position = i
  <2>1. i \in Nat /\ list[i] \in List!Step
    BY ElementFields
  <2>2. List!Renumber(list)[i] = [list[i] EXCEPT !.position = i]
    BY DEF List!Renumber
  <2>3. QED
    BY <2>1, <2>2 DEF List!Step
<1>2. List!Renumber(list) \in [1..Len(list) -> List!Step] /\ DOMAIN List!Renumber(list) = DOMAIN list
  BY <1>1, ElementFields DEF List!Renumber
<1>3. List!Renumber(list) \in Seq(List!Step)
  BY <1>2, ElementFields, FunctionIsSeq
<1>4. QED
  BY <1>1, <1>2, <1>3

\* A list of different steps, numbered again, is sound.
LEMMA RenumberSound ==
    ASSUME NEW list \in Seq(List!Step),
           \A i, j \in DOMAIN list : list[i].id = list[j].id => i = j
    PROVE  Sound(List!Renumber(list))
BY RenumberKeeps DEF Sound

LEMMA WithoutKeeps ==
    ASSUME NEW list \in Seq(List!Step), NEW i \in DOMAIN list
    PROVE  /\ List!Without(list, i) \in Seq(List!Step)
           /\ DOMAIN List!Without(list, i) = 1..(Len(list) - 1)
           /\ \A j \in 1..(Len(list) - 1) :
                 List!Without(list, i)[j] = IF j < i THEN list[j] ELSE list[j + 1]
<1>1. i \in 1..Len(list) /\ Len(list) \in Nat
  BY ElementFields
<1>2. Len(list) - 1 \in Nat /\ \A j \in 1..(Len(list) - 1) : {j, j + 1} \subseteq 1..Len(list)
  BY <1>1
<1>3. \A j \in 1..(Len(list) - 1) : list[j] \in List!Step /\ list[j + 1] \in List!Step
  BY <1>2, ElementFields
<1>4. List!Without(list, i) \in [1..(Len(list) - 1) -> List!Step]
  BY <1>3 DEF List!Without
<1>5. QED
  BY <1>2, <1>4, FunctionIsSeq DEF List!Without

LEMMA ExchangeKeeps ==
    ASSUME NEW list \in Seq(List!Step), NEW i \in DOMAIN list, NEW j \in DOMAIN list
    PROVE  /\ List!Exchange(list, i, j) \in Seq(List!Step)
           /\ DOMAIN List!Exchange(list, i, j) = DOMAIN list
           /\ \A k \in DOMAIN list :
                 List!Exchange(list, i, j)[k] =
                     IF k = j THEN list[i] ELSE IF k = i THEN list[j] ELSE list[k]
<1>1. list \in [1..Len(list) -> List!Step] /\ Len(list) \in Nat /\ DOMAIN list = 1..Len(list)
  BY LenProperties
<1>2. List!Exchange(list, i, j) \in [1..Len(list) -> List!Step]
  BY <1>1 DEF List!Exchange
<1>3. QED
  BY <1>1, <1>2, FunctionIsSeq DEF List!Exchange

-----------------------------------------------------------------------------
(* The shape of the list.                                                   *)

Shape == Sound(steps)

\* Steps s and t are the same step and say the same.
Same(s, t) == s.id = t.id /\ s.text = t.text

\* Who is in the new list was in the old one and said the same, or is new.
NothingRewritten ==
    \A j \in DOMAIN steps' :
        (\E k \in DOMAIN steps : Same(steps'[j], steps[k])) \/ List!Fresh(steps'[j].id)

\* Everybody of the old list is in the new one, except for "gone".
AllButOne(gone) ==
    \A k \in DOMAIN steps : steps[k].id # gone => \E j \in DOMAIN steps' : steps'[j].id = steps[k].id

LEMMA AddKeeps ==
    ASSUME NewTextAssumption, Shape, NEW id \in StepIds, List!Add(id)
    PROVE  Shape' /\ NothingRewritten /\ AllButOne(id)
<1> DEFINE new == [id |-> id, position |-> Len(steps) + 1, text |-> NewText]
           list == Append(steps, new)
<1>1. Len(steps) \in Nat /\ steps \in Seq(List!Step) /\ DOMAIN steps = 1..Len(steps)
  BY ElementFields DEF Shape, Sound
<1>2. new \in List!Step
  BY <1>1 DEF NewTextAssumption, List!Step
<1>3. /\ list \in Seq(List!Step) /\ DOMAIN list = 1..(Len(steps) + 1)
      /\ \A i \in DOMAIN steps : list[i] = steps[i]
      /\ list[Len(steps) + 1] = new
  BY <1>1, <1>2
<1>4. new.id = id /\ \A i \in DOMAIN steps : steps[i].id # id
  BY DEF List!Add, List!Fresh
<1>5. \A i, j \in DOMAIN list : list[i].id = list[j].id => i = j
  <2> HIDE DEF list, new
  <2>1. \A i \in DOMAIN list : i \in DOMAIN steps \/ i = Len(steps) + 1
    BY <1>1, <1>3
  <2>2. QED
    BY <1>3, <1>4, <2>1 DEF Shape, Sound
<1>6. steps' = List!Renumber(list)
  BY DEF List!Add
<1>7. Shape'
  BY <1>3, <1>5, <1>6, RenumberSound DEF Shape
<1>8. DOMAIN steps' = DOMAIN list /\ \A j \in DOMAIN list : Same(steps'[j], list[j])
  BY <1>3, <1>6, RenumberKeeps DEF Same
<1>9. \A j \in DOMAIN list : j \in DOMAIN steps \/ j = Len(steps) + 1
  BY <1>1, <1>3
<1>10. DOMAIN steps \subseteq DOMAIN list
  BY <1>1, <1>3
<1>11. NothingRewritten /\ AllButOne(id)
  <2> HIDE DEF list, new
  <2>1. QED
    BY <1>3, <1>4, <1>8, <1>9, <1>10 DEF NothingRewritten, AllButOne, Same, List!Fresh
<1>12. QED
  BY <1>7, <1>11

LEMMA RemoveKeeps ==
    ASSUME Shape, NEW i \in DOMAIN steps, List!Remove(i)
    PROVE  Shape' /\ NothingRewritten /\ AllButOne(steps[i].id)
<1>1. Len(steps) \in Nat /\ steps \in Seq(List!Step) /\ DOMAIN steps = 1..Len(steps)
  BY ElementFields DEF Shape, Sound
<1> DEFINE list == List!Without(steps, i)
           from(j) == IF j < i THEN j ELSE j + 1
<1>2. /\ list \in Seq(List!Step) /\ DOMAIN list = 1..(Len(steps) - 1)
      /\ \A j \in DOMAIN list : list[j] = steps[from(j)]
  BY <1>1, WithoutKeeps
<1>3. /\ \A j \in DOMAIN list : from(j) \in DOMAIN steps
      /\ \A j, k \in DOMAIN list : from(j) = from(k) => j = k
  BY <1>1, <1>2
<1>4. \A j, k \in DOMAIN list : list[j].id = list[k].id => j = k
  <2> HIDE DEF list, from
  <2>1. QED
    BY <1>2, <1>3 DEF Shape, Sound
<1>5. Shape'
  BY <1>2, <1>4, RenumberSound DEF Shape, List!Remove
<1>6. DOMAIN steps' = DOMAIN list /\ \A j \in DOMAIN list : Same(steps'[j], steps[from(j)])
  BY <1>2, RenumberKeeps DEF Same, List!Remove
<1>7. \A k \in DOMAIN steps : k = i \/ \E j \in DOMAIN list : from(j) = k
  <2> SUFFICES ASSUME NEW k \in DOMAIN steps, k # i
               PROVE  \E j \in DOMAIN list : from(j) = k
    OBVIOUS
  <2>1. CASE k < i
    BY <1>1, <1>2, <2>1
  <2>2. CASE k > i
    <3>1. k - 1 \in DOMAIN list /\ from(k - 1) = k
      BY <1>1, <1>2, <2>2
    <3>2. QED
      BY <3>1
  <2>3. QED
    BY <1>1, <2>1, <2>2
<1>8. NothingRewritten /\ AllButOne(steps[i].id)
  <2> HIDE DEF list, from
  <2>1. QED
    BY <1>3, <1>6, <1>7 DEF NothingRewritten, AllButOne, Same
<1>9. QED
  BY <1>5, <1>8

LEMMA MoveKeeps ==
    ASSUME Shape, NEW i \in DOMAIN steps, NEW j \in DOMAIN steps, List!Move(i, j)
    PROVE  Shape' /\ NothingRewritten /\ AllButOne(steps[i].id)
<1>1. Len(steps) \in Nat /\ steps \in Seq(List!Step) /\ DOMAIN steps = 1..Len(steps)
  BY ElementFields DEF Shape, Sound
<1> DEFINE list == List!Exchange(steps, i, j)
           from(k) == IF k = j THEN i ELSE IF k = i THEN j ELSE k
<1>2. /\ list \in Seq(List!Step) /\ DOMAIN list = DOMAIN steps
      /\ \A k \in DOMAIN list : list[k] = steps[from(k)]
  <2>1. /\ list \in Seq(List!Step) /\ DOMAIN list = DOMAIN steps
        /\ \A k \in DOMAIN steps :
              list[k] = IF k = j THEN steps[i] ELSE IF k = i THEN steps[j] ELSE steps[k]
    BY <1>1, ExchangeKeeps
  <2> HIDE DEF list
  <2>2. QED
    BY <2>1
<1>3. /\ \A k \in DOMAIN list : from(k) \in DOMAIN steps
      /\ \A k, l \in DOMAIN list : from(k) = from(l) => k = l
  BY <1>2
<1>4. \A k, l \in DOMAIN list : list[k].id = list[l].id => k = l
  <2> HIDE DEF list, from
  <2>1. QED
    BY <1>2, <1>3 DEF Shape, Sound
<1>5. Shape'
  BY <1>2, <1>4, RenumberSound DEF Shape, List!Move
<1>6. DOMAIN steps' = DOMAIN list /\ \A k \in DOMAIN list : Same(steps'[k], steps[from(k)])
  BY <1>2, RenumberKeeps DEF Same, List!Move
<1>7. \A k \in DOMAIN steps : from(k) \in DOMAIN list /\ from(from(k)) = k
  BY <1>2
<1>8. NothingRewritten /\ AllButOne(steps[i].id)
  <2> HIDE DEF list, from
  <2>1. QED
    BY <1>3, <1>6, <1>7 DEF NothingRewritten, AllButOne, Same
<1>9. QED
  BY <1>5, <1>8

LEMMA UpdateKeeps ==
    ASSUME Shape, NEW i \in DOMAIN steps, NEW text \in Texts, List!Update(i, text)
    PROVE  /\ steps' \in Seq(List!Step) /\ DOMAIN steps' = DOMAIN steps
           /\ \A k \in DOMAIN steps :
                 /\ k # i => steps'[k] = steps[k]
                 /\ steps'[k].id = steps[k].id
                 /\ steps'[k].position = steps[k].position
<1>1. Len(steps) \in Nat /\ steps \in Seq(List!Step) /\ DOMAIN steps = 1..Len(steps)
      /\ steps \in [1..Len(steps) -> List!Step] /\ steps[i] \in List!Step
  BY ElementFields, LenProperties DEF Shape, Sound
<1> DEFINE new == [steps[i] EXCEPT !.text = text]
<1>2. new \in List!Step /\ new.id = steps[i].id /\ new.position = steps[i].position
  BY <1>1 DEF List!Step
<1>3. steps' = [steps EXCEPT ![i] = new]
  BY DEF List!Update
<1> HIDE DEF new
<1>4. steps' \in [1..Len(steps) -> List!Step] /\ DOMAIN steps' = DOMAIN steps
      /\ steps'[i] = new /\ \A k \in DOMAIN steps : k # i => steps'[k] = steps[k]
  BY <1>1, <1>2, <1>3
<1>5. QED
  BY <1>1, <1>2, <1>4, FunctionIsSeq

LEMMA ShapeUpdate ==
    ASSUME Shape, NEW i \in DOMAIN steps, NEW text \in Texts, List!Update(i, text)
    PROVE  Shape'
BY UpdateKeeps DEF Shape, Sound

LEMMA ShapeInit == List!Init => Shape
BY EmptySeq DEF List!Init, Shape, Sound

LEMMA ShapeNext == NewTextAssumption /\ Shape /\ [List!Next]_steps => Shape'
<1> SUFFICES ASSUME NewTextAssumption, Shape, [List!Next]_steps
             PROVE  Shape'
  OBVIOUS
<1>1. CASE UNCHANGED steps
  BY <1>1 DEF Shape
<1>2. CASE \E id \in StepIds : List!Add(id)
  BY <1>2, AddKeeps
<1>3. CASE \E i \in DOMAIN steps : List!Remove(i)
  BY <1>3, RemoveKeeps
<1>4. CASE \E i, j \in DOMAIN steps : List!Move(i, j)
  BY <1>4, MoveKeeps
<1>5. CASE \E i \in DOMAIN steps, text \in Texts : List!Update(i, text)
  BY <1>5, ShapeUpdate
<1>6. QED
  BY <1>1, <1>2, <1>3, <1>4, <1>5 DEF List!Next

LEMMA ShapeHolds ==
    ASSUME NewTextAssumption
    PROVE  List!Spec => []Shape
<1>1. NewTextAssumption /\ Shape /\ [List!Next]_steps => Shape'
  BY ShapeNext
<1>2. QED
  BY ShapeInit, <1>1, PTL DEF List!Spec

\* Adding, removing, moving and writing in any order leaves a list that
\* save_revision accepts, however long: no identifier twice, and positions that
\* count up from one (StepList.tsx renumber, sop/service.py).
THEOREM AlwaysAccepted ==
    ASSUME NewTextAssumption
    PROVE  List!Spec => []List!ServerAccepts
<1>1. Shape => List!ServerAccepts
  BY DEF Shape, Sound, List!ServerAccepts
<1>2. QED
  BY <1>1, ShapeHolds, PTL

\* A change that leaves words alone keeps everybody's words.
LEMMA WordsOf ==
    ASSUME Shape, NothingRewritten, NEW i \in DOMAIN steps, NEW j \in DOMAIN steps',
           steps[i].id = steps'[j].id
    PROVE  steps[i].text = steps'[j].text
<1>1. CASE \E k \in DOMAIN steps : Same(steps'[j], steps[k])
  BY <1>1 DEF Shape, Sound, Same
<1>2. CASE List!Fresh(steps'[j].id)
  BY <1>2 DEF List!Fresh
<1>3. QED
  BY <1>1, <1>2 DEF NothingRewritten

\* Whoever is still in the list says what it said, except the one step somebody
\* writes in (update, move, remove).
THEOREM WordsAreKept ==
    ASSUME NewTextAssumption
    PROVE  List!Spec => List!WordsStay
<1> DEFINE Stays ==
        \A i \in DOMAIN steps, j \in DOMAIN steps' :
            (steps[i].id = steps'[j].id /\ steps[i].text # steps'[j].text) =>
                /\ j = i
                /\ \A k \in DOMAIN steps \ {i} : steps'[k] = steps[k]
<1>1. ASSUME Shape, NothingRewritten
      PROVE  Stays
  BY <1>1, WordsOf
<1>2. ASSUME Shape, NEW u \in DOMAIN steps, NEW text \in Texts, List!Update(u, text)
      PROVE  Stays
  BY <1>2, UpdateKeeps DEF Shape, Sound
<1>3. ASSUME Shape, List!Next
      PROVE  Stays
  <2> HIDE DEF Stays
  <2>1. CASE \E id \in StepIds : List!Add(id)
    BY <1>1, <1>3, <2>1, AddKeeps
  <2>2. CASE \E i \in DOMAIN steps : List!Remove(i)
    BY <1>1, <1>3, <2>2, RemoveKeeps
  <2>3. CASE \E i, j \in DOMAIN steps : List!Move(i, j)
    BY <1>1, <1>3, <2>3, MoveKeeps
  <2>4. CASE \E i \in DOMAIN steps, text \in Texts : List!Update(i, text)
    BY <1>2, <1>3, <2>4
  <2>5. QED
    BY <1>3, <2>1, <2>2, <2>3, <2>4 DEF List!Next
<1>4. Shape /\ [List!Next]_steps => [Stays]_steps
  BY <1>3
<1>5. List!Spec => [][Stays]_steps
  BY <1>4, ShapeHolds, PTL DEF List!Spec
<1>6. QED
  BY <1>5 DEF List!WordsStay

\* One change adds or removes one step at most (remove, move).
THEOREM OthersAreKept ==
    ASSUME NewTextAssumption
    PROVE  List!Spec => List!NobodyIsLost
<1> DEFINE Kept ==
        \E gone \in StepIds :
            \A i \in DOMAIN steps :
                steps[i].id # gone =>
                    \E j \in DOMAIN steps' : steps'[j].id = steps[i].id
<1>0. ASSUME NEW gone \in StepIds, AllButOne(gone)
      PROVE  Kept
  BY <1>0 DEF AllButOne
<1>1. ASSUME Shape, NEW i \in DOMAIN steps
      PROVE  steps[i].id \in StepIds
  BY <1>1, ElementFields DEF Shape, Sound
<1>2. ASSUME Shape, List!Next
      PROVE  Kept
  <2> HIDE DEF Kept
  <2>1. CASE \E id \in StepIds : List!Add(id)
    BY <1>0, <1>2, <2>1, AddKeeps
  <2>2. CASE \E i \in DOMAIN steps : List!Remove(i)
    BY <1>0, <1>1, <1>2, <2>2, RemoveKeeps
  <2>3. CASE \E i, j \in DOMAIN steps : List!Move(i, j)
    BY <1>0, <1>1, <1>2, <2>3, MoveKeeps
  <2>4. CASE \E i \in DOMAIN steps, text \in Texts : List!Update(i, text)
    <3> SUFFICES ASSUME NEW i \in DOMAIN steps, NEW text \in Texts, List!Update(i, text)
                 PROVE  Kept
      BY <2>4
    <3>1. AllButOne(steps[i].id)
      BY <1>2, UpdateKeeps DEF AllButOne
    <3>2. QED
      BY <1>0, <1>1, <1>2, <3>1
  <2>5. QED
    BY <1>2, <2>1, <2>2, <2>3, <2>4 DEF List!Next
<1>3. Shape /\ [List!Next]_steps => [Kept]_steps
  BY <1>2
<1>4. List!Spec => [][Kept]_steps
  BY <1>3, ShapeHolds, PTL DEF List!Spec
<1>5. QED
  BY <1>4 DEF List!NobodyIsLost

-----------------------------------------------------------------------------
(* The list among the other pages, which leave it alone.                    *)

LEMMA StepsMove == WebSpec => List!Spec
<1>1. WebInit => List!Init
  BY DEF WebInit
<1>2. [WebNext]_webVars => [List!Next]_steps
  BY DEF WebNext, webVars
<1>3. QED
  BY <1>1, <1>2, PTL DEF WebSpec, List!Spec

\* The server accepts the shape of the list whatever the counselor did to it.
THEOREM ListsAreAccepted == WebSpec => []ServerAccepts
<1>1. NewTextAssumption
  BY TextsAssumption DEF NewTextAssumption
<1>2. List!Spec => []List!ServerAccepts
  BY <1>1, AlwaysAccepted
<1>3. QED
  BY <1>2, StepsMove, PTL DEF ServerAccepts

-----------------------------------------------------------------------------
(* What was typed, in the list, the draft and the match.                    *)

\* The lemmas about MatchEditor, of the match of MCWebFaults.
MP == INSTANCE MatchEditorProofs WITH
    match <- mMatch, data <- mData, fetch <- mFetch, form <- mForm, call <- mCall,
    Faults <- MatchFaults

\* The steps of the match are those that the lemmas speak of.
LEMMA MatchSame ==
    /\ Match!Init => MP!Init
    /\ [Match!Next]_matchVars => [MP!Next]_(MP!vars)
    /\ MP!KeepsTyping => Match!KeepsTyping
    /\ MP!FirstAssumption
<1>1. Match!Init => MP!Init
  BY DEF Match!Init, MP!Init, Match!None, MP!None, Match!NoForm, MP!NoForm, Match!Idle, MP!Idle
<1>2. Match!Next => MP!Next
  BY DEF Match!Type, Match!Editable, Match!Busy, Match!Send, Match!SaveDraft,
      Match!Dirty, Match!BaseVersion, Match!Clean, Match!ConfirmSaved, Match!Reload,
      Match!Answer, Match!Handle, Match!HandleSave, Match!HandleConfirm,
      Match!LoseCall, Match!Done, Match!Failed, Match!Settle, Match!Fetch,
      Match!Ended, Match!Arrive, Match!Fill, Match!Sync, Match!FetchFails,
      Match!PageFails, Match!Awaited, Match!Next, Match!None, Match!NoForm, Match!Idle, MP!Type,
      MP!Editable, MP!Busy, MP!Send, MP!SaveDraft, MP!Dirty, MP!BaseVersion,
      MP!Clean, MP!ConfirmSaved, MP!Reload, MP!Answer, MP!Handle, MP!HandleSave,
      MP!HandleConfirm, MP!LoseCall, MP!Done, MP!Failed, MP!Settle, MP!Fetch,
      MP!Ended, MP!Arrive, MP!Fill, MP!Sync, MP!FetchFails, MP!PageFails, MP!Awaited,
      MP!Next, MP!None, MP!NoForm, MP!Idle
<1>3. MP!vars = matchVars
  BY DEF MP!vars, matchVars
<1>4. MP!KeepsTyping => Match!KeepsTyping
  BY DEF MP!KeepsTyping, Match!KeepsTyping, MP!PageFails, Match!PageFails, MP!Fill,
      Match!Fill, MP!NoForm, Match!NoForm, MP!None, Match!None, MP!Idle, Match!Idle
<1>5. MP!FirstAssumption
  BY ContentsAssumption DEF MP!FirstAssumption
<1>6. [Match!Next]_matchVars => [MP!Next]_(MP!vars)
  BY <1>2 DEF MP!vars, matchVars
<1>7. QED
  BY <1>1, <1>4, <1>5, <1>6

Typed ==
    /\ IInv /\ EditsInv
    /\ site = "match" => MP!IInv

LEMMA TypedMoves ==
    ASSUME [WebNext]_webVars
    PROVE  /\ site' = site /\ [Next]_vars
           /\ site = "match" => [MP!Next]_(MP!vars)
<1>1. CASE UNCHANGED webVars
  BY <1>1 DEF webVars, sopVars, vars, matchVars, MP!vars
<1>2. CASE WebNext
  <2>1. site' = site /\ [Next]_vars /\ (site = "match" => [Match!Next]_matchVars)
    BY <1>2, Zenon DEF WebNext, sopVars, vars
  <2>2. QED
    BY <2>1, MatchSame
<1>3. QED
  BY <1>1, <1>2

LEMMA TypedInvariant == WebSpec => []Typed
<1>1. WebInit => Typed
  BY IInvInit, EditsInvInit, MatchSame, MP!IInvInit DEF WebInit, Typed
<1>2. Typed /\ [WebNext]_webVars => Typed'
  BY TypedMoves, IInvNext, EditsInvNext, MatchSame, MP!IInvNext DEF Typed, IInv
<1>3. QED
  BY <1>1, <1>2, PTL DEF WebSpec

\* Whatever fails: instructions stay on their steps, and a change moves or removes
\* nobody else; and what was typed into the draft or the match leaves its form only by
\* typing on, by a save of it or a reload that was asked for, or with the whole editor,
\* taken away by a failing fetch of what is above it, a newer revision or a publication;
\* and a file attached to a draft meanwhile, by the reply to its save or reload.
THEOREM TypedIsKept == WebSpec => TypedStays
<1> DEFINE Step == /\ site = "sop" => KeepsTyping
                   /\ site = "match" => Match!KeepsTyping
<1>1. NewTextAssumption
  BY TextsAssumption DEF NewTextAssumption
<1>2. List!Spec => List!WordsStay
  BY <1>1, WordsAreKept
<1>3. List!Spec => List!NobodyIsLost
  BY <1>1, OthersAreKept
<1>4. Typed /\ [WebNext]_webVars => Step
  <2> SUFFICES ASSUME Typed, [WebNext]_webVars
               PROVE  Step
    OBVIOUS
  <2>1. KeepsTyping
    BY TypedMoves, EditsInvNext DEF Typed, IInv
  <2>2. site = "match" => Match!KeepsTyping
    <3>1. CASE site = "match" /\ MP!Next
      BY <3>1, MatchSame, MP!TypingStep DEF Typed
    <3>2. CASE site = "match" /\ ~MP!Next
      <4>1. mForm' = mForm
        BY <3>2, TypedMoves DEF MP!vars
      <4>2. QED
        BY <4>1 DEF Match!KeepsTyping
    <3>3. QED
      BY <3>1, <3>2
  <2>3. QED
    BY <2>1, <2>2
<1>5. WebSpec => [][Step]_webVars
  BY <1>4, TypedInvariant, PTL DEF WebSpec
<1>6. QED
  BY <1>2, <1>3, <1>5, StepsMove, PTL DEF TypedStays

=============================================================================
