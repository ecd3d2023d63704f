------------------------------ MODULE StepList ------------------------------
(***************************************************************************)
(* The step editor of an SOP draft (features/sop/StepList.tsx): add,       *)
(* update, remove and move steps; each change but an update numbers the    *)
(* steps again.  A step's fields other than id and position are its text.  *)
(* New ids are random in the code and unused ids here.  "disabled" is left *)
(* out: it stops every operation at once (DraftEditor).                    *)
(***************************************************************************)
EXTENDS Naturals, Sequences

CONSTANTS
    Ids,        \* the identifiers of steps
    Texts,      \* what a step may say
    NewText,    \* what a new step says, one of them
    MaxSteps    \* the editor offers no more steps than these (100 in the code)

VARIABLE steps   \* the steps of the form, in the order shown

Step == [id: Ids, position: Nat, text: Texts]

Init == steps = <<>>

Fresh(id) == \A i \in DOMAIN steps : steps[i].id # id

\* Mutant: a step that moved keeps the number it had.
Renumber_Kept(list) == list

\* renumber: positions follow the order of the list.
Renumber(list) == [i \in DOMAIN list |-> [list[i] EXCEPT !.position = i]]

Add(id) ==
    /\ Len(steps) < MaxSteps
    /\ Fresh(id)
    /\ steps' = Renumber(Append(steps, [id |-> id, position |-> Len(steps) + 1, text |-> NewText]))

\* Mutant: everything up to the i-th element goes.
Without_Slice(list, i) == SubSeq(list, i + 1, Len(list))

\* The list without its i-th element.
Without(list, i) ==
    [j \in 1..(Len(list) - 1) |-> IF j < i THEN list[j] ELSE list[j + 1]]

Remove(i) == steps' = Renumber(Without(steps, i))

\* Mutant: two steps exchange their words instead of their places.
Exchange_Words(list, i, j) ==
    [list EXCEPT ![i].text = list[j].text, ![j].text = list[i].text]

Exchange(list, i, j) == [list EXCEPT ![i] = list[j], ![j] = list[i]]

\* move by -1 or +1: the buttons at the ends are disabled.
Move(i, j) ==
    /\ j = i + 1 \/ i = j + 1
    /\ steps' = Renumber(Exchange(steps, i, j))

Update(i, text) == steps' = [steps EXCEPT ![i].text = text]

Next ==
    \/ \E id \in Ids : Add(id)
    \/ \E i \in DOMAIN steps :
          \/ Remove(i)
          \/ \E j \in DOMAIN steps : Move(i, j)
          \/ \E text \in Texts : Update(i, text)

Spec == Init /\ [][Next]_steps

-----------------------------------------------------------------------------
(* Properties.                                                              *)

TypeOK == steps \in Seq(Step) /\ Len(steps) <= MaxSteps

\* Whatever the counselor did to the list, save_revision accepts its shape: no
\* identifier twice, and positions that count up from one (sop/service.py).
ServerAccepts ==
    \A i, j \in DOMAIN steps :
        /\ steps[i].position = i
        /\ steps[i].id = steps[j].id => i = j

\* A step keeps its words: whoever is still in the list after a change says
\* what it said, except the one step a counselor writes in, and that writing
\* moves nobody.
WordsStay ==
    [][\A i \in DOMAIN steps, j \in DOMAIN steps' :
          (steps[i].id = steps'[j].id /\ steps[i].text # steps'[j].text) =>
              /\ j = i
              /\ \A k \in DOMAIN steps \ {i} : steps'[k] = steps[k]]_steps

\* One change adds or removes one step at most: the others are all still there.
NobodyIsLost ==
    [][\E gone \in Ids :
          \A i \in DOMAIN steps :
              steps[i].id # gone =>
                  \E j \in DOMAIN steps' : steps'[j].id = steps[i].id]_steps

=============================================================================
