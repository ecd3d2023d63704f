---------------------------- MODULE EditContract ----------------------------
(***************************************************************************)
(* What the editing pages of the web client promise together with the      *)
(* server about documents that several people may edit: a new content      *)
(* replaces the one its author was looking at and no other, and what is    *)
(* frozen is what the person who froze it was looking at.                  *)
(*                                                                         *)
(* basis[e] is what editor e has before the eyes: a version of a document, *)
(* and the text.  How e comes to look at something (a fetch, a refresh,    *)
(* typing) is left open; that it may be out of date is the point.          *)
(***************************************************************************)
EXTENDS Naturals

CONSTANTS
    Editors,
    Documents,
    Contents

VARIABLES
    doc,     \* doc[d]: version (0 while absent), content, state
    basis    \* basis[e]: the version of "of" that e's form started from, its text

vars == <<doc, basis>>

Document == [version: Nat, content: Contents, state: {"absent", "draft", "frozen"}]
Basis == [of: Documents, version: Nat, content: Contents]

Init ==
    /\ doc \in [Documents -> Document]
    /\ basis \in [Editors -> Basis]

\* The document d comes into being.
Create(d) ==
    /\ doc[d].state = "absent"
    /\ \E content \in Contents :
          doc' = [doc EXCEPT ![d] = [version |-> 1, content |-> content, state |-> "draft"]]

\* e's text replaces the version that e started from.
Edit(e) ==
    LET d == basis[e].of IN
    /\ doc[d].state = "draft"
    /\ basis[e].version = doc[d].version
    /\ doc' = [doc EXCEPT ![d].content = basis[e].content, ![d].version = @ + 1]

\* e freezes the text e is looking at.
Freeze(e) ==
    LET d == basis[e].of IN
    /\ doc[d].state = "draft"
    /\ basis[e].content = doc[d].content
    /\ doc' = [doc EXCEPT ![d].state = "frozen", ![d].version = @ + 1]

\* What is before the eyes changes freely; the documents only so.
Next ==
    /\ basis' \in [Editors -> Basis]
    /\ \/ doc' = doc
       \/ \E d \in Documents : Create(d)
       \/ \E e \in Editors : Edit(e) \/ Freeze(e)

Spec == Init /\ [][Next]_vars

=============================================================================
