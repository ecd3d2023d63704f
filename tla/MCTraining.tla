------------------------------ MODULE MCTraining ------------------------------
(***************************************************************************)
(* A small instance of Training: the contents an editor may write.         *)
(***************************************************************************)
EXTENDS Training

CONSTANTS f1, f2

\* Two steps, the first with evidence; the complete and an unfinished version.
TwoSteps == [len |-> 2, evidence |-> {1}, media |-> {}, complete |-> TRUE]
OneStep == [len |-> 1, evidence |-> {}, media |-> {f2}, complete |-> TRUE]
Unfinished == [OneStep EXCEPT !.complete = FALSE]

WorkContents == {TwoSteps}
EditContents == {OneStep, Unfinished}

=============================================================================
