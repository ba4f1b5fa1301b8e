------------------------ MODULE MCQuestionLifecycle ------------------------
(* Small instances of QuestionLifecycle for TLC. *)
EXTENDS QuestionLifecycle, TLC

\* Administrators and contents are interchangeable names.
Interchangeable == Permutations(Admins) \cup Permutations(Contents)
=============================================================================
