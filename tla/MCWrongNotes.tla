---------------------------- MODULE MCWrongNotes ----------------------------
(* A small instance of WrongNotes for TLC. *)
EXTENDS WrongNotes, TLC

\* Sessions are interchangeable names, and so are questions.
Interchangeable == Permutations(Sessions) \cup Permutations(Questions)
=============================================================================
