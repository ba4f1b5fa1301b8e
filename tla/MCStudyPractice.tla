-------------------------- MODULE MCStudyPractice --------------------------
(* Small instances of StudyPractice for TLC. *)
EXTENDS StudyPractice, TLC

\* Sessions and keys are interchangeable names.
Interchangeable == Permutations(Sessions) \cup Permutations(Keys)
=============================================================================
