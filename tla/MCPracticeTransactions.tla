---------------------- MODULE MCPracticeTransactions ----------------------
(* Small instances of PracticeTransactions for TLC. *)
EXTENDS PracticeTransactions, TLC

\* Sessions and keys are interchangeable names.
Interchangeable == Permutations(Sessions) \cup Permutations(Keys)
=============================================================================
