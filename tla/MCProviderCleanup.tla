------------------------- MODULE MCProviderCleanup -------------------------
(* Small instances of ProviderCleanup for TLC. *)
EXTENDS ProviderCleanup, TLC

\* Providers, runs and tokens are interchangeable names; the liveness run does not use it.
Interchangeable == Permutations(Providers) \cup Permutations(Workers) \cup Permutations(Tokens)
=============================================================================
