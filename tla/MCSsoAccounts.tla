--------------------------- MODULE MCSsoAccounts ---------------------------
(* Small instances of SsoAccounts for TLC. *)
EXTENDS SsoAccounts, TLC

\* Browsers, tokens, runs and users are interchangeable names.
Interchangeable == Permutations(Browsers) \cup Permutations(Tokens) \cup Permutations(Workers)
                   \cup Permutations(Requests)

CONSTANTS apple1, google1
ByName == (apple1 :> "apple") @@ (google1 :> "google")
=============================================================================
