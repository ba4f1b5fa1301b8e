-------------------------- MODULE MCStudyDraftSync --------------------------
(* Small instances of StudyDraftSync for TLC. *)
EXTENDS StudyDraftSync, TLC

\* Tabs, fields and the values but for the blank one are interchangeable names; the
\* liveness runs do not use it.
Interchangeable ==
    Permutations(Tabs) \cup Permutations(Fields) \cup Permutations(Values \ {Blank})

\* Bound of draft_tabs: the tabs meet a failure or a reload, not both.
OneMishap == budget.failures = MaxFailures \/ budget.reloads = MaxReloads
=============================================================================
