--------------------------- MODULE MCReviewDraft ---------------------------
(* Two callers of one account, three calls, two commits.                *)
EXTENDS ReviewDraft, TLC
Alike == Permutations(Callers) \cup Permutations(Commits)
=============================================================================
