------------------------- MODULE MCIdempotentCreate -------------------------
(* Two callers; key "k" is used for a GitHub issue with board fields, its   *)
(* light retry and a pull request; an Azure DevOps work item that is closed *)
(* at once is created without a key.                                        *)
EXTENDS IdempotentCreate, TLC

CONSTANTS c1, c2, o1, o2

Symmetry == Permutations({c1, c2}) \cup Permutations({o1, o2})

Plainly ==
    [provider |-> "github", op |-> "ticket", key |-> "k", args |-> "a",
     light |-> FALSE, board |-> TRUE, close |-> FALSE, fields |-> FALSE,
     milestone |-> FALSE, labels |-> FALSE, assignees |-> FALSE,
     reviewers |-> FALSE]

OnBoard   == [Plainly EXCEPT !.fields = TRUE]
LightOnly == [Plainly EXCEPT !.light = TRUE, !.close = TRUE]
ForPr     == [Plainly EXCEPT !.op = "pr", !.labels = TRUE]
WorkItem  == [Plainly EXCEPT !.provider = "azuredevops", !.key = None, !.close = TRUE]

MCRequests == {OnBoard, LightOnly, ForPr, WorkItem}
=============================================================================
