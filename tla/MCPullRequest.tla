--------------------------- MODULE MCPullRequest ---------------------------
(* Two calls, two other acts, one lost request; every provider.            *)
EXTENDS PullRequest

Updates ==
    { [NoChange EXCEPT !.title = {"mine"}, !.join = {Me}, !.light = TRUE],
      [NoChange EXCEPT !.draft = {FALSE}, !.labels = {"bug"}],
      [NoChange EXCEPT !.draft = {TRUE}, !.leave = {"ann"}],
      [NoChange EXCEPT !.status = {"closed"}, !.unlabel = {"bug"}] }
Merges   == { MergeCall, [MergeCall EXCEPT !.light = TRUE],
              [MergeCall EXCEPT !.method = "rebase"] }
Verdicts == { VerdictCall(s, b) : s \in Acts, b \in BOOLEAN }
MCRequests == Updates \cup Merges \cup Verdicts
=============================================================================
