----------------------------- MODULE CreatePlans -----------------------------
(***************************************************************************)
(* The steps create_ticket and create_pr take after the POST that creates  *)
(* the object, per provider, and what each step's failure becomes.  The    *)
(* flow that runs them is in IdempotentCreate.                             *)
(*                                                                         *)
(* A request carries the caller's choices: the provider and operation, the *)
(* idempotency key (None: no key), the core arguments the key is bound to, *)
(* light mode, whether the project's board is configured, and which        *)
(* optional parts it asks for.                                             *)
(***************************************************************************)
EXTENDS Sequences

CONSTANTS Keys, Args, None

Providers == {"github", "azuredevops", "gitlab"}

RequestType ==
    [provider : Providers, op : {"ticket", "pr"}, key : Keys \cup {None},
     args : Args, light : BOOLEAN, board : BOOLEAN,
     close : BOOLEAN, fields : BOOLEAN, milestone : BOOLEAN,
     labels : BOOLEAN, assignees : BOOLEAN, reviewers : BOOLEAN]

StepNames == {"status", "fields", "milestone", "readback",
              "labels", "assignees", "reviewers",
              "transition", "prlabels", "reload"}

When(c, step) == IF c THEN <<step>> ELSE <<>>

(* GitHub issue: status PATCH for a non-open status, custom fields and     *)
(* milestone on the Projects v2 board, board read-back for a full ticket.  *)
GitHubTicketPlan(r) ==
    When(r.close, "status") \o When(r.fields, "fields")
      \o When(r.milestone, "milestone")
      \o When(r.fields /\ ~r.light, "readback")

(* GitHub pull request: labels, assignees and reviewers are calls of their *)
(* own after POST /pulls.                                                  *)
GitHubPrPlan(r) ==
    When(r.labels, "labels") \o When(r.assignees, "assignees")
      \o When(r.reviewers, "reviewers")

(* Azure DevOps work item: every field is in the POST; a status other than *)
(* the initial state is an update_ticket call afterwards.                  *)
AzureTicketPlan(r) == When(r.close, "transition")

(* Azure DevOps pull request: one best-effort call per label, then a       *)
(* reload for a full result.                                               *)
AzurePrPlan(r) == <<"prlabels">> \o When(~r.light, "reload")

(* GitLab issue: a PUT closes it; merge requests need no further call.     *)
GitLabTicketPlan(r) == When(r.close, "status")

Plan(r) ==
    CASE r.provider = "github" /\ r.op = "ticket" -> GitHubTicketPlan(r)
      [] r.provider = "github" /\ r.op = "pr" -> GitHubPrPlan(r)
      [] r.provider = "azuredevops" /\ r.op = "ticket" -> AzureTicketPlan(r)
      [] r.provider = "azuredevops" /\ r.op = "pr" -> AzurePrPlan(r)
      [] r.provider = "gitlab" /\ r.op = "ticket" -> GitLabTicketPlan(r)
      [] OTHER -> <<>>

(* custom_fields and milestone need a configured board on GitHub.          *)
Accepted(r) ==
    r.provider = "github" /\ r.op = "ticket" /\ (r.fields \/ r.milestone) => r.board

(***************************************************************************)
(* How a step can fail: the provider refuses (any 4xx/5xx), with a 422, or *)
(* with 403/404; it rate-limits (403/429, RateLimitError is not a          *)
(* GitHubError); a value cannot be resolved (ValueError); the transport    *)
(* raises; the object came back without the node_id by which the board is  *)
(* written, for which the first of the two board writes looks.             *)
(***************************************************************************)
Failures == {"refused", "unprocessable", "forbidden",
             "ratelimit", "value", "transport", "nameless"}

CanFail(r, step, f) ==
    /\ f = "value" => step \in {"fields", "milestone", "transition"}
    /\ f = "nameless" => step = "fields" \/ (step = "milestone" /\ ~r.fields)

BoardSteps == {"fields", "milestone", "readback"}

(* Failures a step swallows: the create goes on, with a warning.           *)
Tolerated(step, f) ==
    \/ step \in {"labels", "assignees", "reviewers"} /\ f = "unprocessable"
    \/ step = "prlabels" /\ f = "forbidden"

(* Failures reported with the identity of the object that was created:     *)
(* PartialTicketCreateError wraps GitHubError only, and not the one that   *)
(* says there is no node_id; Azure DevOps wraps whatever its state         *)
(* transition raises.                                                      *)
NamesObject(step, f) ==
    \/ step \in BoardSteps /\ f \in {"refused", "unprocessable", "forbidden"}
    \/ step = "transition"
=============================================================================
