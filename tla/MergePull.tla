----------------------------- MODULE MergePull -----------------------------
(***************************************************************************)
(* merge_pr.  GitHub and GitLab merge within one PUT and tell a refusal    *)
(* (405) apart by a probe; Azure DevOps accepts a completion for the head  *)
(* commit the call has read, works it off later, and is polled.            *)
(***************************************************************************)
EXTENDS PullState

MergeCall == [op |-> "merge", method |-> "merge", light |-> FALSE]

MergeCalls == [op : {"merge"}, method : STRING, light : BOOLEAN]

Merging ==
    [op : {"merge"}, arg : MergeCalls,
     pc : {"start", "preflight", "put", "probe", "refetch", "handshake"}]
    \cup [op : {"merge"}, pc : {"patch"}, arg : MergeCalls, head : Nat]
    \cup [op : {"merge"}, pc : {"status", "poll"}, arg : MergeCalls, polls : Nat]

CanMerge(p) == p.st = "open" /\ ~p.blocked /\ ~p.draft /\ ~p.pending
MergedNow   == [pr EXCEPT !.st = "merged", !.merging = pr.head]

AlreadyMerged == "already merged"

(* Before any request: GitLab has no rebase, nobody an unknown method.     *)
BadMethod(method) ==
    \/ method \notin {"merge", "squash", "rebase"}
    \/ provider = "gitlab" /\ method = "rebase"

Silent == UNCHANGED <<provider, server, bounds, history>>
Quiet  == Silent /\ UNCHANGED result

MergeStart ==
    /\ At("merge", "start")
    /\ IF BadMethod(call.arg.method) /\ provider # "azure"
       THEN Raise("method")
       ELSE /\ UNCHANGED result
            /\ Goto(IF provider = "azure" THEN "handshake"
                    ELSE IF provider = "github" /\ ~call.arg.light
                         THEN "preflight" ELSE "put")
    /\ Silent

-----------------------------------------------------------------------------
(* GitHub and GitLab.                                                      *)

Preflight ==
    /\ At("merge", "preflight")
    /\ \/ /\ IF pr.st = "merged" THEN Raise(AlreadyMerged)
                                 ELSE Goto("put") /\ UNCHANGED result
          /\ Silent
       \/ Lost({pr})

MergePut ==
    /\ At("merge", "put")
    /\ IF CanMerge(pr)
       THEN \/ /\ pr' = MergedNow
               /\ IF call.arg.light THEN Return(Reported(pr'))
                                    ELSE Goto("refetch") /\ UNCHANGED result
               /\ UNCHANGED <<provider, notes, bounds, history>>
            \/ Lost({pr, MergedNow})
       ELSE \/ Goto("probe") /\ Quiet
            \/ Lost({pr})

(* Why it was refused.  GitLab swallows a probe that fails.                *)
Probe ==
    /\ At("merge", "probe")
    /\ \/ /\ Raise(IF pr.st = "merged" THEN AlreadyMerged ELSE "cannot be merged")
          /\ Silent
       \/ provider = "github" /\ Lost({pr})
       \/ /\ provider = "gitlab" /\ faults < MaxFaults
          /\ faults' = faults + 1
          /\ Raise("unknown reason")
          /\ UNCHANGED <<provider, server, calls, events, history>>

(* The final read; the reviews added to it are fetched at best effort.     *)
Refetch ==
    /\ At("merge", "refetch")
    /\ \/ Return(Reported(pr)) /\ Silent
       \/ Lost({pr})

-----------------------------------------------------------------------------
(* Azure DevOps.                                                           *)

Completed_ByMergeStatus(p) == p.ms = "succeeded"
Completed(p) == p.st = "merged" /\ p.ms = "succeeded"

Handshake ==
    /\ At("merge", "handshake")
    /\ \/ /\ IF Completed(pr) THEN Raise(AlreadyMerged)
             ELSE /\ call' = [op |-> "merge", pc |-> "patch", arg |-> call.arg,
                              head |-> pr.head]
                  /\ UNCHANGED result
          /\ Silent
       \/ Lost({pr})

(* lastMergeSourceCommit, as the server would have to compare it.          *)
SentHead_Newest == pr.head
SentHead == call.head
Accepts  == CanMerge([pr EXCEPT !.blocked = FALSE]) /\ SentHead = pr.head
Accepted == [pr EXCEPT !.pending = TRUE, !.merging = SentHead,
                       !.ms = IF @ \in Failed THEN "queued" ELSE @]

CompletionPatch ==
    /\ At("merge", "patch")
    /\ IF ~Accepts THEN Raise("refused") /\ Silent
       ELSE \/ /\ pr' = Accepted
               /\ call' = [op |-> "merge", arg |-> call.arg, polls |-> 0,
                           pc |-> IF call.arg.light THEN "status" ELSE "poll"]
               /\ UNCHANGED <<provider, notes, result, bounds, history>>
            \/ Lost({pr, Accepted})

IsMergeSettled(p) == p.ms \in Failed \/ Completed(p)

(* merge_pr's reading of the last payload, full and light.                 *)
Outcome(p) ==
    IF p.ms \in Failed THEN Raise(p.ms)
    ELSE IF call.arg.light
    THEN Return([NoResult EXCEPT !.status = p.st,
                     !.merged = IF Completed(p) THEN "yes" ELSE "unknown"])
    ELSE IF p.ms = "queued" THEN Raise("in progress")
    ELSE Return(Reported(p))

(* The light call looks once more after the answer to its PATCH.           *)
StatusRead ==
    /\ At("merge", "status")
    /\ \/ Outcome(pr) /\ Silent
       \/ Lost({pr})

(* _wait_for_merge_settle: sleep, read, until settled or out of delays.    *)
SettlePoll ==
    /\ At("merge", "poll")
    /\ \/ /\ IF IsMergeSettled(pr) \/ call.polls + 1 = MaxPolls
             THEN Outcome(pr)
             ELSE call' = [call EXCEPT !.polls = @ + 1] /\ UNCHANGED result
          /\ Silent
       \/ Lost({pr})

MergeNext ==
    \/ Begin("merge") \/ MergeStart \/ Preflight \/ MergePut \/ Probe \/ Refetch
    \/ Handshake \/ CompletionPatch \/ StatusRead \/ SettlePoll

(* A call that reports a merge, or refuses because there has been one,     *)
(* speaks of a pull request that is merged.                                *)
ReportedMergesHappened ==
    (/\ result.op = "merge"
     /\ \/ result.error = AlreadyMerged
        \/ result.ok /\ result.merged = "yes") => pr.st = "merged"

(* On Azure DevOps a completion merges the commit the call had read: a     *)
(* push in between refuses it.  Neither of the others sends its commit.    *)
MergesWhatItRead == [][
    provider = "azure" /\ pr'.pending /\ ~pr.pending =>
        pr.head = call.head /\ pr'.merging = call.head]_vars
=============================================================================
