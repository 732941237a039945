------------------------------ MODULE Verdict ------------------------------
(***************************************************************************)
(* submit_pr_review of GitLab and Azure DevOps, and what get_pr and        *)
(* list_pr_reviews of all three make of the reviews on the server.         *)
(* GitLab has approvals and notes marked with a review state; Azure DevOps *)
(* has one vote per reviewer and review-body threads; GitHub has submitted *)
(* reviews (submitting them is ReviewDraft's).                             *)
(***************************************************************************)
EXTENDS PullState

VerdictCall(state, body) == [op |-> "verdict", state |-> state, body |-> body]

VerdictCalls == [op : {"verdict"}, state : Acts, body : BOOLEAN]
Judging == [op : {"verdict"}, arg : VerdictCalls,
            pc : {"start", "vote", "note", "whoami"}]

NoBody == 0
Newest(S) == IF S = {} THEN NoBody ELSE CHOOSE i \in S : \A j \in S : j <= i
By(u)     == {i \in DOMAIN notes : notes[i].by = u}
Latest(u) == Newest(By(u))

-----------------------------------------------------------------------------
(* Reading reviews back.  A note stands for its own id, body and time.     *)

Review(id, state, by, body) == [id |-> id, state |-> state, by |-> by, body |-> body]

(* _reviews_from_notes and _reviews_from_approvals, joined by              *)
(* _merge_reviews without removing what looks like a duplicate.            *)
MarkedNotes == DOMAIN notes         \* every page is read
NoteId(i) == <<"note", "", i>>
UserId(u) == <<"user", u, NoBody>>
Approvers == {u \in Users : pr.votes[u] = "approve"}

(* What GET approvals, which only GitLab has, may answer: 403 or 404, or   *)
(* that no approvals are required, or not all that are, or all are given.  *)
Gates == {"unreadable", "none", "unmet"} \cup IF Approvers = {} THEN {} ELSE {"met"}

GitLabReviews(gate) ==
    {Review(NoteId(i), notes[i].state, notes[i].by, i) : i \in MarkedNotes}
    \cup {Review(UserId(u), "approve", u, NoBody) :
             u \in IF gate = "unreadable" THEN {} ELSE Approvers}

(* _review_from_reviewer: a vote of 0 is a review only with a body.  The   *)
(* body is the reviewer's newest thread, whichever vote it came with.      *)
NewestThread_Oldest(u) ==
    IF By(u) = {} THEN NoBody ELSE CHOOSE i \in By(u) : \A j \in By(u) : i <= j
NewestThread(u) == Latest(u)
ReviewId(u, vote, thread) == <<u, vote, thread>>
VoteState(u) ==
    IF pr.votes[u] \notin {"asked", "comment"} THEN pr.votes[u]
    ELSE IF NewestThread(u) # NoBody THEN "comment" ELSE "absent"
Reviewers == {u \in Users : pr.votes[u] # "absent" /\ VoteState(u) # "absent"}
AzureReviews ==
    {Review(ReviewId(u, pr.votes[u], NewestThread(u)), VoteState(u), u,
            NewestThread(u)) : u \in Reviewers}

(* _latest_reviews_by_author                                               *)
GitHubStates_All == {notes[i].state : i \in DOMAIN notes}
GitHubStates == {notes[Latest(u)].state : u \in {u \in Users : Latest(u) # NoBody}}

ReviewDecision(states) ==
    IF "request_changes" \in states THEN "CHANGES_REQUESTED"
    ELSE IF "approve" \in states THEN "APPROVED" ELSE "none"

(* What _map_mr decides from the approvals alone, with a gate or without.  *)
GateDecision(gate) ==
    CASE gate = "unreadable" -> "none"
      [] gate = "none"       -> IF Approvers = {} THEN "none" ELSE "APPROVED"
      [] gate = "unmet"      -> "REVIEW_REQUIRED"
      [] gate = "met"        -> "APPROVED"

(* _decision_with_marker_override: the last marked stance of each author,  *)
(* approve if the author is an approver now; else, and whenever it cannot  *)
(* be read who approves, what approvals say.                               *)
Stances(u) == {i \in MarkedNotes :
                 notes[i].by = u /\ notes[i].state \in {"approve", "request_changes"}}
Marked(u) == IF Stances(u) = {} THEN "absent"
             ELSE notes[Newest(Stances(u))].state
GitLabDecision(gate) ==
    IF gate # "unreadable" /\ \E u \in Users \ Approvers : Marked(u) = "request_changes"
    THEN "CHANGES_REQUESTED"
    ELSE GateDecision(gate)

GitHubDecision == ReviewDecision(GitHubStates)
AzureDecision  == ReviewDecision({VoteState(u) : u \in Reviewers})

Decision(gate) == CASE provider = "github" -> GitHubDecision
                    [] provider = "gitlab" -> GitLabDecision(gate)
                    [] provider = "azure"  -> AzureDecision
Reviews(gate) == CASE provider = "gitlab" -> GitLabReviews(gate)
                   [] provider = "azure"  -> AzureReviews
                   [] provider = "github" -> {}

-----------------------------------------------------------------------------
(* Submitting one.                                                         *)

State   == call.arg.state
HasBody == call.arg.body

(* GitLab wants a body for everything but an approval.  Azure DevOps asks  *)
(* who the token's account is first.                                       *)
VerdictStart ==
    /\ At("verdict", "start")
    /\ \/ /\ IF provider = "gitlab" /\ State # "approve" /\ ~HasBody
             THEN Raise("body")
             ELSE /\ UNCHANGED result
                  /\ Goto(IF provider = "gitlab" /\ State = "comment"
                          THEN "note" ELSE "vote")
          /\ UNCHANGED <<provider, server, bounds, history>>
       \/ provider = "azure" /\ Lost({pr})

(* POST approve, POST unapprove (404 and 409 are fine), PUT the vote.      *)
NewVote_KeepsApproval == IF provider = "gitlab" /\ pr.votes[Me] = "approve"
                         THEN "approve" ELSE State
NewVote == IF provider = "gitlab" /\ State = "request_changes" THEN "absent"
           ELSE State
Voted == [pr EXCEPT !.votes[Me] = NewVote]

Judged(act) == stance' = [stance EXCEPT ![Me] = act]

(* Azure DevOps takes no vote on a pull request that is completed.         *)
CastVote ==
    /\ At("verdict", "vote")
    /\ IF provider = "azure" /\ pr.st # "open"
       THEN Raise("completed") /\ UNCHANGED <<provider, server, bounds, history>>
       ELSE \/ /\ pr' = Voted
               /\ Judged(NewVote)
               /\ IF HasBody THEN Goto("note") /\ UNCHANGED result
                  ELSE IF provider = "gitlab"
                       THEN Goto("whoami") /\ UNCHANGED result
                       ELSE Return([NoResult EXCEPT !.review =
                              Review(ReviewId(Me, State, NoBody), State, Me, NoBody)])
               /\ UNCHANGED <<provider, notes, bounds, alone>>
            \/ /\ faults < MaxFaults
               /\ faults' = faults + 1
               /\ \/ UNCHANGED <<pr, stance>>
                  \/ pr' = Voted /\ Judged(NewVote)
               /\ Raise("transport")
               /\ UNCHANGED <<provider, notes, calls, events, alone>>

(* A GitLab approval without a body has no note: GET /user names its id.   *)
WhoAmI ==
    /\ At("verdict", "whoami")
    /\ \/ /\ Return([NoResult EXCEPT !.review = Review(UserId(Me), "approve", Me, NoBody)])
          /\ UNCHANGED <<provider, server, bounds, history>>
       \/ Lost({pr})

(* The marked note, or the review-body thread, and the review made of it.  *)
Posted   == Append(notes, [by |-> Me, state |-> State])
Given(k) == [NoResult EXCEPT !.review =
                IF provider = "gitlab" THEN Review(NoteId(k), State, Me, k)
                ELSE Review(ReviewId(Me, State, k), State, Me, k)]

PostNote ==
    /\ At("verdict", "note")
    /\ \/ /\ notes' = Posted
          /\ IF State = "comment" THEN UNCHANGED stance ELSE Judged(State)
          /\ Return(Given(Len(Posted)))
          /\ UNCHANGED <<provider, pr, bounds, alone>>
       \/ /\ faults < MaxFaults
          /\ faults' = faults + 1
          /\ \/ UNCHANGED <<notes, stance>>
             \/ /\ notes' = Posted
                /\ IF State = "comment" THEN UNCHANGED stance ELSE Judged(State)
          /\ Raise("transport")
          /\ UNCHANGED <<provider, pr, calls, events, alone>>

VerdictNext ==
    \/ provider # "github" /\ Begin("verdict")
    \/ VerdictStart \/ CastVote \/ WhoAmI \/ PostNote

(* GitLab's approvals may be closed to the token.  Who approves is then    *)
(* not known, and neither a change request nor an approval is shown.       *)
Blind(gate) == provider = "gitlab" /\ gate = "unreadable"

(* A change request is not lost on the reader who can read approvals:      *)
(* while somebody's last act as a reviewer is to request changes, the      *)
(* decision says so (a GitLab comment is no such act; on GitHub and Azure  *)
(* DevOps it takes the request back), whatever approvals are required and  *)
(* whatever calls failed half way.                                         *)
RequestedChangesShow ==
    (\E u \in Users : stance[u] = "request_changes")
        => \A gate \in Gates : Decision(gate) = "CHANGES_REQUESTED" \/ Blind(gate)

(* And an approval is reported only while somebody's last act is one.      *)
ApprovalsAreCurrent ==
    (\E gate \in Gates : Decision(gate) = "APPROVED")
        => \E u \in Users : stance[u] = "approve"

(* The review a call returns is, if nobody else has acted, the one         *)
(* list_pr_reviews gives: same id, state, author and body.  A vote without *)
(* a body is not promised on Azure DevOps, nor an approval without one     *)
(* where approvals cannot be read.                                         *)
ReadsBackWithBody ==
    result.op = "verdict" /\ result.ok /\ alone =>
        \A gate \in Gates :
            \/ result.review \in Reviews(gate)
            \/ (provider = "azure" \/ Blind(gate)) /\ ~result.arg.body
=============================================================================
