----------------------------- MODULE PullState -----------------------------
(***************************************************************************)
(* One pull request on its server, everybody else who works on it, and the *)
(* one call this library is making.  UpdatePull, MergePull and Verdict add *)
(* the calls; PullRequest puts them together.                              *)
(***************************************************************************)
EXTENDS Naturals, Sequences, FiniteSets

CONSTANTS
    Providers,
    Me, Others,     \* the account of the token, and other people
    Names,          \* titles and labels
    Requests,       \* the calls that are made
    MaxCalls,       \* bound on the calls of this library
    MaxEvents,      \* bound on what other people do
    MaxFaults,      \* bound on requests that fail
    MaxPolls        \* length of _MERGE_SETTLE_DELAYS_MS

VARIABLES
    provider,
    pr,             \* server: the pull request
    notes,          \* server: marked notes (GitLab), review-body threads
                    \*   (Azure DevOps), submitted reviews (GitHub)
    call,           \* the call in flight
    result,         \* what the last call returned or raised
    calls, events, faults,
    stance,         \* history: the last act of each person as a reviewer
    alone           \* history: nobody else has acted during this call

server  == <<pr, notes>>
bounds  == <<calls, events, faults>>
history == <<stance, alone>>
vars == <<provider, server, call, result, bounds, history>>

Users   == {Me} \cup Others
Acts    == {"approve", "request_changes", "comment"}
Votes   == Acts \cup {"absent", "asked"}
Failed  == {"conflicts", "rejectedByPolicy", "failure"}
Keep    == {}           \* an argument left out; {x} is the argument x

ASSUME PullConstants ==
    /\ Providers \subseteq {"github", "gitlab", "azure"}
    /\ Me \notin Others
    /\ {"old", "theirs", "mod"} \subseteq Names
    /\ {MaxCalls, MaxEvents, MaxFaults} \subseteq Nat
    /\ MaxPolls \in Nat \ {0}

Idle == [op |-> "none", pc |-> "idle"]

Pulls == [st : {"open", "closed", "merged"}, draft : BOOLEAN, title : Names,
          head : Nat, blocked : BOOLEAN, reviewers : SUBSET Users,
          labels : SUBSET Names, votes : [Users -> Votes],
          ms : {"succeeded", "queued"} \cup Failed,
          pending : BOOLEAN, merging : Nat]

Notes == Seq([by : Users, state : Acts])

(* What a call gives back: the pull request it reports (ref is whether it  *)
(* is this one), or the review it reports.                                 *)
NoResult == [op |-> "none", arg |-> "none", ok |-> FALSE, error |-> "none",
             status |-> "unknown", merged |-> "unknown", ref |-> TRUE,
             review |-> "none"]

(* What matters of a pull request.  st is GitHub's state and merged flag,  *)
(* GitLab's state, Azure DevOps' status; ms is Azure DevOps' mergeStatus,  *)
(* pending an accepted completion.                                         *)
NewPull == [st |-> "open", draft |-> FALSE, title |-> "old", head |-> 0,
            blocked |-> FALSE, reviewers |-> {}, labels |-> {},
            votes |-> [u \in Users |-> "absent"], ms |-> "succeeded",
            pending |-> FALSE, merging |-> 0]

Init ==
    /\ provider \in Providers
    /\ pr = NewPull
    /\ notes = <<>>
    /\ call = Idle
    /\ result = NoResult
    /\ calls = 0 /\ events = 0 /\ faults = 0
    /\ stance = [u \in Users |-> "absent"]
    /\ alone = TRUE

(* What the three mappers make of the payload of a pull request.           *)
Status(p)     == p.st
MergedFlag(p) == IF Status(p) = "merged" THEN "yes" ELSE "no"
Reported(p)   == [NoResult EXCEPT !.status = Status(p), !.merged = MergedFlag(p)]

-----------------------------------------------------------------------------
(* The steps of a call.                                                    *)

At(op, pc) == call.op = op /\ call.pc = pc

Begin(op) ==
    /\ call.op = "none" /\ calls < MaxCalls
    /\ \E r \in Requests :
         /\ r.op = op
         /\ call' = [op |-> op, pc |-> "start", arg |-> r]
    /\ result' = NoResult
    /\ calls' = calls + 1
    /\ alone' = TRUE
    /\ UNCHANGED <<provider, server, events, faults, stance>>

Goto(pc) == call' = [call EXCEPT !.pc = pc]

End(answer) ==
    /\ call' = Idle
    /\ result' = [answer EXCEPT !.op = call.op, !.arg = call.arg]

Return(answer) == End([answer EXCEPT !.ok = TRUE])
Raise(error)   == End([NoResult EXCEPT !.error = error])

(* A request that fails on the way: the server may have done it or not.    *)
Lost(pulls) ==
    /\ faults < MaxFaults
    /\ faults' = faults + 1
    /\ pr' \in pulls
    /\ Raise("transport")
    /\ UNCHANGED <<provider, notes, calls, events, history>>

-----------------------------------------------------------------------------
(* Everybody else.  Acts of the token's own account outside this library   *)
(* happen between its calls.                                               *)

Other(change) ==
    /\ events < MaxEvents
    /\ events' = events + 1
    /\ alone' = FALSE
    /\ change
    /\ UNCHANGED <<provider, call, result, calls, faults>>

Push == Other(/\ pr.st = "open" /\ ~pr.pending
              /\ pr' = [pr EXCEPT !.head = @ + 1]
              /\ UNCHANGED <<notes, stance>>)

Toggle == Other(\E b \in {[pr EXCEPT !.blocked = ~@], [pr EXCEPT !.draft = ~@]} :
                  /\ pr.st = "open" /\ ~pr.pending
                  /\ pr' = b /\ UNCHANGED <<notes, stance>>)

Rename == Other(\E p \in {[pr EXCEPT !.title = "theirs"],
                          [pr EXCEPT !.reviewers = @ \cup Others]} :
                  /\ p # pr /\ pr' = p /\ UNCHANGED <<notes, stance>>)

Finish == Other(\E st \in {"merged", "closed"} :
                  /\ pr.st = "open" /\ ~pr.pending
                  /\ st = "merged" => ~pr.blocked /\ ~pr.draft
                  /\ pr' = [pr EXCEPT !.st = st, !.merging = pr.head,
                                        !.ms = "succeeded"]
                  /\ UNCHANGED <<notes, stance>>)

(* A review by somebody: on GitLab an approval or its revocation, or a     *)
(* marked note of another user of this library, on Azure DevOps a vote, on *)
(* GitHub a submitted review.                                              *)
Vote(u, a) == [pr EXCEPT !.votes = [@ EXCEPT ![u] = a]]
Note(u, a) == Append(notes, [by |-> u, state |-> a])

Act == Other(\E u \in Users, a \in Votes \ {"asked"} :
         /\ u = Me => call.op = "none"
         /\ stance' = [stance EXCEPT ![u] = a]
         /\ CASE provider = "github" ->
                   a \in Acts /\ notes' = Note(u, a) /\ UNCHANGED pr
              [] provider = "azure" ->
                   a \in Acts /\ pr' = Vote(u, a) /\ UNCHANGED notes
              [] provider = "gitlab" ->
                   \/ /\ a = IF pr.votes[u] = "approve" THEN "absent" ELSE "approve"
                      /\ pr' = Vote(u, a) /\ UNCHANGED notes
                   \/ /\ a = "request_changes" /\ u # Me
                      /\ pr' = Vote(u, "absent") /\ notes' = Note(u, a))

(* Azure DevOps works off an accepted completion: mergeStatus may read     *)
(* queued first, and succeeded before status reads completed.              *)
Settle ==
    /\ pr.pending
    /\ \/ /\ pr.ms # "queued"
          /\ pr' = [pr EXCEPT !.ms = "queued"]
       \/ /\ pr.ms = "queued"
          /\ pr' = [pr EXCEPT !.ms = "succeeded"]
       \/ pr' = [pr EXCEPT !.ms = "succeeded", !.st = "merged",
                           !.pending = FALSE]
       \/ \E f \in Failed :
            pr' = [pr EXCEPT !.ms = f, !.pending = FALSE]
    /\ UNCHANGED <<provider, notes, call, result, bounds, history>>

Environment == Push \/ Toggle \/ Rename \/ Finish \/ Act \/ Settle
=============================================================================
