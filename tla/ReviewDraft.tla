----------------------------- MODULE ReviewDraft -----------------------------
(***************************************************************************)
(* Inline comments and reviews of a GitHub pull request, by callers that   *)
(* share one account.  GitHub keeps at most one PENDING review per account *)
(* (the draft); add_pr_review_comment finds it or creates it, attaches to  *)
(* it, and cleans up a draft it created in vain; submit_pr_review          *)
(* publishes it.  Each of these is a request of its own, and a request     *)
(* whose caller gave up may still take effect.                             *)
(***************************************************************************)
EXTENDS Naturals, Sequences, FiniteSets

CONSTANTS
    Callers,
    Commits,
    NoCommit,       \* commit_sha=None
    MaxReviews,     \* bound on reviews the server creates
    MaxCalls,       \* bound on calls altogether
    MaxLate         \* bound on abandoned requests under way at a time

VARIABLES
    reviews,    \* server: the account's reviews, oldest first
    head,       \* server: the pull request's head commit
    late,       \* server: writes nobody waits for any more
    pc, req,    \* caller: where it is, its arguments
    calls,      \* bound: number of calls so far
    turn,       \* caller: number of its call
    draft,      \* caller: index of `pending`, or 0
    created,    \* caller: created_review
    known,      \* history, per caller: comments returned before its call
    returned,   \* history: comments whose call returned
    gapped,     \* history: comments that landed in a draft found empty
    excused     \* history: drafts an unanswered create or a failed cleanup left

locals == <<req, calls, turn, known>>
vars == <<reviews, head, late, pc, draft, created, locals, returned, gapped,
          excused>>

ASSUME DraftConstants ==
    /\ NoCommit \notin Commits /\ Commits # {}
    /\ MaxReviews \in Nat /\ MaxCalls \in Nat /\ MaxLate \in Nat

Wanted   == Commits \cup {NoCommit}
Requests == [kind : {"thread"}, commit : Commits]
            \cup [kind : {"submit"}, commit : Wanted]
            \cup [kind : {"reply"}, commit : {NoCommit}]
Comments == [call : Nat, asked : Wanted]
Reviews  == [status : {"pending", "submitted", "deleted"}, commit : Commits,
             comments : SUBSET Comments, maker : Callers,
             remover : SUBSET Callers]
Writes   == [kind : {"create", "publish", "attach", "submit", "delete"},
             by : Callers, review : Nat, commit : Wanted,
             comments : SUBSET Comments]
Over     == {"idle", "ok", "raised"}
PCs      == Over \cup {"find", "anchor", "create", "confirm", "attach",
                       "submit", "verify", "delete"}
-----------------------------------------------------------------------------
(* What GitHub does with a write.                                          *)

Pending == {r \in DOMAIN reviews : reviews[r].status = "pending"}

Accepts(w) ==
    IF w.kind \in {"create", "publish"}
    THEN Pending = {} /\ Len(reviews) < MaxReviews
    ELSE w.review \in Pending

NewReview(w) ==
    [status   |-> IF w.kind = "create" THEN "pending" ELSE "submitted",
     commit   |-> IF w.commit = NoCommit THEN head ELSE w.commit,
     comments |-> w.comments, maker |-> w.by, remover |-> {}]

Applied(w) ==
    CASE w.kind \in {"create", "publish"} -> Append(reviews, NewReview(w))
      [] w.kind = "attach" -> [reviews EXCEPT ![w.review].comments = @ \cup w.comments]
      [] w.kind = "submit" -> [reviews EXCEPT ![w.review].status = "submitted"]
      [] w.kind = "delete" -> [reviews EXCEPT ![w.review].status = "deleted",
                                              ![w.review].remover = {w.by}]

(* Drafts somebody has found empty and is about to delete.                 *)
Condemned == {draft[c] : c \in {c \in Callers : pc[c] = "delete"}}
             \cup {w.review : w \in {w \in late : w.kind = "delete"}}

Lands(w) ==
    /\ Accepts(w)
    /\ reviews' = Applied(w)
    /\ gapped' = IF w.kind = "attach" /\ w.review \in Condemned
                 THEN gapped \cup w.comments ELSE gapped

(* Nobody who waits for the answer will clean up after a bare create.      *)
Abandoned(w) ==
    IF w.kind = "create" /\ w.comments = {} THEN {Len(reviews) + 1}
    ELSE IF w.kind = "delete" THEN {w.review} ELSE {}
-----------------------------------------------------------------------------
Init ==
    /\ reviews = <<>> /\ head \in Commits /\ late = {}
    /\ pc = [c \in Callers |-> "idle"]
    /\ req = [c \in Callers |-> [kind |-> "submit", commit |-> NoCommit]]
    /\ calls = 0 /\ turn = [c \in Callers |-> 0]
    /\ draft = [c \in Callers |-> 0]
    /\ created = [c \in Callers |-> FALSE]
    /\ known = [c \in Callers |-> {}]
    /\ returned = {} /\ gapped = {} /\ excused = {}

Comment(c) == [call |-> turn[c], asked |-> req[c].commit]

Begin(c) ==
    /\ pc[c] \in Over /\ calls < MaxCalls
    /\ \E r \in Requests : req' = [req EXCEPT ![c] = r]
    /\ calls' = calls + 1 /\ turn' = [turn EXCEPT ![c] = calls + 1]
    /\ known' = [known EXCEPT ![c] = returned]
    /\ pc' = [pc EXCEPT ![c] = "find"]
    /\ draft' = [draft EXCEPT ![c] = 0]
    /\ created' = [created EXCEPT ![c] = FALSE]
    /\ UNCHANGED <<reviews, head, late, returned, gapped, excused>>

(* The draft to go on with, and the step that does so.  A commit that is   *)
(* not the draft's own is refused.                                         *)
Mixes_Never(c, r) == FALSE
Mixes(c, r) == req[c].commit # NoCommit /\ req[c].commit # reviews[r].commit

Forward(c, r) ==
    IF req[c].kind = "reply" THEN "anchor"
    ELSE IF r # 0 /\ Mixes(c, r) THEN "raised"
    ELSE IF req[c].kind = "submit" THEN "submit"
    ELSE IF r = 0 THEN "create" ELSE "attach"

(* _find_pending_review                                                    *)
Find(c) ==
    /\ pc[c] = "find"
    /\ \E r \in IF Pending = {} THEN {0} ELSE Pending :
         /\ draft' = [draft EXCEPT ![c] = r]
         /\ pc' = [pc EXCEPT ![c] = Forward(c, r)]
    /\ UNCHANGED <<reviews, head, late, created, locals, returned, gapped,
                   excused>>

(* _review_thread_anchor_node_id, before anything is created               *)
Anchor(c) ==
    /\ pc[c] = "anchor"
    /\ pc' = [pc EXCEPT ![c] = IF draft[c] = 0 THEN "create" ELSE "attach"]
    /\ UNCHANGED <<reviews, head, late, draft, created, locals, returned,
                   gapped, excused>>

(* A read of the call fails, and with it the call.                         *)
ReadFails(c) ==
    /\ pc[c] \in {"find", "anchor", "confirm"}
    /\ pc' = [pc EXCEPT ![c] = "raised"]
    /\ UNCHANGED <<reviews, head, late, draft, created, locals, returned,
                   gapped, excused>>

(* The write of each step: a new thread's draft is created with its        *)
(* comment, a reply's without one.                                         *)
WriteOf(c) ==
    [kind |-> IF pc[c] = "submit" /\ draft[c] = 0 THEN "publish" ELSE pc[c],
     by |-> c, review |-> draft[c], commit |-> req[c].commit,
     comments |-> IF \/ pc[c] = "attach"
                     \/ pc[c] = "create" /\ req[c].kind = "thread"
                  THEN {Comment(c)} ELSE {}]

AfterWrite(c) ==
    CASE pc[c] = "create" -> IF req[c].kind = "thread" THEN "confirm" ELSE "attach"
      [] pc[c] = "delete" -> "raised"
      [] OTHER -> "ok"

(* Any failure to attach a reply sends the maker of the draft to clean up. *)
Cleans_Never(c) == FALSE
Cleans(c) == pc[c] = "attach" /\ req[c].kind = "reply" /\ created[c]

(* A mutation may be answered with neither errors nor a payload; only a    *)
(* payload counts as success.                                              *)
Succeeded_OnNull(answer) == answer \in {"payload", "null"}
Succeeded(answer) == answer = "payload"

Write(c) ==
    /\ pc[c] \in {"create", "attach", "submit", "delete"}
    /\ LET w == WriteOf(c) IN
       /\ Lands(w)
       /\ pc' = [pc EXCEPT ![c] = AfterWrite(c)]
       /\ draft' = [draft EXCEPT ![c] =
                      IF w.kind \in {"create", "publish"} THEN Len(reviews) + 1
                                                          ELSE @]
       /\ created' = [created EXCEPT ![c] = @ \/ w.kind = "create"]
       /\ returned' = IF AfterWrite(c) = "ok" THEN returned \cup w.comments
                                              ELSE returned
    /\ UNCHANGED <<head, late, locals, excused>>

(* The caller gets an error, or a mutation without a payload: the write    *)
(* was refused or lost, took effect all the same, or will do so later.     *)
Answers(c) == {"error"} \cup (IF pc[c] = "attach" THEN {"null"} ELSE {})

WriteFails(c) ==
    /\ pc[c] \in {"create", "attach", "submit", "delete"}
    /\ LET w == WriteOf(c) IN
       \E answer \in Answers(c) :
       /\ \/ Lands(w) /\ UNCHANGED late
          \/ UNCHANGED <<reviews, gapped, late>>
          \/ /\ Cardinality(late) < MaxLate
             /\ late' = late \cup {w}
             /\ UNCHANGED <<reviews, gapped>>
       /\ excused' = excused \cup (IF w.kind = "create" /\ reviews' = reviews
                                   THEN {} ELSE Abandoned(w))
       /\ pc' = [pc EXCEPT ![c] = IF Succeeded(answer) THEN "ok"
                                  ELSE IF Cleans(c) THEN "verify" ELSE "raised"]
       /\ returned' = IF Succeeded(answer) THEN returned \cup w.comments ELSE returned
    /\ UNCHANGED <<head, draft, created, locals>>

(* _latest_pending_review_comment: found, missing or empty, the call       *)
(* returns.                                                                *)
Confirm(c) ==
    /\ pc[c] = "confirm"
    /\ pc' = [pc EXCEPT ![c] = "ok"]
    /\ returned' = returned \cup {Comment(c)}
    /\ UNCHANGED <<reviews, head, late, draft, created, locals, gapped, excused>>

(* _cleanup_orphaned_pending_review: delete only what is still empty; a    *)
(* check that fails, as one on a draft that is gone does, deletes nothing. *)
StillEmpty_Unchecked(r) == TRUE
StillEmpty(r) == reviews[r].comments = {}

Verify(c) ==
    /\ pc[c] = "verify"
    /\ reviews[draft[c]].status # "deleted"
    /\ pc' = [pc EXCEPT ![c] =
                IF StillEmpty(draft[c]) THEN "delete" ELSE "raised"]
    /\ UNCHANGED <<reviews, head, late, draft, created, locals, returned,
                   gapped, excused>>

VerifyFails(c) ==
    /\ pc[c] = "verify"
    /\ pc' = [pc EXCEPT ![c] = "raised"]
    /\ excused' = excused \cup {draft[c]}
    /\ UNCHANGED <<reviews, head, late, draft, created, locals, returned, gapped>>

(* An abandoned write takes effect after all, or never.                    *)
LandsLate(w) ==
    /\ \/ Lands(w) /\ excused' = excused \cup Abandoned(w)
       \/ UNCHANGED <<reviews, gapped, excused>>
    /\ late' = late \ {w}
    /\ UNCHANGED <<head, pc, draft, created, locals, returned>>

Push ==
    /\ \E k \in Commits : k # head /\ head' = k
    /\ UNCHANGED <<reviews, late, pc, draft, created, locals, returned, gapped,
                   excused>>

Next ==
    \/ Push \/ \E w \in late : LandsLate(w)
    \/ \E c \in Callers :
         \/ Begin(c) \/ Find(c) \/ Anchor(c) \/ ReadFails(c)
         \/ Write(c) \/ WriteFails(c) \/ Confirm(c)
         \/ Verify(c) \/ VerifyFails(c)

Spec == Init /\ [][Next]_vars
-----------------------------------------------------------------------------
TypeOK ==
    /\ reviews \in Seq(Reviews) /\ head \in Commits /\ late \subseteq Writes
    /\ pc \in [Callers -> PCs] /\ req \in [Callers -> Requests]
    /\ calls \in Nat /\ turn \in [Callers -> Nat] /\ draft \in [Callers -> Nat]
    /\ created \in [Callers -> BOOLEAN]
    /\ known \in [Callers -> SUBSET Comments]
    /\ returned \subseteq Comments /\ gapped \subseteq Comments
    /\ excused \subseteq Nat

(* Whatever happens between finding a draft and writing to it, a comment   *)
(* stands on the commit it was made for, and a review that was submitted   *)
(* for a commit is a review of that commit.                                *)
CommitsKept ==
    /\ \A r \in DOMAIN reviews : \A x \in reviews[r].comments :
         x.asked \in {NoCommit, reviews[r].commit}
    /\ \A c \in Callers :
         pc[c] = "ok" /\ req[c].kind = "submit" /\ req[c].commit # NoCommit =>
           reviews[draft[c]].commit = req[c].commit

(* When submit_pr_review returns, every comment whose call had returned    *)
(* before is in a submitted review (or fell to a cleanup): none is left in *)
(* a draft nobody will submit.                                             *)
SubmitPublishes ==
    \A c \in Callers : pc[c] = "ok" /\ req[c].kind = "submit" =>
      \A x \in known[c] : \E r \in DOMAIN reviews :
        x \in reviews[r].comments /\ reviews[r].status # "pending"

(* add_pr_review_comment leaves no empty draft behind, unless the create   *)
(* was not answered or its own cleanup failed: every other empty draft     *)
(* belongs to a call that is about to fill or delete it.                   *)
NoOrphan ==
    \A r \in Pending : reviews[r].comments = {} =>
      \/ r \in excused
      \/ \E c \in Callers : /\ draft[c] = r /\ created[c]
                            /\ pc[c] \in {"attach", "verify", "delete"}

(* A draft is deleted only by the call that created it, and what it takes  *)
(* with it landed after the check that found it empty.                     *)
CleanupIsCareful ==
    \A r \in DOMAIN reviews : reviews[r].status = "deleted" =>
      /\ reviews[r].remover = {reviews[r].maker}
      /\ reviews[r].comments \subseteq gapped
=============================================================================
