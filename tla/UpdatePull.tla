----------------------------- MODULE UpdatePull -----------------------------
(***************************************************************************)
(* update_pr.  All three providers read the pull request first and write   *)
(* what follows from that snapshot and the arguments; nothing is rolled    *)
(* back.  GitLab sends one PUT.  GitHub and Azure DevOps send a PATCH and  *)
(* then a request per list.  The lists have at most one element here, and  *)
(* assignees, which GitHub writes as it writes reviewers, are left out.    *)
(***************************************************************************)
EXTENDS PullState

NoChange == [op |-> "update", title |-> Keep, status |-> Keep, draft |-> Keep,
             labels |-> {}, unlabel |-> {}, join |-> {}, leave |-> {},
             light |-> FALSE]

UpdateCalls == [op : {"update"}, title : SUBSET Names,
                status : SUBSET {"open", "closed"}, draft : SUBSET BOOLEAN,
                labels : SUBSET Names, unlabel : SUBSET Names,
                join : SUBSET Users, leave : SUBSET Users, light : BOOLEAN]

(* The requests a provider's update is made of.                            *)
Writes == CASE provider = "github" -> {"patch", "labels", "join", "leave", "draft", "reload"}
            [] provider = "gitlab" -> {"put"}
            [] provider = "azure"  -> {"patch", "stamp", "labels", "unlabel", "join",
                                       "leave", "reload"}

Updating ==
    [op : {"update"}, pc : {"start"}, arg : UpdateCalls]
    \cup [op : {"update"}, pc : {"plan"}, arg : UpdateCalls, snap : Pulls]
    \cup [op : {"update"}, pc : {"write"}, arg : UpdateCalls, snap : Pulls,
          stamp : SUBSET {"mod"}, todo : Seq(Writes),
          resp : {"none", "pull", "reviewer", "nothing"}]

Arg  == call.arg
Snap == call.snap

Asked(old, value) == IF value = Keep THEN old ELSE CHOOSE x \in value : TRUE

(* What travels in the PATCH: GitHub takes the draft flag elsewhere.       *)
Patches(r) == \/ r.title # Keep \/ r.status # Keep
              \/ provider = "azure" /\ r.draft # Keep

(* The label stamped on a pull request this library did not create.        *)
Stamp == {"mod"} \ Snap.labels

Labelled(old, stamp) == ((old \cup Arg.labels) \ Arg.unlabel) \cup stamp

GitHubPlan(stamp) ==
    LET reload == IF Arg.light THEN <<>> ELSE <<"reload">>
    IN  (IF Patches(Arg) THEN <<"patch">> ELSE <<>>)
        \o (IF Labelled(Snap.labels, stamp) = Snap.labels
            THEN <<>> ELSE <<"labels">>)
        \o (IF Arg.join \cup Arg.leave = {}
            THEN <<>> ELSE <<"join", "leave">> \o reload)
        \o (IF Arg.draft = Keep THEN <<>> ELSE <<"draft">> \o reload)

GitLabPlan ==
    IF Patches(Arg) \/ Arg.draft # Keep \/ Arg.join \cup Arg.leave # {}
       \/ Arg.labels \cup Arg.unlabel \cup Stamp # {}
    THEN <<"put">> ELSE <<>>

AzurePlan ==
    (IF Patches(Arg) THEN <<"patch">> ELSE <<>>)
    \o (IF Stamp \ (Arg.labels \cup Arg.unlabel) = {} THEN <<>> ELSE <<"stamp">>)
    \o (IF Arg.labels = {} THEN <<>> ELSE <<"labels">>)
    \o (IF Arg.unlabel = {} THEN <<>> ELSE <<"unlabel">>)
    \o (IF Arg.join = {} THEN <<>> ELSE <<"join">>)
    \o (IF Arg.leave = {} THEN <<>> ELSE <<"leave">>)
    \o (IF Arg.light THEN <<>> ELSE <<"reload">>)

-----------------------------------------------------------------------------
(* What a write does to the pull request.                                  *)

Patch_Whole(p) == [p EXCEPT !.title = Asked(Snap.title, Arg.title),
                            !.st = Asked(@, Arg.status)]
Patch(p) == [p EXCEPT !.title = Asked(@, Arg.title), !.st = Asked(@, Arg.status),
                      !.draft = IF provider = "azure" THEN Asked(@, Arg.draft)
                                                      ELSE @]

(* A GitLab draft is a title that starts with "Draft: ".  A flip sends the *)
(* title that was read; a new title alone is sent as it is.                *)
Put(p) ==
    [p EXCEPT !.title = IF Arg.draft = Keep THEN Asked(@, Arg.title)
                                          ELSE Asked(Snap.title, Arg.title),
              !.draft = Asked(IF Arg.title = Keep THEN @ ELSE FALSE, Arg.draft),
              !.st = Asked(@, Arg.status),
              !.labels = (@ \cup Arg.labels \cup Stamp) \ Arg.unlabel,
              !.reviewers = IF Arg.join \cup Arg.leave = {} THEN @
                            ELSE (Snap.reviewers \cup Arg.join) \ Arg.leave]

(* GitHub sends the differences to the reviewers it knows of; Azure DevOps *)
(* casts a vote of 0 for a reviewer to add, whatever that person voted.    *)
Join(p) ==
    IF provider = "github"
    THEN [p EXCEPT !.reviewers = @ \cup ((Arg.join \ Arg.leave) \ Snap.reviewers)]
    ELSE [p EXCEPT !.votes = [u \in Users |-> IF u \in Arg.join THEN "asked"
                                                             ELSE p.votes[u]]]
Leave(p) ==
    IF provider = "github"
    THEN [p EXCEPT !.reviewers = @ \ (Arg.leave \cap Snap.reviewers)]
    ELSE [p EXCEPT !.votes = [u \in Users |-> IF u \in Arg.leave THEN "absent"
                                                              ELSE p.votes[u]]]

Effect(w) ==
    CASE w = "patch"  -> Patch(pr)
      [] w = "put"    -> Put(pr)
      [] w = "labels" -> [pr EXCEPT !.labels =
             IF provider = "github" THEN Labelled(Snap.labels, call.stamp)
                                    ELSE @ \cup Arg.labels]
      [] w = "unlabel" -> [pr EXCEPT !.labels = @ \ Arg.unlabel]
      [] w = "stamp"  -> [pr EXCEPT !.labels = @ \cup {"mod"}]
      [] w = "join"   -> Join(pr)
      [] w = "leave"  -> Leave(pr)
      [] w = "draft"  -> [pr EXCEPT !.draft = Asked(@, Arg.draft)]
      [] w = "reload" -> pr

(* A merged pull request takes no new state, on Azure DevOps no patch.     *)
Refused(w) == /\ w \in {"patch", "put"} /\ pr.st = "merged"
              /\ Arg.status # Keep \/ provider = "azure"

(* GitHub sends no request for an empty difference.                        *)
Skipped(w) ==
    /\ provider = "github"
    /\ \/ w = "draft" /\ Snap.draft \in Arg.draft
       \/ w = "join" /\ Arg.join \ Arg.leave \subseteq Snap.reviewers
       \/ w = "leave" /\ Arg.leave \cap Snap.reviewers = {}

(* What the call goes on to know, and which kind of answer resp holds.     *)
Known(w, new) ==
    IF w \in {"patch", "put", "reload"} THEN new
    ELSE IF provider = "github" /\ w = "labels"
         THEN [Snap EXCEPT !.labels = new.labels] ELSE Snap
Kind(w) ==
    CASE provider = "azure" /\ w = "patch" -> "pull"
      [] provider = "azure" /\ w = "join"  -> "reviewer"
      [] provider = "azure" /\ w = "leave" -> "nothing"
      [] OTHER -> call.resp

-----------------------------------------------------------------------------
UpdateRead ==
    /\ At("update", "start")
    /\ \/ /\ call' = [op |-> "update", pc |-> "plan", arg |-> Arg, snap |-> pr]
          /\ UNCHANGED <<provider, server, result, bounds, history>>
       \/ Lost({pr})

(* On GitHub, labels_add must exist and the stamp is tried first.          *)
UpdatePlan ==
    /\ At("update", "plan")
    /\ \/ \E stamp \in {{}, Stamp} :
            /\ provider # "github" => stamp = Stamp
            /\ call' = [op |-> "update", pc |-> "write", arg |-> Arg,
                        snap |-> Snap, stamp |-> stamp, resp |-> "none",
                        todo |-> CASE provider = "github" -> GitHubPlan(stamp)
                                   [] provider = "gitlab" -> GitLabPlan
                                   [] provider = "azure"  -> AzurePlan]
            /\ UNCHANGED result
       \/ provider = "github" /\ Arg.labels # {} /\ Raise("unknown label")
    /\ UNCHANGED <<provider, server, bounds, history>>

Written(w, new) ==
    call' = [call EXCEPT !.todo = Tail(@), !.snap = Known(w, new), !.resp = Kind(w)]

(* Azure DevOps forgets the vote of a reviewer who is added or removed.    *)
TakesBack == stance' = [u \in Users |->
    IF pr.votes[u] # "absent" /\ pr'.votes[u] \in {"asked", "absent"}
    THEN "absent" ELSE stance[u]]

UpdateWrite ==
    /\ At("update", "write") /\ call.todo # <<>>
    /\ LET w == Head(call.todo)
       IN  IF Skipped(w) \/ Refused(w)
           THEN /\ IF Refused(w) THEN Raise("refused")
                   ELSE Written(w, pr) /\ UNCHANGED result
                /\ UNCHANGED <<provider, server, bounds, history>>
           ELSE \/ /\ pr' = Effect(w)
                   /\ Written(w, pr')
                   /\ TakesBack
                   /\ UNCHANGED <<provider, notes, result, bounds, alone>>
                \/ /\ w = "stamp"       \* _add_pr_label_best_effort: 403, 404
                   /\ Written(w, pr)
                   /\ UNCHANGED <<provider, server, result, bounds, history>>
                \/ /\ faults < MaxFaults
                   /\ faults' = faults + 1
                   /\ \/ UNCHANGED <<pr, stance>>
                      \/ pr' = Effect(w) /\ TakesBack
                   /\ Raise("transport")
                   /\ UNCHANGED <<provider, notes, calls, events, alone>>

(* The answer: Azure DevOps' light one is made of whatever resp holds, the *)
(* answer to the last reviewer written if there is one.                    *)
UpdateEnd ==
    /\ At("update", "write") /\ call.todo = <<>>
    /\ IF Arg.light /\ provider = "azure" /\ Patches(Arg) /\ call.resp # "pull"
       THEN IF call.resp = "nothing" THEN Raise("json")
            ELSE Return([NoResult EXCEPT !.ref = FALSE, !.status = "closed",
                                         !.merged = "no"])
       ELSE IF Arg.light /\ provider = "github" /\ ~Patches(Arg)
       THEN Return(NoResult)
       ELSE Return(Reported(Snap))
    /\ UNCHANGED <<provider, server, bounds, history>>

UpdateNext ==
    Begin("update") \/ UpdateRead \/ UpdatePlan \/ UpdateWrite \/ UpdateEnd

(* The fields an update may overwrite with what it read, although the call *)
(* does not name them: those the provider has it send as a whole.          *)
Exposed == CASE provider = "github" -> {"labels"}
             [] provider = "gitlab" -> {"title", "draft", "reviewers"}
             [] provider = "azure"  -> {}

(* What others wrote outlives an update that does not name it, except the  *)
(* fields listed above: no update renames, redrafts, reopens or closes     *)
(* unasked, none drops another person's label or reviewer, and none        *)
(* touches a vote of somebody it does not add or remove as a reviewer.     *)
UpdateIsLocal == [][
    (call.op = "update" /\ events' = events /\ pr.pending = pr'.pending) =>
        /\ Arg.title # Keep \/ "title" \in Exposed \/ pr'.title = pr.title
        /\ Arg.draft # Keep \/ "draft" \in Exposed \/ pr'.draft = pr.draft
        /\ Arg.status # Keep \/ pr'.st = pr.st
        /\ "labels" \in Exposed \/ pr.labels \ pr'.labels \subseteq Arg.unlabel
        /\ "reviewers" \in Exposed \/ pr.reviewers \ pr'.reviewers \subseteq Arg.leave
        /\ \A u \in Users \ (Arg.join \cup Arg.leave) : pr'.votes[u] = pr.votes[u]
    ]_vars
=============================================================================
