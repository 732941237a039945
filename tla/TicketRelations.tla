--------------------------- MODULE TicketRelations ---------------------------
(***************************************************************************)
(* The relations of a ticket under this library: calls that add and remove *)
(* them, one after the other, among other people's changes.                *)
(***************************************************************************)
EXTENDS GitHubLinks, GitLabLinks, AzureLinks

Next == Begin \/ GitHubNext \/ GitLabNext \/ AzureNext \/ Environment

Spec == Init /\ [][Next]_vars

(* How a reader of the ticket names the relation a call of this kind adds. *)
Documented(k) ==
    IF provider = "gitlab" THEN k
    ELSE CASE k = "parent" -> "child" [] k = "child" -> "parent" [] OTHER -> k
Asked(r) == Rel(Documented(r.kind), r.to)

(* Phrases that the code takes for a marker of t although they are none,   *)
(* or that hide one: prose, longer numbers, earlier markers.               *)
Plain(t) == \A i \in DOMAIN body : body[i] = Line(t, TRUE)

(* Azure DevOps takes #12 for #1.                                          *)
LooksAlike(t, rs) == \E i \in DOMAIN rs : rs[i].to # t /\ StartsWith(rs[i].to, t)

(* Where a duplicate exists as text only, it reads back if the body says   *)
(* nothing else of duplicates.  GitLab's reader lists no children, and no  *)
(* relates_to of a ticket that the body calls the original.                *)
Readable(r) ==
    /\ r.kind = "duplicate_of" /\ provider # "azure" => Plain(r.to)
    /\ provider = "gitlab" /\ r.kind = "relates_to" => r.to \notin Names
    /\ provider = "azure" => ~LooksAlike(r.to, before[1])
    /\ ~(provider = "gitlab" /\ r.kind = "child")

(* If nobody else has acted, the ticket reads as the call left it: what    *)
(* was added is listed, what was removed is not.                           *)
WritesReadBack ==
    (result.ok /\ alone /\ call.op = "none" /\ Readable(result)) =>
        (Asked(result) \in Reported <=> result.op = "add")

Held == {rels[i] : i \in DOMAIN rels}
Was  == ToSet(before[1])

(* A call that was refused, by the code or at any of its requests by the   *)
(* server, has changed nothing but the link of a duplicate: on GitLab and  *)
(* Azure DevOps that link is written before the body and the state, and    *)
(* stays written when those are refused.  Where GitLab's pair was linked   *)
(* before, everything is done and the last read alone was refused.         *)
LinkChanged(op, t) ==
    /\ body = before[2] /\ state = before[3]
    /\ \E r \in [kind : Kinds, to : Tickets] :
          /\ StartsWith(r.to, t)
          /\ Held = IF op = "add" THEN Was \cup {r} ELSE Was \ {r}
AllWritten(op, t) ==
    op = "add" /\ rels = before[1] /\ Paired(t) # {} /\ Mentions(t) /\ state = "closed"
RefusalChangesOnlyLink ==
    (result.error \notin {"none", "transport"} /\ alone /\ call.op = "none") =>
        \/ ticket = before
        \/ /\ result.error = "refused" /\ result.kind = "duplicate_of"
           /\ \/ provider # "github" /\ LinkChanged(result.op, result.to)
              \/ provider = "gitlab" /\ AllWritten(result.op, result.to)

(* RelationAlreadyExists and RelationNotFound speak of what is listed at   *)
(* that moment, except on Azure DevOps for numbers that start alike and on *)
(* GitHub for a target that is gone or a dependency beyond the page that   *)
(* is looked at (get_ticket reads a larger one, taken to hold them all).   *)
ErrorsAreGenuine == [][
    call.op # "none" =>
        /\ (result'.error = "exists" /\ call'.op = "none") =>
               \/ Linked(Documented(Arg.kind), To)
               \/ provider = "gitlab" /\ Paired(To) # {}
               \/ provider = "azure" /\ LooksAlike(To, rels)
        /\ (result'.error = "not found" /\ call'.op = "none") =>
               \/ Asked(Arg) \notin Reported
               \/ provider = "github" /\ To \in Missing
               \/ provider = "github" /\ Arg.kind \in Links /\ Long(Arg.kind)
    ]_vars

(* A removal takes nothing but what it names.  On GitHub this holds among  *)
(* any number of other writers.  GitLab clears the parent and Azure DevOps *)
(* the index of an earlier read, so there nobody else may have acted, no   *)
(* numbers may start alike, and GitLab goes by the pair, not the kind.     *)
RemovalIsExact == [][
    LET gone == Held \ Held'
    IN  (call.op = "remove" /\ events' = events /\ gone # {}) =>
            CASE provider = "github" -> gone = {Asked(Arg)}
              [] provider = "gitlab" -> alone => \A r \in gone : r.to = To
              [] provider = "azure"  -> alone /\ ~LooksAlike(To, rels) => gone = {Asked(Arg)}
    ]_vars
=============================================================================
