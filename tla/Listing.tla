------------------------------- MODULE Listing -------------------------------
(***************************************************************************)
(* What a caller of list_tickets, list_prs and list_comments gets while    *)
(* others make, delete and move what is listed.                            *)
(***************************************************************************)
EXTENDS TicketLists, CommentLists

ListingNext ==
    \/ Ask(IF list \in Threads THEN CommentArgs ELSE TicketArgs)
    \/ TicketNext \/ CommentNext \/ Environment

ListingSpec == ListingInit /\ [][ListingNext]_listVars

Rows    == {result.rows[n] : n \in DOMAIN result.rows}
RowIds  == {r.id : r \in Rows}
Asked   == result.arg
LeftOut == {i \in steady : /\ i.own /\ i.state \in Asked.filter /\ i.id >= Asked.since
                           /\ i.id \notin RowIds}
NewestFirst == Asked.order = "desc" /\ Asked.page = 1 /\ Asked.since = 0

(* Long threads of GitLab come without a count of pages.                   *)
Uncounted == list = "gl_notes" /\ made >= MaxItems

(* Where has_more is wrong.  GitHub's issues are cut in the middle of a    *)
(* page that is not full; Azure DevOps says no to the newest comments      *)
(* always, and cuts pages when since has left gaps in them.                *)
CutInside == list = "gh_issues" /\ Len(result.rows) = Asked.limit
CutAzure  == list = "az_comments" /\ (Asked.order = "desc" \/ Asked.since > 0)

(* When there is said to be no more, the first page has had it all.        *)
NothingLeft ==
    (result.done /\ alone /\ Asked.page = 1 /\ ~result.more) =>
        LeftOut = {} \/ CutInside \/ CutAzure \/ (Uncounted /\ NewestFirst)

(* A page that is read while others act may show a row twice: a new ticket *)
(* pushes another onto the next page, a deleted comment pulls one back,    *)
(* and a pull request merges between the two requests.  A cursor never,    *)
(* as far as what it runs through keeps its order.                         *)
Paged == list \in {"gh_issues", "gh_comments", "gl_notes", "gl_pulls"}
NoRepeats ==
    (result.done /\ (alone \/ ~Paged)) => Cardinality(RowIds) = Len(result.rows)

(* What is left out comes after all that is returned, whatever others do   *)
(* meanwhile: the cut by limit is the only one.  Only the walk through     *)
(* GitHub's issues has holes, where a deletion moves a ticket to a page    *)
(* already read.  GitHub's search for pull requests is cut anywhere, for   *)
(* it asks for no order: of it all that holds is that a page is full       *)
(* before anything is left out.                                            *)
Unordered == list = "gh_pull_search"
NoHoles ==
    (result.done /\ Asked.page = 1 /\ (list = "gh_issues" => alone)
                 /\ ~(Uncounted /\ NewestFirst)) =>
        IF Unordered
        THEN LeftOut = {} \/ Len(result.rows) >= Asked.limit \/ Len(result.rows) >= MaxPage
        ELSE \A i \in LeftOut, id \in RowIds :
               IF Asked.order = "desc" /\ (NewestFirst \/ list = "az_comments")
               THEN id > i.id ELSE id < i.id
=============================================================================
