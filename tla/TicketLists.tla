----------------------------- MODULE TicketLists -----------------------------
(***************************************************************************)
(* list_tickets and list_prs, newest first but for GitHub's search for     *)
(* pull requests, which asks for no order.                                 *)
(***************************************************************************)
EXTENDS ListState

(* Native states are a filter of tickets; GitLab has just open and closed. *)
Native == TicketKinds \ {"gl_issues"}
TicketArgs ==
    {[limit |-> l, filter |-> f, page |-> 1, order |-> "desc", since |-> 0] :
        l \in Limits, f \in IF list \in Native THEN Filters ELSE Filters \ {{"merged"}}}

At(kinds, pc) == list \in kinds /\ call.pc = pc

(* GitHub and GitLab know open, closed and all; a filter that is finer is  *)
(* applied to what they return.                                            *)
Coarse(f) == IF f = {"open"} THEN f ELSE IF f \subseteq Closed THEN Closed ELSE States
ServerPage(s) == Page(Newest(s), call.page, Size)

(* Whether there may be more is told by what the server returned.          *)
FullPage_AsFiltered(page) == Len(Fitting(page)) >= Size
FullPage(page) == Len(page) >= Size

(* GitHub's issues hold the pull requests too, so pages are read until     *)
(* enough is left of them.                                                 *)
Enough(rows) == Len(rows) >= Arg.limit

IssuesPage ==
    /\ At({"gh_issues"}, "start")
    /\ LET page == ServerPage(Only(Coarse(Arg.filter)))
           full == FullPage(page)
           rows == Take(call.rows \o Fitting(page), Arg.limit)
       IN  Step(IF full /\ ~Enough(rows)
                THEN Goto([call EXCEPT !.page = @ + 1, !.rows = rows])
                ELSE Return(rows, full /\ Enough(rows)))

(* One page is all there is: the search, GitLab's issues, GitHub's pulls.  *)
OnePage ==
    /\ At({"gh_search", "gl_issues", "gh_pulls"}, "start")
    /\ LET page == ServerPage(Only(Coarse(Arg.filter)))
       IN  Step(Return(Fitting(page), FullPage(page)))

(* The board is read to its end by cursor; the rest happens here.  Its     *)
(* cards are taken to stay in the order in which they were added: that     *)
(* somebody drags a card past the cursor is not modelled.                  *)
BoardPage ==
    /\ At({"gh_board"}, "start")
    /\ LET rest == After(items, call.cursor)
           page == Take(rest, MaxPage)
           rows == call.rows \o Fitting(page)
       IN  Step(IF Len(rest) > MaxPage
                THEN Goto([call EXCEPT !.rows = rows, !.cursor = page[MaxPage].id])
                ELSE Return(Take(Newest(rows), Arg.limit), Len(rows) > Arg.limit))

(* The numbers, then the work items in batches, each of which fails when   *)
(* one of its items is gone.                                               *)
WorkItemIds ==
    /\ At({"az_items"}, "start")
    /\ LET ids == Take(Newest(Only(Arg.filter)), Arg.limit)
       IN  Step(IF ids = <<>> THEN Return(<<>>, FALSE)
                ELSE Goto([call EXCEPT !.pc = "batch", !.queue = ids]))
WorkItemBatch ==
    /\ At({"az_items"}, "batch")
    /\ LET chunk == Take(call.queue, MaxPage)
           rest == SubSeq(call.queue, MaxPage + 1, Len(call.queue))
           now  == [n \in DOMAIN chunk |-> Lookup(chunk[n].id)]
           rows == call.rows \o [n \in DOMAIN now |-> CHOOSE i \in now[n] : TRUE]
       IN  Step(IF \E n \in DOMAIN now : now[n] = {} THEN Raise
                ELSE IF rest = <<>> THEN Return(rows, Len(rows) >= Arg.limit)
                ELSE Goto([call EXCEPT !.queue = rest, !.rows = rows]))

(* The search finds stubs, the best matches first and of equal ones any,   *)
(* and each of them is fetched.                                            *)
BestMatches(found) ==
    LET size == IF Len(found) > Size THEN Size ELSE Len(found)
    IN  {[n \in 1..size |-> found[place[n]]] : place \in Injection(1..size, DOMAIN found)}
PullStubs ==
    /\ At({"gh_pull_search"}, "start")
    /\ \E stubs \in BestMatches(Only(Coarse(Arg.filter))) :
         Step(Goto([call EXCEPT !.pc = "fetch", !.queue = stubs]))
PullFetch ==
    /\ At({"gh_pull_search"}, "fetch")
    /\ Step(IF call.queue = <<>>
            THEN Return(call.rows, Len(call.rows) >= Size)
            ELSE \E i \in Lookup(Head(call.queue).id) :
                   Goto([call EXCEPT !.queue = Tail(@), !.rows = Append(@, i)]))

(* Closed and merged are two requests, of a page each.                     *)
Halves(f) == IF f = Closed THEN <<{"closed"}, {"merged"}>> ELSE <<f>>
SortNewest_AsRead(s) == s
Rank(s, i) == Cardinality({j \in DOMAIN s : \/ s[j].id > s[i].id
                                            \/ s[j].id = s[i].id /\ j <= i})
SortNewest(s) == [n \in DOMAIN s |-> s[CHOOSE i \in DOMAIN s : Rank(s, i) = n]]

MergeRequests ==
    /\ At({"gl_pulls"}, "start")
    /\ LET half == Halves(Arg.filter)
           page == Take(Newest(Only(half[call.page])), Size)
           all  == call.rows \o page
           full == call.seen = 1 \/ FullPage(page)
       IN  Step(IF call.page < Len(half)
                THEN Goto([call EXCEPT !.page = @ + 1, !.rows = all,
                                       !.seen = IF full THEN 1 ELSE 0])
                ELSE Return(Take(SortNewest(all), Size), full \/ Len(all) > Size))

(* Azure DevOps has active and all; more is by what it returned.           *)
AzurePulls ==
    /\ At({"az_pulls"}, "start")
    /\ LET raw == Take(Newest(Only(IF Arg.filter = {"open"} THEN {"open"} ELSE States)),
                       Arg.limit)
       IN  Step(Return(Fitting(raw), Len(raw) >= Arg.limit))

TicketNext == \/ IssuesPage \/ OnePage \/ BoardPage \/ WorkItemIds \/ WorkItemBatch
              \/ PullStubs \/ PullFetch \/ MergeRequests \/ AzurePulls
=============================================================================
