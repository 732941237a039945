---------------------------- MODULE CommentLists ----------------------------
(***************************************************************************)
(* list_comments: a page of the oldest comments, or the newest ones last   *)
(* first.                                                                  *)
(***************************************************************************)
EXTENDS ListState

(* since is the number of the first comment that is recent enough.         *)
CommentArgs ==
    {[limit |-> l, filter |-> States, page |-> p, order |-> o, since |-> s] :
        l \in Limits, p \in Pages, o \in {"asc", "desc"}, s \in {0, 2}}

Recent(s) == Where(s, LAMBDA i : i.id >= Arg.since)
Own(s)    == Where(s, LAMBDA i : i.own)
TailOnly  == Arg.order = "desc" /\ Arg.page = 1 /\ Arg.since = 0

(* GitHub filters by since before it cuts pages, GitLab's notes are        *)
(* filtered after; what comes back of "desc" with a page or since is in    *)
(* ascending order.                                                        *)
CommentPage ==
    /\ list \in {"gh_comments", "gl_notes"} /\ call.pc = "start" /\ ~TailOnly
    /\ LET all == IF list = "gh_comments" THEN Recent(items) ELSE items
       IN  Step(Return(Own(Recent(Page(all, Arg.page, Size))),
                       Arg.page * Size < Len(all)))

(* The first page tells which is the last; the walk goes from there to the *)
(* front.  GitLab leaves the count out for a long thread.                  *)
Probe ==
    /\ list \in {"gh_comments", "gl_notes"} /\ call.pc = "start" /\ TailOnly
    /\ \/ Step(IF PageCount(items, Size) <= 1
               THEN Return(Newest(Own(items)), FALSE)
               ELSE Goto([call EXCEPT !.pc = "walk", !.page = PageCount(items, Size)]))
       \/ /\ list = "gl_notes" /\ Len(items) >= MaxItems
          /\ Step(Return(Newest(Own(Page(items, 1, Size))), FALSE))

OlderRemain(page, rows) == page >= 1 \/ Len(rows) > Arg.limit

Walk ==
    /\ list \in {"gh_comments", "gl_notes"} /\ call.pc = "walk"
    /\ LET rows == Own(Page(items, call.page, Size)) \o call.rows
           left == call.page - 1
       IN  Step(IF left >= 1 /\ Len(rows) < Arg.limit
                THEN Goto([call EXCEPT !.page = left, !.rows = rows])
                ELSE Return(Newest(Ending(rows, Arg.limit)), OlderRemain(left, rows)))

(* Azure DevOps is read by cursor: to the end for the newest, which are    *)
(* then cut, and for a page until it is full.                              *)
Skip == (Arg.page - 1) * Size

AzureNewest ==
    /\ list = "az_comments" /\ call.pc = "start" /\ Arg.order = "desc"
    /\ LET rest == After(items, call.cursor)
           page == Take(rest, MaxPage)
           rows == call.rows \o Recent(page)
           kept == SubSeq(Newest(rows), Skip + 1, Len(rows))
       IN  Step(IF Len(rest) > MaxPage
                THEN Goto([call EXCEPT !.rows = rows, !.cursor = page[MaxPage].id])
                ELSE Return(Take(kept, Arg.limit), FALSE))

AzureComments ==
    /\ list = "az_comments" /\ call.pc = "start" /\ Arg.order = "asc"
    /\ LET rest == After(items, call.cursor)
           page == Take(rest, Size)
           skip == IF Skip - call.seen < Len(page) THEN Skip - call.seen ELSE Len(page)
           rows == Take(call.rows \o Recent(SubSeq(page, skip + 1, Len(page))), Size)
           more == Len(rest) > Size
       IN  Step(IF more /\ Len(rows) < Size
                THEN Goto([call EXCEPT !.rows = rows, !.cursor = page[Size].id,
                                       !.seen = @ + skip])
                ELSE Return(rows, more /\ Len(rows) >= Size))

CommentNext == CommentPage \/ Probe \/ Walk \/ AzureNewest \/ AzureComments
=============================================================================
