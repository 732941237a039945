------------------------------ MODULE ListState ------------------------------
(***************************************************************************)
(* A growing and shrinking collection on the server (the tickets, the pull *)
(* requests or the comments of a ticket), the pages and cursors in which   *)
(* it is served, and the one listing this library is reading from it.      *)
(***************************************************************************)
EXTENDS Naturals, Sequences, FiniteSets, SequencesExt

CONSTANTS
    Lists,          \* the listings that are read
    Limits, Pages,  \* what is asked for
    MaxPage,        \* the server serves no larger page
    MaxItems,       \* as many as there are when a call begins
    MaxEvents

VARIABLES
    list,           \* which listing this is about
    items,          \* server: what there is, oldest first
    made,           \* server: how many were ever made
    call, result,
    events,
    steady,         \* history: what has been there, unchanged, all the call
    alone           \* history: nobody else has acted during the call

listVars == <<list, items, made, call, result, events, steady, alone>>

TicketKinds == {"gh_issues", "gh_search", "gh_board", "gl_issues", "az_items"}
PullKinds   == {"gh_pulls", "gh_pull_search", "gl_pulls", "az_pulls"}
Threads     == {"gh_comments", "gl_notes", "az_comments"}

(* Of the states, open has two opposites: closed as done or as not         *)
(* planned, and closed or merged.  A filter asks for some of them.         *)
States  == {"open", "closed", "merged"}
Closed  == {"closed", "merged"}
Filters == {{"open"}, Closed, States, {"merged"}}

(* own tells tickets from the pull requests among them, this repository's  *)
(* cards from others, and comments from system notes.                      *)
Mixed == list \in {"gh_issues", "gh_board", "gl_notes"}
Items(n) == [id : {n}, own : IF Mixed THEN BOOLEAN ELSE {TRUE},
             state : IF list \in Threads THEN {"open"} ELSE States]

ASSUME ListConstants ==
    /\ Lists \subseteq TicketKinds \cup PullKinds \cup Threads
    /\ Limits \subseteq Nat \ {0} /\ Pages \subseteq Nat \ {0}
    /\ MaxPage \in Nat \ {0}
    /\ MaxItems \in Nat /\ MaxEvents \in Nat

Idle     == [pc |-> "idle"]
NoResult == [done |-> FALSE]

ListingInit ==
    /\ list \in Lists
    /\ made \in 0..MaxItems
    /\ items \in {s \in [1..made -> UNION {Items(n) : n \in 1..made}] :
                    \A n \in 1..made : s[n] \in Items(n)}
    /\ call = Idle /\ result = NoResult
    /\ events = 0
    /\ steady = {} /\ alone = TRUE

-----------------------------------------------------------------------------
(* Requests.                                                               *)

Arg  == call.arg
Size == IF Arg.limit < MaxPage THEN Arg.limit ELSE MaxPage

(* The elements of s at some of its places, in their order.                *)
Nth(n, I)      == CHOOSE i \in I : Cardinality({j \in I : j <= i}) = n
Kept(s, I)     == [n \in 1..Cardinality(I) |-> s[Nth(n, I)]]
Where(s, P(_)) == Kept(s, {n \in DOMAIN s : P(s[n])})

Fits(i)    == i.own /\ i.state \in Arg.filter
Fitting(s) == Where(s, Fits)
Newest(s)  == Reverse(s)
Take(s, n) == IF Len(s) > n THEN SubSeq(s, 1, n) ELSE s
Ending(s, n) == IF Len(s) > n THEN SubSeq(s, Len(s) - n + 1, Len(s)) ELSE s
Only(states) == Where(items, LAMBDA i : i.state \in states)

Page(s, n, size) ==
    SubSeq(s, (n - 1) * size + 1, IF n * size < Len(s) THEN n * size ELSE Len(s))
PageCount(s, size) == (Len(s) + size - 1) \div size
After_Inclusive(s, id) == Where(s, LAMBDA i : i.id >= id)
After(s, id) == Where(s, LAMBDA i : i.id > id)
Lookup(id) == {items[n] : n \in {m \in DOMAIN items : items[m].id = id}}

Goto(new) == call' = new /\ UNCHANGED result
Return(rows, more) ==
    /\ call' = Idle
    /\ result' = [done |-> TRUE, rows |-> rows, more |-> more, arg |-> Arg]
Raise == call' = Idle /\ result' = NoResult

Step(next) == next /\ UNCHANGED <<list, items, made, events, steady, alone>>

(* A call, from the first row of the listing or of one of its pages.       *)
Ask(args) ==
    /\ call.pc = "idle" /\ ~result.done
    /\ \E a \in args :
         call' = [pc |-> "start", arg |-> a, rows |-> <<>>, page |-> a.page,
                  cursor |-> 0, seen |-> 0, queue |-> <<>>]
    /\ steady' = ToSet(items) /\ alone' = TRUE
    /\ UNCHANGED <<list, items, made, result, events>>

-----------------------------------------------------------------------------
(* Everybody else.                                                         *)

Other(change) ==
    /\ call.pc # "idle" /\ events < MaxEvents
    /\ events' = events + 1 /\ alone' = FALSE
    /\ change
    /\ steady' = steady \cap ToSet(items')
    /\ UNCHANGED <<list, call, result>>

Make == Other(/\ made' = made + 1
              /\ \E i \in Items(made + 1) :
                   i.state = "open" /\ items' = Append(items, i))
Delete == Other(/\ list \notin PullKinds
                /\ \E n \in DOMAIN items : items' = RemoveAt(items, n)
                /\ UNCHANGED made)
(* What is merged stays merged.                                            *)
Move == Other(/\ list \notin Threads
              /\ \E n \in DOMAIN items, st \in States :
                   /\ st # items[n].state
                   /\ list \in PullKinds => items[n].state # "merged"
                   /\ items' = [items EXCEPT ![n].state = st]
              /\ UNCHANGED made)

Environment == Make \/ Delete \/ Move
=============================================================================
