---------------------------- MODULE TicketUpdate ----------------------------
(***************************************************************************)
(* update_ticket and bulk_update_tickets of the three providers, several   *)
(* callers at once on one ticket.  Every provider reads the ticket first   *)
(* and decides from that snapshot what to write:                           *)
(*   GitHub   replaces the label and assignee lists by the merged ones,    *)
(*            then writes the board (Projects v2) field by field, and      *)
(*            re-reads the issue while a board automation may close it;    *)
(*   GitLab   sends labels as additions and removals, assignees as a list; *)
(*   Azure    replaces the tags and sends every field in one patch.        *)
(* The GitHub project has a Projects v2 binding; without one the calls     *)
(* that name a board field are refused and a reopened ticket has no card.  *)
(***************************************************************************)
EXTENDS Naturals, Sequences, FiniteSets

CONSTANTS
    Callers,
    Providers,
    Requests,       \* the argument lists calls are made with
    Labels, People,
    Gen, Mod,       \* auto_labels.ai_generated and .ai_modified
    OnUpdate,       \* board auto_labels.on_update
    OnMove,         \* board auto_labels.on_move_to: column -> labels
    Columns, Iterations,
    First,          \* board.columns[0], as resolved
    Done,           \* the column a board automation closes issues in
    Starts,         \* labels the ticket may have at first
    RegetPollMaxAttempts,
    Handled,        \* the labels other people add and remove
    MaxEdits        \* bound on what other people do to the ticket

VARIABLES
    provider,
    ticket,     \* server: labels, people, state, body mark, board fields
    cascade,    \* server: the automation is about to close the ticket
    edits,      \* bound: other people's edits so far
    pc, req,    \* caller: where it is, its arguments
    snap,       \* caller: current, as the first GET returned it
    todo,       \* caller: board fields still to be written, in order
    tries,      \* caller: attempts of _reget_issue
    results,    \* caller: one entry per updated id
    first,      \* history: the ticket's first labels
    offered,    \* history: labels somebody asked for or a call may stamp
    stripped,   \* history: labels somebody asked to remove
    landed,     \* history: labels whose addition the server confirmed
    edited,     \* history: a call that has to attribute itself has written
    unstamped,  \* history: the repository refused a label to stamp
    wrote       \* history, per caller: board values of the current update

server  == <<ticket, cascade>>
locals  == <<snap, todo, tries, wrote>>
history == <<first, offered, stripped, landed, edited, unstamped>>
vars == <<provider, server, edits, pc, req, results, locals, history>>

Fields  == {"column", "iteration"}
Unset   == "unset"
Cleared == "cleared"
States  == {"open", "closed"}
Marks   == {"gen", "mod", "none"}
PCs     == {"idle", "read", "write", "board", "reread", "return", "end"}
Outcomes == {"ok", "error", "raised"}
Values  == Columns \cup Iterations \cup {Cleared}

Tickets == [labels : SUBSET Labels, people : SUBSET People, state : States,
            mark : Marks, board : [Fields -> Values]]

Arguments == [add : SUBSET Labels, remove : SUBSET Labels,
              join : SUBSET People, leave : SUBSET People,
              title : BOOLEAN, body : BOOLEAN, light : BOOLEAN,
              status : States \cup {"none", "bogus"},
              fields : Seq(Fields \X Values),
              milestone : Values \cup {Unset}, times : Nat]

ASSUME UpdateConstants ==
    /\ Providers \subseteq {"github", "gitlab", "azure"}
    /\ Requests \subseteq Arguments
    /\ {Gen, Mod} \cup OnUpdate \subseteq Labels /\ Gen # Mod
    /\ OnMove \in [Columns -> SUBSET Labels]
    /\ {First, Done} \subseteq Columns
    /\ Starts \subseteq SUBSET Labels /\ Handled \subseteq Labels
    /\ RegetPollMaxAttempts \in Nat \ {0} /\ MaxEdits \in Nat
    /\ Unset \notin Values

-----------------------------------------------------------------------------
(* What a call wants, from its arguments and its snapshot.                 *)

(* The last value a list of field writes gives a field, else old.          *)
LastValue(writes, f, old) ==
    IF \E i \in DOMAIN writes : writes[i][1] = f
    THEN writes[CHOOSE i \in DOMAIN writes :
                  /\ writes[i][1] = f
                  /\ \A j \in DOMAIN writes : writes[j][1] = f => j <= i][2]
    ELSE old

Asks(r, f) == \E i \in DOMAIN r.fields : r.fields[i][1] = f

(* auto_label_names_for_move, for the first matching key of custom_fields  *)
MoveLabels_AnyField(r) == UNION {OnMove[k] : k \in Columns}
FirstColumn(r, k) ==
    \E i \in DOMAIN r.fields :
        /\ r.fields[i] = <<"column", k>>
        /\ \A j \in DOMAIN r.fields : r.fields[j][1] = "column" => i <= j
MoveLabels(r) == UNION {OnMove[k] : k \in {k \in Columns : FirstColumn(r, k)}}

(* _validate_label_lists, before any request.                              *)
Valid(r) == r.add \cap r.remove = {}

(* The argument lists the provider's signature has room for: GitLab takes  *)
(* no custom_fields, and the bulk call neither milestone nor light.        *)
Offers(r) ==
    /\ provider = "gitlab" => r.fields = <<>>
    /\ r.times # 1 => r.milestone = Unset /\ ~r.light

Merged(c) == (snap[c].labels \cup req[c].add) \ req[c].remove

MergedPeople(c) == (snap[c].people \cup req[c].join) \ req[c].leave

(* Azure DevOps has one assignee, the first of assignees_add.              *)
AzurePeople(c) ==
    IF req[c].join # {} THEN {{p} : p \in req[c].join}
                        ELSE {snap[c].people \ req[c].leave}

(* Labels GitHub stamps on top, each unless the repository refuses it.     *)
Stampable_OnlyBoard(c) == OnUpdate \cup MoveLabels(req[c])
Stampable(c) ==
    (IF Gen \in snap[c].labels THEN {} ELSE {Mod})
    \cup OnUpdate \cup MoveLabels(req[c])

(* GitLab adds ai_modified only to a ticket that lacks both AI labels, and *)
(* applies additions, then removals, to the labels of that moment.         *)
GitLabAdds(c) ==
    req[c].add \cup OnUpdate
    \cup (IF {Gen, Mod} \cap snap[c].labels = {} THEN {Mod} ELSE {})
GitLabLabels_FromSnapshot(c) ==
    (snap[c].labels \cup GitLabAdds(c)) \ req[c].remove
GitLabLabels(c) == (ticket.labels \cup GitLabAdds(c)) \ req[c].remove

(* Azure DevOps rewrites the tags only when labels are asked for, and then *)
(* decides on ai_modified from the merged list.                            *)
TouchesTags(c) == req[c].add # {} \/ req[c].remove # {} \/ OnUpdate # {}
AzureLabels(c) ==
    LET base == Merged(c) \cup OnUpdate
    IN  IF Gen \in base THEN base ELSE base \cup {Mod}

(* apply_body_marker: from the label state before the update, on Azure     *)
(* DevOps from the marker of the body it replaces.                         *)
NewMark(c) ==
    IF provider = "azure"
    THEN IF snap[c].mark = "gen" THEN "gen" ELSE "mod"
    ELSE IF Gen \in snap[c].labels THEN "gen" ELSE "mod"

NewState(r, old) == IF r.status = "none" THEN old ELSE r.status

(* A reopened ticket's card goes back to the first column, unless the call *)
(* itself names a column.                                                  *)
Resets_Always(c) ==
    provider = "github" /\ snap[c].state = "closed" /\ req[c].status = "open"
Resets(c) ==
    /\ provider = "github"
    /\ snap[c].state = "closed" /\ req[c].status = "open"
    /\ ~Asks(req[c], "column")

MilestoneWrite(r) ==
    IF r.milestone = Unset THEN <<>> ELSE <<<<"iteration", r.milestone>>>>

(* Board writes in the order the code makes them.                          *)
BoardWrites(c) ==
    req[c].fields \o MilestoneWrite(req[c])
    \o (IF Resets(c) THEN <<<<"column", First>>>> ELSE <<>>)

(* light=False after a board write that may cascade: poll the issue.       *)
ReadsBack(c) == ~req[c].light /\ (req[c].fields # <<>> \/ Resets(c))
-----------------------------------------------------------------------------
NoTicket == [labels |-> {}, people |-> {}, state |-> "open", mark |-> "none",
             board |-> [f \in Fields |-> Cleared]]
NoRequest == [add |-> {}, remove |-> {}, join |-> {}, leave |-> {},
              title |-> FALSE, body |-> FALSE, light |-> FALSE,
              status |-> "none", fields |-> <<>>, milestone |-> Unset,
              times |-> 0]
NothingWritten == [f \in Fields |-> Unset]

Init ==
    /\ provider \in Providers
    /\ \E l \in Starts, s \in States :
         ticket = [labels |-> l, people |-> {}, state |-> s,
                   mark |-> IF Gen \in l THEN "gen" ELSE "none",
                   board |-> [f \in Fields |->
                                IF f # "column" THEN Cleared
                                ELSE IF s = "open" THEN First ELSE Done]]
    /\ cascade = FALSE /\ edits = 0
    /\ pc = [c \in Callers |-> "idle"]
    /\ req = [c \in Callers |-> NoRequest]
    /\ snap = [c \in Callers |-> NoTicket]
    /\ todo = [c \in Callers |-> <<>>]
    /\ tries = [c \in Callers |-> 0]
    /\ results = [c \in Callers |-> <<>>]
    /\ first = ticket.labels
    /\ offered = {} /\ stripped = {} /\ landed = {}
    /\ edited = FALSE /\ unstamped = FALSE
    /\ wrote = [c \in Callers |-> NothingWritten]

(* Entry of update_ticket (times = 1) or bulk_update_tickets; an empty     *)
(* batch returns without a request.                                        *)
Begin(c) ==
    /\ pc[c] = "idle"
    /\ \E r \in Requests :
         /\ Offers(r)
         /\ req' = [req EXCEPT ![c] = r]
         /\ pc' = [pc EXCEPT ![c] = IF r.times = 0 THEN "end" ELSE "read"]
         /\ offered' = offered \cup r.add \cup {Mod} \cup OnUpdate
                     \cup UNION {OnMove[k] : k \in {k \in Columns :
                          \E i \in DOMAIN r.fields : r.fields[i] = <<"column", k>>}}
         /\ stripped' = stripped \cup r.remove
    /\ UNCHANGED <<provider, server, edits, results, locals, first, landed,
                   edited, unstamped>>

(* One id is finished: its result is kept, the frame of its update is     *)
(* gone, and the next id's turn comes.  The bulk call turns ProviderError  *)
(* and ValueError into a result; what the transport raises (a timeout, a   *)
(* broken connection) ends the batch, as any exception ends a single call. *)
Failures(c) == IF req[c].times = 1 THEN {"raised"} ELSE {"error", "raised"}

NextUp_StopsOnError(c, outcome) ==
    IF outcome # "ok" \/ Len(results[c]) + 1 = req[c].times THEN "end" ELSE "read"
NextUp(c, outcome) ==
    IF outcome = "raised" \/ Len(results[c]) + 1 = req[c].times
    THEN "end" ELSE "read"

Conclude(c, outcome) ==
    /\ results' = [results EXCEPT ![c] = Append(@, outcome)]
    /\ pc' = [pc EXCEPT ![c] = NextUp(c, outcome)]
    /\ snap' = [snap EXCEPT ![c] = NoTicket]
    /\ todo' = [todo EXCEPT ![c] = <<>>]
    /\ tries' = [tries EXCEPT ![c] = 0]
    /\ wrote' = [wrote EXCEPT ![c] = NothingWritten]

Fails(c) == \E outcome \in Failures(c) : Conclude(c, outcome)

(* The first GET.                                                          *)
Read(c) ==
    /\ pc[c] = "read" /\ Valid(req[c])
    /\ snap' = [snap EXCEPT ![c] = ticket]
    /\ pc' = [pc EXCEPT ![c] = "write"]
    /\ UNCHANGED <<provider, server, edits, req, results, todo, tries, wrote,
                   history>>

(* Whatever raises before the write is sent: a conflict in the arguments,  *)
(* a missing binding, label, milestone or user, an unknown status, a       *)
(* request that fails.                                                     *)
Refuse(c) ==
    /\ pc[c] \in {"read", "write"}
    /\ Fails(c)
    /\ UNCHANGED <<provider, server, edits, req, history>>

(* The write has landed; the caller learns of it and goes on, or it gets   *)
(* an error instead of the answer.                                         *)
Answered(c, next, writes, board) ==
    \/ /\ pc' = [pc EXCEPT ![c] = next]
       /\ todo' = [todo EXCEPT ![c] = writes]
       /\ wrote' = [wrote EXCEPT ![c] = board]
       /\ UNCHANGED <<results, snap, tries>>
    \/ Fails(c)

(* GitHub: labels stamped as far as the repository lets us, one PATCH of   *)
(* what differs from the snapshot (none when nothing does), then the board.*)
WriteGitHub(c) ==
    /\ provider = "github"
    /\ pc[c] = "write" /\ req[c].status # "bogus"
    /\ \E stamped \in SUBSET (Stampable(c) \ Merged(c)) :
         LET r      == req[c]
             labels == Merged(c) \cup stamped
             people == MergedPeople(c)
             empty  == /\ ~r.title /\ ~r.body /\ r.status = "none"
                       /\ labels = snap[c].labels /\ people = snap[c].people
         IN
         /\ IF empty
            THEN /\ pc' = [pc EXCEPT ![c] = "board"]
                 /\ todo' = [todo EXCEPT ![c] = BoardWrites(c)]
                 /\ UNCHANGED <<ticket, results, snap, tries, wrote>>
            ELSE /\ ticket' =
                      [ticket EXCEPT
                         !.labels = IF labels = snap[c].labels THEN @ ELSE labels,
                         !.people = IF people = snap[c].people THEN @ ELSE people,
                         !.mark   = IF r.body THEN NewMark(c) ELSE @,
                         !.state  = NewState(r, @)]
                 /\ Answered(c, "board", BoardWrites(c), NothingWritten)
         /\ unstamped' = (unstamped \/ stamped # Stampable(c) \ Merged(c))
    /\ edited' = TRUE
    /\ UNCHANGED <<provider, cascade, edits, req, first, offered, stripped,
                   landed>>

(* GitLab: one PUT; the milestone is part of it.                           *)
WriteGitLab(c) ==
    /\ provider = "gitlab"
    /\ pc[c] = "write" /\ req[c].status # "bogus"
    /\ LET r == req[c] IN
       /\ ticket' = [ticket EXCEPT
                       !.labels = GitLabLabels(c),
                       !.people = IF r.join \cup r.leave = {} THEN @
                                  ELSE MergedPeople(c),
                       !.mark   = IF r.body THEN NewMark(c) ELSE @,
                       !.state  = NewState(r, @),
                       !.board  = [f \in Fields |->
                                     LastValue(MilestoneWrite(r), f, @[f])]]
       /\ Answered(c, "return", <<>>,
                   [f \in Fields |-> LastValue(MilestoneWrite(r), f, Unset)])
    /\ landed' = landed \cup GitLabAdds(c)
    /\ edited' = TRUE
    /\ UNCHANGED <<provider, cascade, edits, req, first, offered, stripped,
                   unstamped>>

(* Azure DevOps: one PATCH of every field, none when nothing is asked.     *)
WriteAzure(c) ==
    /\ provider = "azure"
    /\ pc[c] = "write" /\ req[c].status # "bogus"
    /\ \E people \in AzurePeople(c) :
         LET r == req[c] IN
         /\ ticket' = [ticket EXCEPT
                         !.labels = IF TouchesTags(c) THEN AzureLabels(c) ELSE @,
                         !.people = IF people = snap[c].people THEN @ ELSE people,
                         !.mark   = IF r.body THEN NewMark(c) ELSE @,
                         !.state  = NewState(r, @),
                         !.board  = [f \in Fields |->
                                       LastValue(BoardWrites(c), f, @[f])]]
         /\ Answered(c, "return", <<>>,
                     [f \in Fields |-> LastValue(BoardWrites(c), f, Unset)])
    /\ edited' = (edited \/ TouchesTags(c))
    /\ UNCHANGED <<provider, cascade, edits, req, first, offered, stripped,
                   landed, unstamped>>

(* One board field mutation; a card that reaches Done makes the automation *)
(* close the issue some time later.  An error leaves the rest unwritten.   *)
WriteBoard(c) ==
    /\ pc[c] = "board" /\ todo[c] # <<>>
    /\ LET f == Head(todo[c])[1]
           v == Head(todo[c])[2]
       IN  \/ /\ ticket' = [ticket EXCEPT !.board[f] = v]
              /\ cascade' = (cascade \/ (f = "column" /\ v = Done))
              /\ Answered(c, "board", Tail(todo[c]), [wrote[c] EXCEPT ![f] = v])
           \/ Fails(c) /\ UNCHANGED server
    /\ UNCHANGED <<provider, edits, req, history>>

BoardDone(c) ==
    /\ pc[c] = "board" /\ todo[c] = <<>>
    /\ pc' = [pc EXCEPT ![c] = IF ReadsBack(c) THEN "reread" ELSE "return"]
    /\ UNCHANGED <<provider, server, edits, req, results, locals, history>>

(* _reget_issue: until the state differs from the one before the update,   *)
(* or the attempts are used up (the count wraps to stay finite).           *)
Budget_Unbounded(c) == FALSE
Budget(c) == tries[c] + 1 = RegetPollMaxAttempts

Reread(c) ==
    /\ pc[c] = "reread"
    /\ \/ /\ tries' = [tries EXCEPT ![c] = (@ % RegetPollMaxAttempts) + 1]
          /\ pc' = [pc EXCEPT ![c] =
                      IF ticket.state # snap[c].state \/ Budget(c)
                      THEN "return" ELSE "reread"]
          /\ UNCHANGED <<results, snap, todo, wrote>>
       \/ Fails(c)
    /\ UNCHANGED <<provider, server, edits, req, history>>

Return(c) ==
    /\ pc[c] = "return"
    /\ Conclude(c, "ok")
    /\ UNCHANGED <<provider, server, edits, req, history>>

(* The board automation's asynchronous close.                              *)
Cascade ==
    /\ cascade
    /\ cascade' = FALSE
    /\ ticket' = [ticket EXCEPT !.state = "closed"]
    /\ UNCHANGED <<provider, edits, pc, req, results, locals, history>>

(* Other people label, unlabel, close or reopen the ticket.                *)
Outsider ==
    /\ edits < MaxEdits
    /\ edits' = edits + 1
    /\ \/ \E l \in Handled :
            /\ ticket' = [ticket EXCEPT !.labels = @ \cup {l}]
            /\ offered' = offered \cup {l}
            /\ landed' = landed \cup {l}
            /\ UNCHANGED stripped
       \/ \E l \in Handled \cap ticket.labels :
            /\ ticket' = [ticket EXCEPT !.labels = @ \ {l}]
            /\ stripped' = stripped \cup {l}
            /\ UNCHANGED <<offered, landed>>
       \/ \E s \in States \ {ticket.state} :
            /\ ticket' = [ticket EXCEPT !.state = s]
            /\ UNCHANGED <<offered, stripped, landed>>
    /\ UNCHANGED <<provider, cascade, pc, req, results, locals, first, edited,
                   unstamped>>

Proceed(c) ==
    \/ Read(c) \/ Refuse(c)
    \/ WriteGitHub(c) \/ WriteGitLab(c) \/ WriteAzure(c)
    \/ WriteBoard(c) \/ BoardDone(c) \/ Reread(c) \/ Return(c)

Next == Cascade \/ Outsider \/ \E c \in Callers : Begin(c) \/ Proceed(c)

(* A call is one synchronous thread of requests that all end.              *)
Spec == Init /\ [][Next]_vars /\ \A c \in Callers : WF_vars(Proceed(c))
-----------------------------------------------------------------------------
TypeOK ==
    /\ provider \in Providers
    /\ ticket \in Tickets /\ cascade \in BOOLEAN /\ edits \in Nat
    /\ pc \in [Callers -> PCs]
    /\ req \in [Callers -> Requests \cup {NoRequest}]
    /\ snap \in [Callers -> Tickets]
    /\ todo \in [Callers -> Seq(Fields \X Values)]
    /\ tries \in [Callers -> 0..RegetPollMaxAttempts]
    /\ results \in [Callers -> Seq(Outcomes)]
    /\ {first, offered, stripped, landed} \subseteq SUBSET Labels
    /\ edited \in BOOLEAN /\ unstamped \in BOOLEAN
    /\ wrote \in [Callers -> [Fields -> Values \cup {Unset}]]

(* However updates interleave, a label the ticket had from the start and   *)
(* nobody asked to remove is never lost; on GitLab, whose writes are       *)
(* deltas, neither is any label whose addition was confirmed.              *)
LabelsSurvive ==
    (first \cup (IF provider = "gitlab" THEN landed ELSE {})) \ stripped
        \subseteq ticket.labels

(* No update brings in a label nobody asked for and no rule stamps, not    *)
(* even from a snapshot that is out of date.                               *)
NoStrayLabels == ticket.labels \subseteq first \cup offered

(* A ticket an update attributed to the agent stays attributed: whichever  *)
(* stale list is written back last carries one of the two AI labels,       *)
(* unless somebody removed one or the repository refused the label.        *)
EditsAreAttributed ==
    edited /\ ~unstamped /\ {Gen, Mod} \cap stripped = {}
        => {Gen, Mod} \cap ticket.labels # {}

(* When an update succeeds, the last value it wrote to each board field is *)
(* the one asked for: an explicit column is not overwritten by the reset   *)
(* of a reopened ticket, milestone= wins over custom_fields, and a         *)
(* reopened ticket without a column of its own got the first one.          *)
BoardEndsAsAsked ==
    \A c \in Callers : pc[c] = "return" =>
      /\ wrote[c]["iteration"] =
           IF req[c].milestone # Unset THEN req[c].milestone
           ELSE LastValue(req[c].fields, "iteration", Unset)
      /\ wrote[c]["column"] =
           IF /\ provider = "github" /\ req[c].status = "open"
              /\ snap[c].state = "closed" /\ ~Asks(req[c], "column")
           THEN First
           ELSE LastValue(req[c].fields, "column", Unset)

(* A bulk update has one result per id however many of them failed, unless *)
(* the transport raised in the last of those it got to.                    *)
BulkIsComplete ==
    \A c \in Callers :
      /\ \A i \in DOMAIN results[c] : results[c][i] = "raised" =>
            i = Len(results[c]) /\ pc[c] = "end"
      /\ pc[c] = "end" => \/ Len(results[c]) = req[c].times
                          \/ \E i \in DOMAIN results[c] : results[c][i] = "raised"

(* Every call ends, although the automation it polls for may never run.    *)
CallsEnd == <>[](\A c \in Callers : pc[c] \in {"idle", "end"})
=============================================================================
