------------------------------ MODULE LinkState ------------------------------
(***************************************************************************)
(* One ticket with its typed relations and its body, everybody else who    *)
(* edits them, the one call this library is making, and what get_ticket    *)
(* makes of it all.  GitHubLinks, GitLabLinks and AzureLinks add the       *)
(* calls; TicketRelations puts them together.                              *)
(***************************************************************************)
EXTENDS Naturals, Sequences, FiniteSets, SequencesExt

CONSTANTS
    Providers,
    Self, Targets,  \* the ticket, and the tickets it is related to
    Missing,        \* targets that do not exist
    Longer,         \* pairs of targets, the first number starts the second
    DefaultPage,    \* rows GitHub sends of a list when no page size is asked
    Crowded,        \* targets with longer lists of their own than that
    Requests,       \* the calls that are made
    MaxCalls, MaxEvents, MaxFaults

VARIABLES
    provider,
    rels,           \* server: typed relations, each named as a reader of
                    \*   this ticket names it, in the order they are kept
    body,           \* server: the lines of the body that say "duplicate of"
    state,          \* server: open or closed
    call, result,
    calls, events, faults,
    before,         \* history: the ticket as the call found it
    alone           \* history: nobody else has acted during this call

ticket  == <<rels, body, state>>
bounds  == <<calls, events, faults>>
history == <<before, alone>>
vars    == <<provider, ticket, call, result, bounds, history>>

Hierarchy == {"parent", "child"}
Links     == {"blocks", "blocked_by", "relates_to"}
Kinds     == Hierarchy \cup Links \cup {"duplicate_of"}
Rel(k, t) == [kind |-> k, to |-> t]

(* A line is a marker of its own or a phrase in the middle of prose.       *)
Line(t, own) == [to |-> t, own |-> own]

ASSUME LinkConstants ==
    /\ Providers \subseteq {"github", "gitlab", "azure"}
    /\ Self \notin Targets /\ Missing \subseteq Targets
    /\ Longer \subseteq Targets \X Targets
    /\ \A p \in Longer : p[1] # p[2]
    /\ DefaultPage \in Nat \ {0} /\ Crowded \subseteq Targets
    /\ {MaxCalls, MaxEvents, MaxFaults} \subseteq Nat

(* A call may name the ticket itself; whoever else relates it does not.    *)
Tickets == Targets \cup {Self}
ASSUME RequestTypes ==
    Requests \subseteq [op : {"add", "remove"}, kind : Kinds, to : Tickets]

Request(op, kind, to) == [op |-> op, kind |-> kind, to |-> to]
Idle     == [op |-> "none", pc |-> "idle"]
NoResult == [op |-> "none", kind |-> "none", to |-> Self, ok |-> FALSE,
             error |-> "none"]

Init ==
    /\ provider \in Providers
    /\ rels = <<>> /\ body = <<>> /\ state = "open"
    /\ call = Idle /\ result = NoResult
    /\ calls = 0 /\ events = 0 /\ faults = 0
    /\ before = ticket /\ alone = TRUE

-----------------------------------------------------------------------------
(* What the server allows.                                                 *)

Linked(k, t)  == Rel(k, t) \in ToSet(rels)
Paired(t)     == {k \in Links : Linked(k, t)}
Parents       == {r \in ToSet(rels) : r.kind = "parent"}

(* No relation is there twice, and no ticket has two parents.              *)
Drop(r)     == RemoveFirst(rels, r)
DropParents == RemoveFirstMatch(rels, LAMBDA x : x.kind = "parent")

Allowed(k, t) ==
    /\ t \notin Missing /\ ~Linked(k, t)
    /\ k \in Hierarchy => \A h \in Hierarchy : ~Linked(h, t)
    /\ k = "parent" /\ provider # "gitlab" => Parents = {}
    /\ k \in Links /\ provider = "gitlab" => Paired(t) = {}
    /\ k = "duplicate_of" => provider = "azure"

Added(k, t) == Append(IF k = "parent" THEN DropParents ELSE rels, Rel(k, t))

-----------------------------------------------------------------------------
(* The body.                                                               *)

(* "Duplicate of #1" is also part of "Duplicate of #12".                   *)
StartsWith(u, t) == u = t \/ <<t, u>> \in Longer
Mentions(t)      == \E i \in DOMAIN body : StartsWith(body[i].to, t)
MarkedBody(t)    == IF Mentions(t) THEN body ELSE <<Line(t, TRUE)>> \o body

(* The lines that are not markers of t, in their order.                    *)
Unmarked(t)     == {i \in DOMAIN body : body[i] # Line(t, TRUE)}
Nth(n, S)       == CHOOSE i \in S : Cardinality({j \in S : j <= i}) = n
StrippedBody(t) == [n \in 1..Cardinality(Unmarked(t)) |-> body[Nth(n, Unmarked(t))]]

Own      == {i \in DOMAIN body : body[i].own}
Names    == {body[i].to : i \in DOMAIN body}
FirstOwn == IF Own = {} THEN {}
            ELSE {body[CHOOSE i \in Own : \A j \in Own : i <= j].to}

-----------------------------------------------------------------------------
(* get_ticket: GitHub reports the first marker line and drops a mention of *)
(* a ticket it is a duplicate of; GitLab lets each phrase "duplicate of"   *)
(* take over the link to the same ticket, and lists no children; Azure     *)
(* DevOps prefers its typed links to mentions.                             *)

Duplicates(ts) == {Rel("duplicate_of", t) : t \in ts}
Mentioned(ts)  == {Rel("mentions", t) : t \in ts}

GitHubRelations ==
    ToSet(rels) \cup Duplicates(FirstOwn) \cup Mentioned(Names \ FirstOwn)
GitLabRelations ==
    {r \in ToSet(rels) : r.kind = "parent" \/ (r.kind \in Links /\ r.to \notin Names)}
        \cup Duplicates(Names)
AzureRelations ==
    ToSet(rels) \cup Mentioned(Names \ {r.to : r \in ToSet(rels)})

Reported == CASE provider = "github" -> GitHubRelations
              [] provider = "gitlab" -> GitLabRelations
              [] provider = "azure"  -> AzureRelations

-----------------------------------------------------------------------------
(* The steps of a call.                                                    *)

Arg == call.arg
To  == call.arg.to

At(op, pc) == call.op = op /\ call.pc = pc

Begin ==
    /\ call.op = "none" /\ calls < MaxCalls
    /\ \E r \in Requests :
         call' = [op |-> r.op, pc |-> "start", arg |-> r, body |-> body,
                  index |-> 0, link |-> "none"]
    /\ result' = NoResult
    /\ calls' = calls + 1
    /\ before' = ticket /\ alone' = TRUE
    /\ UNCHANGED <<provider, ticket, events, faults>>

Goto(pc) == call' = [call EXCEPT !.pc = pc] /\ UNCHANGED result

End(ok, error) ==
    /\ call' = Idle
    /\ result' = [op |-> call.op, kind |-> Arg.kind, to |-> To, ok |-> ok,
                  error |-> error]
Return       == End(TRUE, "none")
Raise(error) == End(FALSE, error)

Silent == UNCHANGED <<provider, ticket, bounds, history>>

(* A request without an answer, which may have taken effect.               *)
Lost(effect) ==
    /\ faults < MaxFaults
    /\ faults' = faults + 1
    /\ effect \/ UNCHANGED ticket
    /\ Raise("transport")
    /\ UNCHANGED <<provider, calls, events, history>>

(* The server may refuse any request, whatever was written before it.      *)
Refused == Raise("refused") /\ Silent

Taken(effect, next) ==
    \/ effect /\ next /\ UNCHANGED <<provider, bounds, history>>
    \/ Lost(effect)
Answered(next) ==
    \/ next /\ Silent
    \/ Lost(UNCHANGED ticket)
Write(effect, next) == Taken(effect, next) \/ Refused
Read(next) == Answered(next) \/ Refused

SetRels(new)     == rels' = new /\ UNCHANGED <<body, state>>
SetBody(new, st) == body' = new /\ state' = st /\ UNCHANGED rels

-----------------------------------------------------------------------------
(* Everybody else.                                                         *)

Other(change) ==
    /\ events < MaxEvents
    /\ events' = events + 1
    /\ alone' = FALSE
    /\ change
    /\ UNCHANGED <<provider, call, result, calls, faults, before>>

Relate == Other(\E k \in Kinds, t \in Targets :
                  Allowed(k, t) /\ SetRels(Added(k, t)))
Unrelate == Other(\E i \in DOMAIN rels : SetRels(RemoveAt(rels, i)))
Edit == Other(\/ \E t \in Targets, own \in BOOLEAN :
                    SetBody(Append(body, Line(t, own)), state)
              \/ \E i \in DOMAIN body : SetBody(RemoveAt(body, i), state))
Flip == Other(\E st \in {"open", "closed"} : st # state /\ SetBody(body, st))

Environment == Relate \/ Unrelate \/ Edit \/ Flip
=============================================================================
