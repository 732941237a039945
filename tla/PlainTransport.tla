--------------------------- MODULE PlainTransport ---------------------------
(***************************************************************************)
(* What the providers' HTTP clients promise their callers when no cache is *)
(* in the way: a request is sent, the server answers it at one instant     *)
(* with the state it has then, and the caller gets that answer.  This is   *)
(* the contract ETagCache has to be indistinguishable from.                *)
(*                                                                         *)
(* For a plain GET the contract covers the status and the body; for a      *)
(* paginated GET it also covers the pagination headers (Link,              *)
(* X-Total-Pages), which the providers read to find the next page.         *)
(***************************************************************************)
CONSTANTS
    Threads,    \* callers of the shared HTTP client
    Resources,  \* what a normalised URL names
    States,     \* what the server may hold for a resource
    Links,      \* values of the pagination headers of a collection
    Bodies,     \* representations the server may send
    Account,    \* [Threads -> account]: whose token a thread sends
    Body,       \* [account -> [States -> Bodies]]: what an account sees
    None

VARIABLES
    content,    \* [Resources -> States], held by the server
    link,       \* [Resources -> Links], held by the server
    phase,      \* [Threads -> {"idle", "waiting", "answered"}]
    want,       \* the request a thread has in flight
    answer      \* what the server answered it

vars == <<content, link, phase, want, answer>>

Kinds    == {"get", "paged", "write"}
Requests == [kind : Kinds, res : Resources]

(* The answer a request of kind k gets when the body is b and the header l *)
Answered(k, b, l) ==
    [status |-> "ok",
     body   |-> IF k = "write" THEN None ELSE b,
     link   |-> IF k = "paged" THEN l ELSE None]

Failed == [status |-> "error", body |-> None, link |-> None]

Init ==
    /\ content \in [Resources -> States]
    /\ link \in [Resources -> Links]
    /\ phase = [t \in Threads |-> "idle"]
    /\ want = [t \in Threads |-> None]
    /\ answer = [t \in Threads |-> None]

Ask(t, r) ==
    /\ phase[t] = "idle"
    /\ phase' = [phase EXCEPT ![t] = "waiting"]
    /\ want' = [want EXCEPT ![t] = r]
    /\ UNCHANGED <<content, link, answer>>

(* A read is answered from the state of that instant. *)
AnswerRead(t) ==
    /\ phase[t] = "waiting"
    /\ want[t].kind # "write"
    /\ phase' = [phase EXCEPT ![t] = "answered"]
    /\ answer' = [answer EXCEPT ![t] =
                    Answered(want[t].kind,
                             Body[Account[t]][content[want[t].res]],
                             link[want[t].res])]
    /\ UNCHANGED <<content, link, want>>

AnswerWrite(t, s) ==
    /\ phase[t] = "waiting"
    /\ want[t].kind = "write"
    /\ phase' = [phase EXCEPT ![t] = "answered"]
    /\ content' = [content EXCEPT ![want[t].res] = s]
    /\ answer' = [answer EXCEPT ![t] = Answered("write", None, None)]
    /\ UNCHANGED <<link, want>>

AnswerError(t) ==
    /\ phase[t] = "waiting"
    /\ phase' = [phase EXCEPT ![t] = "answered"]
    /\ answer' = [answer EXCEPT ![t] = Failed]
    /\ UNCHANGED <<content, link, want>>

Finish(t) ==
    /\ phase[t] = "answered"
    /\ phase' = [phase EXCEPT ![t] = "idle"]
    /\ want' = [want EXCEPT ![t] = None]
    /\ answer' = [answer EXCEPT ![t] = None]
    /\ UNCHANGED <<content, link>>

(* Somebody else changes the resource, or only the collection around it.   *)
ServerChanges(r, s, l) ==
    /\ content' = [content EXCEPT ![r] = s]
    /\ link' = [link EXCEPT ![r] = l]
    /\ UNCHANGED <<phase, want, answer>>

Next ==
    \/ \E t \in Threads, r \in Requests : Ask(t, r)
    \/ \E t \in Threads : AnswerRead(t)
    \/ \E t \in Threads, s \in States : AnswerWrite(t, s)
    \/ \E t \in Threads : AnswerError(t)
    \/ \E t \in Threads : Finish(t)
    \/ \E r \in Resources, s \in States, l \in Links : ServerChanges(r, s, l)

Spec == Init /\ [][Next]_vars
=============================================================================
