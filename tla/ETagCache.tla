------------------------------ MODULE ETagCache ------------------------------
(***************************************************************************)
(* The conditional-request cache every provider client is built on         *)
(* (providers/_http_cache.py).  One module-level store is shared by all    *)
(* clients and threads of the process; a lock guards each access to it but *)
(* is not held while the request is on the wire.                           *)
(*                                                                         *)
(* A call of ETagTransport.handle_request is four steps that interleave    *)
(* with other calls and with changes on the server: Begin decides whether  *)
(* the request goes through the cache, Lookup captures the stored entry,   *)
(* Serve is the server's answer (external), Receive replays or stores.     *)
(***************************************************************************)
CONSTANTS
    Threads,    \* callers of handle_request
    Resources,  \* normalised GET URLs (_cache_key)
    States, Links, Bodies,
    Account,    \* [Threads -> account]: whose token a thread sends
    Body,       \* [account -> [States -> Bodies]]: what an account sees
    Tag,        \* [Bodies -> validators or None]: the ETag, else the
                \* Last-Modified date, the server sends with a body
    None

VARIABLES
    content,    \* [Resources -> States], held by the server
    link,       \* [Resources -> Links]: the pagination headers it sends
    store,      \* _etag_store: [Resources -> entry or None]
    pc,         \* where a thread is in handle_request
    req,        \* the request it handles
    entry,      \* the entry it captured under the lock
    resp        \* the wire response; from "done" on, what the caller gets

vars == <<content, link, store, pc, req, entry, resp>>

Kinds    == {"get", "paged", "write"}
Requests == [kind : Kinds, res : Resources]

Validators == {Tag[b] : b \in Bodies} \ {None}
Entries    == [tag : Validators, body : Bodies, link : Links]
Responses  == [status : {"ok", "304", "error"},
               body : Bodies \cup {None}, link : Links \cup {None}]
PCs        == {"idle", "lookup", "send", "receive", "done"}

(* A validator stands for one representation: RFC 9110 for strong entity   *)
(* tags.  None is what a body without ETag and Last-Modified carries.      *)
ASSUME ValidatorIdentifiesBody ==
    \A b1, b2 \in Bodies : Tag[b1] # None /\ Tag[b1] = Tag[b2] => b1 = b2

ASSUME ConstantTypes ==
    /\ None \notin Bodies \cup Links \cup Requests
    /\ None \notin [tag : {Tag[b] : b \in Bodies}, body : Bodies, link : Links]
    /\ None \notin [status : {"ok", "304", "error"},
                    body : Bodies \cup {None}, link : Links \cup {None}]
    /\ \A t \in Threads : \A s \in States : Body[Account[t]][s] \in Bodies

Init ==
    /\ content \in [Resources -> States]
    /\ link \in [Resources -> Links]
    /\ store = [r \in Resources |-> None]
    /\ pc = [t \in Threads |-> "idle"]
    /\ req = [t \in Threads |-> None]
    /\ entry = [t \in Threads |-> None]
    /\ resp = [t \in Threads |-> None]

(* GET requests without a page / per_page parameter are the ones the cache *)
(* intercepts; the others go straight to the wire.                         *)
Intercepted(r) == r.kind = "get"

Begin(t, r) ==
    /\ pc[t] = "idle"
    /\ pc' = [pc EXCEPT ![t] = IF Intercepted(r) THEN "lookup" ELSE "send"]
    /\ req' = [req EXCEPT ![t] = r]
    /\ UNCHANGED <<content, link, store, entry, resp>>

Lookup(t) ==
    /\ pc[t] = "lookup"
    /\ entry' = [entry EXCEPT ![t] = store[req[t].res]]
    /\ pc' = [pc EXCEPT ![t] = "send"]
    /\ UNCHANGED <<content, link, store, req, resp>>

Current(t) == Body[Account[t]][content[req[t].res]]

(* External: the server answers a conditional GET with 304 when its        *)
(* validator still is the one sent, or with the full representation.       *)
ServeNotModified(t) ==
    /\ pc[t] = "send"
    /\ entry[t] # None
    /\ entry[t].tag = Tag[Current(t)]
    /\ resp' = [resp EXCEPT ![t] =
                  [status |-> "304", body |-> None, link |-> None]]
    /\ pc' = [pc EXCEPT ![t] = "receive"]
    /\ UNCHANGED <<content, link, store, req, entry>>

ServeFull(t) ==
    /\ pc[t] = "send"
    /\ req[t].kind # "write"
    /\ resp' = [resp EXCEPT ![t] =
                  [status |-> "ok", body |-> Current(t), link |-> link[req[t].res]]]
    /\ pc' = [pc EXCEPT ![t] = "receive"]
    /\ UNCHANGED <<content, link, store, req, entry>>

ServeWrite(t, s) ==
    /\ pc[t] = "send"
    /\ req[t].kind = "write"
    /\ content' = [content EXCEPT ![req[t].res] = s]
    /\ resp' = [resp EXCEPT ![t] = [status |-> "ok", body |-> None, link |-> None]]
    /\ pc' = [pc EXCEPT ![t] = "receive"]
    /\ UNCHANGED <<link, store, req, entry>>

(* An error status, or a transport exception: both leave the store alone.  *)
ServeError(t) ==
    /\ pc[t] = "send"
    /\ resp' = [resp EXCEPT ![t] =
                  [status |-> "error", body |-> None, link |-> None]]
    /\ pc' = [pc EXCEPT ![t] = "receive"]
    /\ UNCHANGED <<content, link, store, req, entry>>

(* 304: the synthetic 200 is built from the entry captured at Lookup.      *)
Replay_FromStore(t) ==
    /\ pc[t] = "receive"
    /\ resp[t].status = "304"
    /\ store[req[t].res] # None
    /\ resp' = [resp EXCEPT ![t] =
                  [status |-> "ok", body |-> store[req[t].res].body,
                   link |-> store[req[t].res].link]]
    /\ pc' = [pc EXCEPT ![t] = "done"]
    /\ UNCHANGED <<content, link, store, req, entry>>

Replay(t) ==
    /\ pc[t] = "receive"
    /\ resp[t].status = "304"
    /\ resp' = [resp EXCEPT ![t] =
                  [status |-> "ok", body |-> entry[t].body, link |-> entry[t].link]]
    /\ pc' = [pc EXCEPT ![t] = "done"]
    /\ UNCHANGED <<content, link, store, req, entry>>

(* The entry a full response leaves behind: its own validator and body.    *)
NewEntry(t) ==
    [tag |-> Tag[resp[t].body], body |-> resp[t].body, link |-> resp[t].link]

(* Any other response is handed on; a success to an intercepted request    *)
(* that carries a validator replaces the entry, whatever is stored by now. *)
PassOn(t) ==
    /\ pc[t] = "receive"
    /\ resp[t].status # "304"
    /\ store' = IF /\ Intercepted(req[t])
                   /\ resp[t].status = "ok"
                   /\ Tag[resp[t].body] # None
                THEN [store EXCEPT ![req[t].res] = NewEntry(t)]
                ELSE store
    /\ pc' = [pc EXCEPT ![t] = "done"]
    /\ UNCHANGED <<content, link, req, entry, resp>>

Return(t) ==
    /\ pc[t] = "done"
    /\ pc' = [pc EXCEPT ![t] = "idle"]
    /\ req' = [req EXCEPT ![t] = None]
    /\ entry' = [entry EXCEPT ![t] = None]
    /\ resp' = [resp EXCEPT ![t] = None]
    /\ UNCHANGED <<content, link, store>>

(* clear_etag_cache *)
Clear ==
    /\ store' = [r \in Resources |-> None]
    /\ UNCHANGED <<content, link, pc, req, entry, resp>>

(* External: another client changes the resource or the collection.        *)
Drift(r, s, l) ==
    /\ content' = [content EXCEPT ![r] = s]
    /\ link' = [link EXCEPT ![r] = l]
    /\ UNCHANGED <<store, pc, req, entry, resp>>

Next ==
    \/ \E t \in Threads, r \in Requests : Begin(t, r)
    \/ \E t \in Threads : Lookup(t)
    \/ \E t \in Threads : ServeNotModified(t)
    \/ \E t \in Threads : ServeFull(t)
    \/ \E t \in Threads, s \in States : ServeWrite(t, s)
    \/ \E t \in Threads : ServeError(t)
    \/ \E t \in Threads : Replay(t)
    \/ \E t \in Threads : PassOn(t)
    \/ \E t \in Threads : Return(t)
    \/ Clear
    \/ \E r \in Resources, s \in States, l \in Links : Drift(r, s, l)

Spec == Init /\ [][Next]_vars
-----------------------------------------------------------------------------
TypeOK ==
    /\ content \in [Resources -> States]
    /\ link \in [Resources -> Links]
    /\ store \in [Resources -> Entries \cup {None}]
    /\ pc \in [Threads -> PCs]
    /\ req \in [Threads -> Requests \cup {None}]
    /\ entry \in [Threads -> Entries \cup {None}]
    /\ resp \in [Threads -> Responses \cup {None}]
    /\ \A t \in Threads : (pc[t] = "idle") <=> (req[t] = None)
    /\ \A t \in Threads : pc[t] \in {"receive", "done"} <=> resp[t] # None
    /\ \A t \in Threads :
          resp[t] # None /\ resp[t].status = "ok" /\ req[t].kind # "write" =>
             resp[t].body \in Bodies /\ resp[t].link \in Links

(* Every entry, stored or captured, pairs a validator with the body the    *)
(* server sent it for (_http_cache.py:151-171): the reason why a 304 for   *)
(* the validator vouches for the body.                                     *)
Coherent(e) == e # None => Tag[e.body] = e.tag

EntriesCoherent ==
    /\ \A r \in Resources : Coherent(store[r])
    /\ \A t \in Threads : Coherent(entry[t])

(* A thread has a captured entry only for a request the cache intercepted, *)
(* and a 304 only with a captured entry: handle_request never has to hand  *)
(* a bare 304 to its caller.                                               *)
NoBare304 ==
    \A t \in Threads :
        /\ pc[t] = "lookup" \/ entry[t] # None =>
              req[t] # None /\ Intercepted(req[t])
        /\ resp[t] # None /\ resp[t].status = "304" =>
              pc[t] = "receive" /\ entry[t] # None

(* The inductive invariant: what holds between the steps of every call.    *)
CacheInv == TypeOK /\ EntriesCoherent /\ NoBare304

(* What the caller of thread t sees: a 304 on the wire is already the 200  *)
(* it will be turned into.                                                 *)
Seen(t) ==
    IF pc[t] \notin {"receive", "done"} THEN None
    ELSE IF resp[t].status = "error"
         THEN [status |-> "error", body |-> None, link |-> None]
    ELSE [status |-> "ok",
          body |-> IF req[t].kind = "write" THEN None
                   ELSE IF resp[t].status = "304" THEN entry[t].body
                   ELSE resp[t].body,
          link |-> IF req[t].kind = "paged" THEN resp[t].link ELSE None]

Phase(t) ==
    IF pc[t] = "idle" THEN "idle"
    ELSE IF pc[t] \in {"lookup", "send"} THEN "waiting" ELSE "answered"

Plain == INSTANCE PlainTransport WITH
    phase  <- [t \in Threads |-> Phase(t)],
    want   <- req,
    answer <- [t \in Threads |-> Seen(t)]

(* The cache is invisible: for every interleaving of threads, server-side  *)
(* changes, overlapping fills of one entry and clears, each caller gets    *)
(* the answer an uncached client would have got at the instant the server  *)
(* was asked, body of a plain GET and pagination headers included.         *)
Transparent == Plain!Spec
=============================================================================
