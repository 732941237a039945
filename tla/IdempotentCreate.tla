-------------------------- MODULE IdempotentCreate --------------------------
(***************************************************************************)
(* create_ticket / create_pr with an idempotency key: callers that share   *)
(* one process-wide store of finished creates (providers/_idempotency.py), *)
(* the create flow of the providers, and a server that keeps every object  *)
(* it was asked to create.                                                 *)
(*                                                                         *)
(* The store's lock covers lookup and record, each on its own; between the *)
(* two a call validates, POSTs and runs the follow-up steps of its plan,   *)
(* any of which may fail after the object exists.  A response can be lost: *)
(* the step happened and the caller gets an exception.                     *)
(***************************************************************************)
EXTENDS CreatePlans, Naturals, FiniteSets

CONSTANTS
    Callers,    \* threads or agents calling into the library
    Requests,   \* the calls they may make, a subset of RequestType
    Objects,    \* identities of created objects; their number bounds a run
    TTL,        \* _ttl_seconds()
    MaxClock    \* bound on the monotonic clock

VARIABLES
    store,      \* _store: [Keys -> entry or None]
    clock,      \* time.monotonic()
    pc,         \* where a caller is in its create call
    cur,        \* its request
    todo,       \* follow-up steps still to run
    mine,       \* the object its POST created, as far as it knows
    stamp,      \* created_monotonic of the entry it is about to store
    out,        \* what its last call returned or raised
    objects,    \* the server: [Objects -> description or None]
    newest,     \* history: stamp of the youngest entry stored per key
    crossed,    \* history: two calls with this key were in flight at once
    due         \* history: at lookup, a replay was owed to this caller

vars == <<store, clock, pc, cur, todo, mine, stamp, out, objects,
          newest, crossed, due>>

ASSUME TTLIsPositive == TTL \in Nat \ {0}
ASSUME ClockIsBounded == MaxClock \in Nat
ASSUME RequestsAreTyped == Requests \subseteq RequestType
Core(r)   == <<r.op, r.args>>
Cores     == {"ticket", "pr"} \X Args
Shape(r)  == IF r.light THEN "ref" ELSE "full"
Entries   == [obj : Objects, shape : {"ref", "full"}, core : Cores, at : Nat]
PCs       == {"idle", "lookup", "reload", "prepare", "post", "follow",
              "record"}
Outcomes  == [kind : {"created", "replay", "conflict", "error", "partial"},
              obj : Objects \cup {None}, shape : {"ref", "full", "none"}]

Described == [key : Keys \cup {None}, core : Cores, born : Nat,
              left : Seq(StepNames)]

ASSUME NoneIsNothing ==
    /\ None \notin Keys /\ None \notin Requests
    /\ None \notin Objects /\ None \notin Nat
    /\ None \notin Entries /\ None \notin Described

InFlight(c, k) == pc[c] # "idle" /\ cur[c].key = k

Init ==
    /\ store = [k \in Keys |-> None]
    /\ clock = 0
    /\ pc = [c \in Callers |-> "idle"]
    /\ cur = [c \in Callers |-> None]
    /\ todo = [c \in Callers |-> <<>>]
    /\ mine = [c \in Callers |-> None]
    /\ stamp = [c \in Callers |-> 0]
    /\ out = [c \in Callers |-> None]
    /\ objects = [o \in Objects |-> None]
    /\ newest = [k \in Keys |-> None]
    /\ crossed = [k \in Keys |-> FALSE]
    /\ due = [c \in Callers |-> FALSE]

Call(c, r) ==
    /\ pc[c] = "idle"
    /\ pc' = [pc EXCEPT ![c] = IF r.key = None THEN "prepare" ELSE "lookup"]
    /\ cur' = [cur EXCEPT ![c] = r]
    /\ todo' = [todo EXCEPT ![c] = <<>>]
    /\ mine' = [mine EXCEPT ![c] = None]
    /\ stamp' = [stamp EXCEPT ![c] = 0]
    /\ out' = [out EXCEPT ![c] = None]
    /\ due' = [due EXCEPT ![c] = FALSE]
    /\ crossed' = [k \in Keys |->
                     crossed[k] \/ (k = r.key /\ \E d \in Callers : InFlight(d, k))]
    /\ UNCHANGED <<store, clock, objects, newest>>

(* The call ends and the caller sees o.                                    *)
Leave(c, o) ==
    /\ pc' = [pc EXCEPT ![c] = "idle"]
    /\ out' = [out EXCEPT ![c] = o]

Raise(c, kind, obj) == Leave(c, [kind |-> kind, obj |-> obj, shape |-> "none"])

Fresh_Strictly(e) == e # None /\ clock - e.at < TTL
Fresh(e) == e # None /\ clock - e.at <= TTL

(* lookup(): an absent or expired entry lets the create go on, an entry    *)
(* for other core arguments is a conflict, the rest is a replay.           *)
Conflicts(e, r) == e.core # Core(r)

(* resolve_replay: a stored reference cannot serve a full result; a stored *)
(* full object is projected down for a light call.                         *)
NeedsReload_Never(e, r) == FALSE
NeedsReload(e, r) == e.shape = "ref" /\ ~r.light
Served(e, r) == IF r.light THEN "ref" ELSE e.shape

Lookup(c) ==
    LET k == cur[c].key
        e == store[k]
    IN  /\ pc[c] = "lookup"
        /\ due' = [due EXCEPT ![c] =
                     newest[k] # None /\ ~crossed[k] /\ clock - newest[k] <= TTL]
        /\ \/ /\ ~Fresh(e)
              /\ store' = [store EXCEPT ![k] = None]
              /\ pc' = [pc EXCEPT ![c] = "prepare"]
              /\ UNCHANGED out
           \/ /\ Fresh(e) /\ Conflicts(e, cur[c])
              /\ Raise(c, "conflict", None)
              /\ UNCHANGED store
           \/ /\ Fresh(e) /\ ~Conflicts(e, cur[c])
              /\ IF NeedsReload(e, cur[c])
                 THEN pc' = [pc EXCEPT ![c] = "reload"] /\ UNCHANGED out
                 ELSE Leave(c, [kind |-> "replay", obj |-> e.obj,
                                shape |-> Served(e, cur[c])])
              /\ UNCHANGED store
        /\ mine' = [mine EXCEPT ![c] = IF Fresh(e) THEN e.obj ELSE None]
        /\ UNCHANGED <<clock, cur, todo, stamp, objects, newest, crossed>>

(* get_ticket / get_pr                                                     *)
Reload(c) ==
    /\ pc[c] = "reload"
    /\ \/ Leave(c, [kind |-> "replay", obj |-> mine[c], shape |-> "full"])
       \/ Raise(c, "error", None)
    /\ UNCHANGED <<store, clock, cur, todo, mine, stamp, objects,
                   newest, crossed, due>>

(* Validation, label checks and lookups of ids: all before the POST.       *)
Prepare(c) ==
    /\ pc[c] = "prepare"
    /\ \/ /\ Accepted(cur[c])
          /\ pc' = [pc EXCEPT ![c] = "post"]
          /\ UNCHANGED out
       \/ Raise(c, "error", None)
    /\ UNCHANGED <<store, clock, cur, todo, mine, stamp, objects,
                   newest, crossed, due>>

(* The POST: refused or never sent; done and answered; done and the        *)
(* response lost (the timeout of the HTTP client).                         *)
Post(c, o) ==
    /\ pc[c] = "post"
    /\ objects[o] = None
    /\ objects' = [objects EXCEPT ![o] =
                     [key |-> cur[c].key, core |-> Core(cur[c]), born |-> clock,
                      left |-> Plan(cur[c])]]
    /\ \/ /\ mine' = [mine EXCEPT ![c] = o]
          /\ todo' = [todo EXCEPT ![c] = Plan(cur[c])]
          /\ pc' = [pc EXCEPT ![c] = "follow"]
          /\ UNCHANGED out
       \/ /\ Raise(c, "error", None)
          /\ UNCHANGED <<mine, todo>>
    /\ UNCHANGED <<store, clock, cur, stamp, newest, crossed, due>>

PostRefused(c) ==
    /\ pc[c] = "post"
    /\ Raise(c, "error", None)
    /\ UNCHANGED <<store, clock, cur, todo, mine, stamp, objects,
                   newest, crossed, due>>

StepDone(c) ==
    /\ todo' = [todo EXCEPT ![c] = Tail(todo[c])]
    /\ objects' = [objects EXCEPT ![mine[c]].left = Tail(todo[c])]

FollowUp(c) ==
    /\ pc[c] = "follow"
    /\ todo[c] # <<>>
    /\ StepDone(c)
    /\ UNCHANGED <<store, clock, pc, cur, mine, stamp, out, newest, crossed, due>>

(* A failing step is tolerated, reported with the object's identity, or    *)
(* passed on as it is; the object stays either way.                        *)
FollowUpFails(c, f) ==
    /\ pc[c] = "follow"
    /\ todo[c] # <<>>
    /\ CanFail(cur[c], Head(todo[c]), f)
    /\ IF Tolerated(Head(todo[c]), f)
       THEN StepDone(c) /\ UNCHANGED <<pc, out>>
       ELSE /\ IF NamesObject(Head(todo[c]), f)
               THEN Raise(c, "partial", mine[c])
               ELSE Raise(c, "error", None)
            /\ UNCHANGED <<todo, objects>>
    /\ UNCHANGED <<store, clock, cur, mine, stamp, newest, crossed, due>>

(* record(): the entry is stamped first and stored under the lock later.   *)
Stamp_BeforeFollowUps(c) ==
    /\ pc[c] = "follow"
    /\ stamp' = [stamp EXCEPT ![c] = clock]
    /\ pc' = [pc EXCEPT ![c] = "record"]
    /\ UNCHANGED <<store, clock, cur, todo, mine, out, objects,
                   newest, crossed, due>>

Stamp(c) ==
    /\ pc[c] = "follow"
    /\ todo[c] = <<>>
    /\ stamp' = [stamp EXCEPT ![c] = clock]
    /\ pc' = [pc EXCEPT ![c] = "record"]
    /\ UNCHANGED <<store, clock, cur, todo, mine, out, objects,
                   newest, crossed, due>>

NewEntry(c) ==
    [obj |-> mine[c], shape |-> Shape(cur[c]), core |-> Core(cur[c]),
     at |-> stamp[c]]

Record(c) ==
    LET k == cur[c].key
    IN  /\ pc[c] = "record"
        /\ store' = IF k = None THEN store ELSE [store EXCEPT ![k] = NewEntry(c)]
        /\ newest' = IF k = None \/ (newest[k] # None /\ newest[k] > stamp[c])
                     THEN newest ELSE [newest EXCEPT ![k] = stamp[c]]
        /\ Leave(c, [kind |-> "created", obj |-> mine[c], shape |-> Shape(cur[c])])
        /\ UNCHANGED <<clock, cur, todo, mine, stamp, objects, crossed, due>>

Tick ==
    /\ clock < MaxClock
    /\ clock' = clock + 1
    /\ UNCHANGED <<store, pc, cur, todo, mine, stamp, out, objects,
                   newest, crossed, due>>

(* The process is restarted: calls and the in-memory store are gone, what  *)
(* the server created stays.  Keys start afresh.                           *)
Restart ==
    /\ store' = [k \in Keys |-> None]
    /\ pc' = [c \in Callers |-> "idle"]
    /\ cur' = [c \in Callers |-> None]
    /\ todo' = [c \in Callers |-> <<>>]
    /\ mine' = [c \in Callers |-> None]
    /\ stamp' = [c \in Callers |-> 0]
    /\ out' = [c \in Callers |-> None]
    /\ newest' = [k \in Keys |-> None]
    /\ crossed' = [k \in Keys |-> FALSE]
    /\ due' = [c \in Callers |-> FALSE]
    /\ UNCHANGED <<clock, objects>>

Next ==
    \/ \E c \in Callers, r \in Requests : Call(c, r)
    \/ \E c \in Callers : Lookup(c)
    \/ \E c \in Callers : Reload(c)
    \/ \E c \in Callers : Prepare(c)
    \/ \E c \in Callers, o \in Objects : Post(c, o)
    \/ \E c \in Callers : PostRefused(c)
    \/ \E c \in Callers : FollowUp(c)
    \/ \E c \in Callers, f \in Failures : FollowUpFails(c, f)
    \/ \E c \in Callers : Stamp(c)
    \/ \E c \in Callers : Record(c)
    \/ Tick
    \/ Restart

Spec == Init /\ [][Next]_vars
-----------------------------------------------------------------------------
TypeOK ==
    /\ store \in [Keys -> Entries \cup {None}]
    /\ clock \in Nat
    /\ pc \in [Callers -> PCs]
    /\ cur \in [Callers -> Requests \cup {None}]
    /\ \A c \in Callers : pc[c] # "idle" => cur[c] # None
    /\ \A c \in Callers : pc[c] = "lookup" => cur[c].key # None
    /\ todo \in [Callers -> Seq(StepNames)]
    /\ mine \in [Callers -> Objects \cup {None}]
    /\ stamp \in [Callers -> Nat]
    /\ out \in [Callers -> Outcomes \cup {None}]
    /\ objects \in [Objects -> Described \cup {None}]
    /\ newest \in [Keys -> Nat \cup {None}]
    /\ crossed \in [Keys -> BOOLEAN]
    /\ due \in [Callers -> BOOLEAN]

(* Once a create with a key has finished, a later call with that key,      *)
(* within the TTL and the life of the process, creates nothing: it is a    *)
(* replay, a conflict or an error.  Calls with one key that overlapped     *)
(* forfeit this for that key (_idempotency.py:13-21), so the promise is    *)
(* about keys that never had two calls in flight.                          *)
Creating == {"prepare", "post", "follow", "record"}

NoDuplicateAfterSuccess ==
    \A c \in Callers : due[c] =>
        /\ pc[c] \notin Creating
        /\ out[c] # None => out[c].kind \notin {"created", "partial"}

(* What a replay hands back was created under the same key, by the same    *)
(* operation with the same core arguments, had all its follow-up steps     *)
(* done, and comes in the shape this caller's light mode asked for         *)
(* (_idempotency.py:106-127, base.py:799-834).                             *)
Finished(o, k) ==
    objects[o] # None /\ objects[o].key = k /\ objects[o].left = <<>>

ReplayIsSound(c) ==
    out[c] # None /\ out[c].kind = "replay" =>
        /\ out[c].obj # None /\ Finished(out[c].obj, cur[c].key)
        /\ objects[out[c].obj].core = Core(cur[c])
        /\ out[c].shape = Shape(cur[c])

ReplaySound == \A c \in Callers : ReplayIsSound(c)

(* IdempotencyConflict is raised only when an object made with other core  *)
(* arguments really exists under the key: light mode, labels or a changed  *)
(* optional part never make a retry a conflict.                            *)
ConflictHasCause(c) ==
    out[c] # None /\ out[c].kind = "conflict" =>
        \E o \in Objects : Finished(o, cur[c].key) /\ objects[o].core # Core(cur[c])

ConflictIsReal == \A c \in Callers : ConflictHasCause(c)

-----------------------------------------------------------------------------
(* Why these hold: the parts of the inductive invariant.                   *)

(* The store holds finished creates only.                                  *)
StoreHoldsFinished ==
    \A k \in Keys : store[k] # None =>
        /\ Finished(store[k].obj, k)
        /\ objects[store[k].obj].core = store[k].core

(* A create past its POST works on an object of its own, and the steps it  *)
(* has left are the ones the object lacks.                                 *)
OwnObject(c) ==
    /\ mine[c] # None
    /\ objects[mine[c]] # None
    /\ objects[mine[c]].key = cur[c].key
    /\ objects[mine[c]].core = Core(cur[c])
    /\ objects[mine[c]].left = todo[c]
    /\ pc[c] = "record" => todo[c] = <<>>

CreatesOwnTheirObject ==
    /\ \A c \in Callers : pc[c] \in {"follow", "record"} => OwnObject(c)
    /\ \A c, d \in Callers :
          /\ pc[c] \in {"follow", "record"} /\ pc[d] \in {"follow", "record"}
          /\ mine[c] = mine[d]
          => c = d

ReloadsKnowTheirObject ==
    \A c \in Callers : pc[c] = "reload" =>
        /\ mine[c] # None /\ Finished(mine[c], cur[c].key)
        /\ objects[mine[c]].core = Core(cur[c])
        /\ ~cur[c].light /\ cur[c].key # None

AloneUnlessCrossed ==
    \A k \in Keys : ~crossed[k] =>
        \A c, d \in Callers : InFlight(c, k) /\ InFlight(d, k) => c = d

(* Without overlap the youngest entry is the stored one while it is fresh. *)
NewestIsStored ==
    \A k \in Keys :
        /\ store[k] # None => newest[k] # None
        /\ newest[k] # None => newest[k] <= clock
        /\ newest[k] # None /\ ~crossed[k] /\ clock - newest[k] <= TTL =>
              store[k] # None /\ store[k].at = newest[k]

StampsAdvance ==
    \A c \in Callers : pc[c] = "record" =>
        /\ stamp[c] <= clock
        /\ cur[c].key # None /\ newest[cur[c].key] # None /\ ~crossed[cur[c].key] =>
              newest[cur[c].key] <= stamp[c]

OutcomesAreFinal ==
    \A c \in Callers :
        /\ out[c] # None => pc[c] = "idle" /\ cur[c] # None
        /\ pc[c] = "lookup" => ~due[c]

CreateInv ==
    /\ TypeOK
    /\ StoreHoldsFinished /\ CreatesOwnTheirObject /\ ReloadsKnowTheirObject
    /\ AloneUnlessCrossed /\ NewestIsStored /\ StampsAdvance /\ OutcomesAreFinal

-----------------------------------------------------------------------------
(* What the module says it protects: "sequential retries (the common       *)
(* timeout/network-error/ambiguous-response case)", _idempotency.py:13-14. *)
(* Without overlapping calls, one key never names two objects made within  *)
(* the TTL.                                                                *)
RetryNeverDuplicates ==
    \A o1, o2 \in Objects :
        /\ objects[o1] # None /\ objects[o2] # None
        /\ objects[o1].key = objects[o2].key /\ objects[o1].key # None
        /\ ~crossed[objects[o1].key]
        /\ objects[o2].born - objects[o1].born \in 0..TTL
        => o1 = o2
=============================================================================
