---------------------------- MODULE MetadataCache ----------------------------
(***************************************************************************)
(* Azure DevOps' caches of repository ids, work-item types, states,        *)
(* fields, allowed values and classification paths: an entry has an expiry *)
(* date, threads share it, and the lock is held for one dictionary access  *)
(* at a time, never while an entry is judged or a request is out.          *)
(***************************************************************************)
EXTENDS Naturals

CONSTANTS
    Callers,
    Keys,
    Nullable,       \* the keys for which the answer may be that there is no value
    Values, NoValue,
    TTL,
    MaxDelay,       \* an answer is stored no later than this after it was given
    MaxClock

VARIABLES
    clock,
    server,         \* what a fetch of a key returns
    cached,         \* the dictionaries, as one
    call,           \* what each thread is doing
    result,         \* what its last call returned, and when
    held,           \* history: when a key last had a value on the server
    excused         \* history: the keys whose last fetch failed, or that were cleared

metadataVars == <<clock, server, cached, call, result, held, excused>>

ASSUME CacheConstants ==
    /\ Nullable \subseteq Keys
    /\ NoValue \notin Values
    /\ TTL \in Nat \ {0} /\ MaxDelay \in Nat /\ MaxClock \in Nat

Answers == Values \cup {NoValue}
Copies == [expires : Nat, value : Answers]
Missing == [none |-> TRUE]
Idle    == [pc |-> "idle"]
NoResult == [pc |-> "none"]

MetadataInit ==
    /\ clock = 0
    /\ server \in [Keys -> Answers]
    /\ cached = [k \in Keys |-> Missing]
    /\ call = [t \in Callers |-> Idle]
    /\ result = [t \in Callers |-> NoResult]
    /\ held = {[key |-> k, value |-> server[k], at |-> 0] : k \in Keys}
    /\ excused = Keys

-----------------------------------------------------------------------------
(* A call.                                                                 *)

Goto(t, new) == call' = [call EXCEPT ![t] = new] /\ UNCHANGED result
Finish(t, key, value) ==
    /\ call' = [call EXCEPT ![t] = Idle]
    /\ result' = [result EXCEPT ![t] =
                    [pc |-> "done", key |-> key, value |-> value, at |-> clock]]

Fetching(key) == [pc |-> "fetch", key |-> key]

(* _cache_get, in the three pieces that other threads may come between.    *)
CacheGet(t, k) ==
    /\ call[t].pc = "idle"
    /\ call' = [call EXCEPT ![t] =
                  IF cached[k] = Missing THEN Fetching(k)
                  ELSE [pc |-> "test", key |-> k, hit |-> cached[k]]]
    /\ result' = [result EXCEPT ![t] = NoResult]
    /\ UNCHANGED <<clock, server, cached, held, excused>>

Expired_After(e) == clock > e.expires
Expired(e) == clock >= e.expires

(* A stored None cannot be told from a miss.                               *)
Test(t) ==
    /\ call[t].pc = "test"
    /\ LET k == call[t].key
           hit == call[t].hit
       IN  \/ Expired(hit) /\ Goto(t, [pc |-> "drop", key |-> k])
           \/ /\ ~Expired(hit)
              /\ IF hit.value = NoValue THEN Goto(t, Fetching(k))
                                        ELSE Finish(t, k, hit.value)
    /\ UNCHANGED <<clock, server, cached, held, excused>>

AfterDrop_NoValue(t, k) ==
    IF k \in Nullable THEN Finish(t, k, NoValue) ELSE Goto(t, Fetching(k))
AfterDrop(t, k) == Goto(t, Fetching(k))

(* Whatever is there by now is dropped.                                    *)
Drop(t) ==
    /\ call[t].pc = "drop"
    /\ cached' = [cached EXCEPT ![call[t].key] = Missing]
    /\ AfterDrop(t, call[t].key)
    /\ UNCHANGED <<clock, server, held, excused>>

(* What does not exist is an error, except for the values of a field.      *)
Fetch(t) ==
    /\ call[t].pc = "fetch"
    /\ LET k == call[t].key
       IN  /\ server[k] = NoValue => k \in Nullable
           /\ Goto(t, [pc |-> "put", key |-> k, value |-> server[k], read |-> clock])
    /\ UNCHANGED <<clock, server, cached, held, excused>>

FetchFails(t) ==
    /\ call[t].pc = "fetch"
    /\ Goto(t, Idle)
    /\ excused' = excused \cup {call[t].key}
    /\ UNCHANGED <<clock, server, cached, held>>

(* _cache_put, which reads the clock under the lock.                       *)
Put(t) ==
    /\ call[t].pc = "put"
    /\ LET k == call[t].key
       IN  /\ cached' = [cached EXCEPT ![k] = [expires |-> clock + TTL,
                                             value |-> call[t].value]]
           /\ Finish(t, k, call[t].value)
           /\ excused' = excused \ {k}
    /\ UNCHANGED <<clock, server, held>>

CacheClearAll ==
    /\ cached' = [k \in Keys |-> Missing]
    /\ excused' = Keys
    /\ UNCHANGED <<clock, server, call, result, held>>

-----------------------------------------------------------------------------
(* The administrators of the project, and time.                            *)

Noted(now) ==
    {h \in held : \A n \in now : h.key # n.key \/ h.value # n.value} \cup now

Change(k, v) ==
    /\ v # server[k]
    /\ server' = [server EXCEPT ![k] = v]
    /\ held' = Noted({[key |-> k, value |-> v, at |-> clock]})
    /\ UNCHANGED <<clock, cached, call, result, excused>>

Tick ==
    /\ clock < MaxClock
    /\ \A t \in Callers : call[t].pc = "put" => clock < call[t].read + MaxDelay
    /\ clock' = clock + 1
    /\ held' = Noted({[key |-> k, value |-> server[k], at |-> clock'] : k \in Keys})
    /\ UNCHANGED <<server, cached, call, result, excused>>

ThreadNext(t) ==
    \/ \E k \in Keys : CacheGet(t, k)
    \/ Test(t) \/ Drop(t) \/ Fetch(t) \/ FetchFails(t) \/ Put(t)

MetadataNext ==
    \/ \E t \in Callers : ThreadNext(t)
    \/ CacheClearAll
    \/ \E k \in Keys, v \in Answers : Change(k, v)
    \/ Tick

MetadataSpec == MetadataInit /\ [][MetadataNext]_metadataVars

-----------------------------------------------------------------------------
(* Whoever gets a value from azuredevops.py's cached lookups gets one the  *)
(* server had less than the time to live, and the time an answer may take, *)
(* ago: however the threads' reads, drops and stores fall between each     *)
(* other, and although an older answer may replace a younger one.          *)
Since(k, v, now) ==
    \E h \in held : h.key = k /\ h.value = v /\ now < h.at + TTL + MaxDelay
Fresh ==
    \A t \in Callers :
        result[t] # NoResult => Since(result[t].key, result[t].value, result[t].at)

(* _cache_get may drop a value another thread has just stored, but then it *)
(* is on its way to store another: a key that was filled and is empty now  *)
(* is being fetched, unless the last fetch failed.                         *)
Refilled ==
    \A k \in Keys \ excused : cached[k] = Missing =>
        \E t \in Callers : call[t].pc \in {"fetch", "put"} /\ call[t].key = k
=============================================================================
