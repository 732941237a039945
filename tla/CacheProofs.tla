---------------------------- MODULE CacheProofs ----------------------------
(***************************************************************************)
(* Proofs about the two caches of the process, each a specification of its *)
(* own.  First ETagCache, for any number of threads, resources, server     *)
(* states and accounts: types, the inductive invariant CacheInv, and that  *)
(* the cache implements PlainTransport.  Then MetadataCache, for any       *)
(* callers, keys and times to live: what it returns is fresh, and what it  *)
(* drops is fetched again.                                                 *)
(***************************************************************************)
EXTENDS ETagCache, MetadataCache, TLAPS

(* The constants are told apart and typed as ConstantTypes says.           *)
LEMMA NoneIsFresh ==
    /\ None \notin Entries
    /\ None \notin Requests
    /\ None \notin Responses
BY ConstantTypes DEF Entries, Validators, Requests, Kinds, Responses

(* What the server may send is a body, for every thread and server state.  *)
LEMMA CurrentIsBody ==
    ASSUME TypeOK, NEW t \in Threads, req[t] # None
    PROVE  Current(t) \in Bodies
BY ConstantTypes DEF TypeOK, Current, Requests

LEMMA InitInv == Init => CacheInv
BY NoneIsFresh DEF Init, CacheInv, TypeOK, EntriesCoherent, Coherent, NoBare304, PCs

(* Each step of a call keeps the invariant.                                *)
LEMMA StepInv == CacheInv /\ [Next]_vars => CacheInv'
<1> SUFFICES ASSUME CacheInv, [Next]_vars PROVE CacheInv'
  OBVIOUS
<1> USE NoneIsFresh DEF CacheInv, Intercepted
<1>1. CASE \E t \in Threads, r \in Requests : Begin(t, r)
  <2> PICK t \in Threads, r \in Requests : Begin(t, r)
    BY <1>1
  <2>1. TypeOK'
    BY DEF Begin, TypeOK, PCs
  <2>2. EntriesCoherent'
    BY DEF Begin, EntriesCoherent, Coherent, TypeOK
  <2>3. NoBare304'
    BY DEF Begin, NoBare304, TypeOK, PCs
  <2> QED
    BY <2>1, <2>2, <2>3
<1>2. CASE \E t \in Threads : Lookup(t)
  <2> PICK t \in Threads : Lookup(t)
    BY <1>2
  <2>0. req[t] \in Requests /\ req[t].res \in Resources
    BY DEF Lookup, TypeOK, PCs, Requests
  <2>1. TypeOK'
    BY <2>0 DEF Lookup, TypeOK, PCs
  <2>2. EntriesCoherent'
    BY <2>0 DEF Lookup, EntriesCoherent, Coherent, TypeOK
  <2>3. NoBare304'
    BY <2>0 DEF Lookup, NoBare304, TypeOK, PCs
  <2> QED
    BY <2>1, <2>2, <2>3
<1>3. CASE \E t \in Threads : ServeNotModified(t)
  <2> PICK t \in Threads : ServeNotModified(t)
    BY <1>3
  <2>0. req[t] \in Requests /\ req[t].res \in Resources
    BY DEF ServeNotModified, TypeOK, PCs, Requests
  <2>1. TypeOK'
    BY <2>0 DEF ServeNotModified, TypeOK, PCs, Responses
  <2>2. EntriesCoherent'
    BY <2>0 DEF ServeNotModified, EntriesCoherent, Coherent, TypeOK
  <2>3. NoBare304'
    BY <2>0 DEF ServeNotModified, NoBare304, TypeOK, PCs, Responses
  <2> QED
    BY <2>1, <2>2, <2>3
<1>4. CASE \E t \in Threads : ServeFull(t)
  <2> PICK t \in Threads : ServeFull(t)
    BY <1>4
  <2>0. req[t] \in Requests /\ req[t].res \in Resources
    BY DEF ServeFull, TypeOK, PCs, Requests
  <2>a. Current(t) \in Bodies
    BY <2>0, CurrentIsBody
  <2>1. TypeOK'
    BY <2>0, <2>a DEF ServeFull, TypeOK, PCs, Responses
  <2>2. EntriesCoherent'
    BY <2>0, <2>a DEF ServeFull, EntriesCoherent, Coherent, TypeOK
  <2>3. NoBare304'
    BY <2>0, <2>a DEF ServeFull, NoBare304, TypeOK, PCs, Responses
  <2> QED
    BY <2>1, <2>2, <2>3
<1>5. CASE \E t \in Threads, s \in States : ServeWrite(t, s)
  <2> PICK t \in Threads, s \in States : ServeWrite(t, s)
    BY <1>5
  <2>0. req[t] \in Requests /\ req[t].res \in Resources
    BY DEF ServeWrite, TypeOK, PCs, Requests
  <2>1. TypeOK'
    BY <2>0 DEF ServeWrite, TypeOK, PCs, Responses
  <2>2. EntriesCoherent'
    BY <2>0 DEF ServeWrite, EntriesCoherent, Coherent, TypeOK
  <2>3. NoBare304'
    BY <2>0 DEF ServeWrite, NoBare304, TypeOK, PCs, Responses
  <2> QED
    BY <2>1, <2>2, <2>3
<1>6. CASE \E t \in Threads : ServeError(t)
  <2> PICK t \in Threads : ServeError(t)
    BY <1>6
  <2>0. req[t] \in Requests /\ req[t].res \in Resources
    BY DEF ServeError, TypeOK, PCs, Requests
  <2>1. TypeOK'
    BY <2>0 DEF ServeError, TypeOK, PCs, Responses
  <2>2. EntriesCoherent'
    BY <2>0 DEF ServeError, EntriesCoherent, Coherent, TypeOK
  <2>3. NoBare304'
    BY <2>0 DEF ServeError, NoBare304, TypeOK, PCs, Responses
  <2> QED
    BY <2>1, <2>2, <2>3
<1>7. CASE \E t \in Threads : Replay(t)
  <2> PICK t \in Threads : Replay(t)
    BY <1>7
  <2>0. req[t] \in Requests /\ req[t].res \in Resources
    BY DEF Replay, TypeOK, PCs, Requests
  <2>a. entry[t] \in Entries
    BY <2>0 DEF Replay, TypeOK, NoBare304, PCs
  <2>1. TypeOK'
    BY <2>0, <2>a DEF Replay, TypeOK, PCs, Responses, Entries
  <2>2. EntriesCoherent'
    BY <2>0, <2>a DEF Replay, EntriesCoherent, Coherent, TypeOK
  <2>3. NoBare304'
    BY <2>0, <2>a DEF Replay, NoBare304, TypeOK, PCs, Responses, Entries
  <2> QED
    BY <2>1, <2>2, <2>3
<1>8. CASE \E t \in Threads : PassOn(t)
  <2> PICK t \in Threads : PassOn(t)
    BY <1>8
  <2>0. req[t] \in Requests /\ req[t].res \in Resources
    BY DEF PassOn, TypeOK, PCs, Requests
  <2>a. ASSUME resp[t].status = "ok", Intercepted(req[t]), Tag[resp[t].body] # None
         PROVE  NewEntry(t) \in Entries /\ Coherent(NewEntry(t))
    BY <2>0, <2>a DEF PassOn, TypeOK, NewEntry, Entries, Validators, Responses, Coherent, PCs
  <2>1. TypeOK'
    BY <2>0, <2>a DEF PassOn, TypeOK, PCs
  <2>2. EntriesCoherent'
    BY <2>0, <2>a DEF PassOn, EntriesCoherent, Coherent, TypeOK
  <2>3. NoBare304'
    BY <2>0, <2>a DEF PassOn, NoBare304, TypeOK, PCs
  <2> QED
    BY <2>1, <2>2, <2>3
<1>9. CASE \E t \in Threads : Return(t)
  <2> PICK t \in Threads : Return(t)
    BY <1>9
  <2>0. req[t] \in Requests /\ req[t].res \in Resources
    BY DEF Return, TypeOK, PCs, Requests
  <2>1. TypeOK'
    BY <2>0 DEF Return, TypeOK, PCs
  <2>2. EntriesCoherent'
    BY <2>0 DEF Return, EntriesCoherent, Coherent, TypeOK
  <2>3. NoBare304'
    BY <2>0 DEF Return, NoBare304, TypeOK, PCs
  <2> QED
    BY <2>1, <2>2, <2>3
<1>10. CASE Clear
  <2>1. TypeOK'
    BY <1>10 DEF Clear, TypeOK
  <2>2. EntriesCoherent' /\ NoBare304'
    BY <1>10 DEF Clear, EntriesCoherent, Coherent, NoBare304
  <2> QED
    BY <2>1, <2>2
<1>11. CASE \E r \in Resources, s \in States, l \in Links : Drift(r, s, l)
  <2> PICK r \in Resources, s \in States, l \in Links : Drift(r, s, l)
    BY <1>11
  <2>1. TypeOK'
    BY DEF Drift, TypeOK
  <2>2. EntriesCoherent' /\ NoBare304'
    BY DEF Drift, EntriesCoherent, Coherent, NoBare304
  <2> QED
    BY <2>1, <2>2
<1>12. CASE UNCHANGED vars
  BY <1>12 DEF vars, TypeOK, EntriesCoherent, Coherent, NoBare304
<1> QED
  BY <1>1, <1>2, <1>3, <1>4, <1>5, <1>6, <1>7, <1>8, <1>9, <1>10, <1>11, <1>12
     DEF Next

(* CacheInv holds in every reachable state, and with it TypeOK.            *)
THEOREM CacheInvariant == Spec => []CacheInv
<1>1. Init => CacheInv
  BY InitInv
<1>2. CacheInv /\ [Next]_vars => CacheInv'
  BY StepInv
<1> QED
  BY <1>1, <1>2, PTL DEF Spec
-----------------------------------------------------------------------------
(* Every step of the cache is a step of the plain transport, or none of    *)
(* its variables changes.                                                  *)
LEMMA StepRefines == CacheInv /\ [Next]_vars => [Plain!Next]_(Plain!vars)
<1> SUFFICES ASSUME CacheInv, [Next]_vars PROVE [Plain!Next]_(Plain!vars)
  OBVIOUS
<1> USE NoneIsFresh DEF CacheInv
<1>1. CASE \E t \in Threads, r \in Requests : Begin(t, r)
  <2> PICK t \in Threads, r \in Requests : Begin(t, r)
    BY <1>1
  <2>1. \A u \in Threads \ {t} : Phase(u)' = Phase(u) /\ Seen(u)' = Seen(u)
    BY DEF Begin, Phase, Seen, TypeOK
  <2>2. Plain!Ask(t, r)
    BY <2>1 DEF Begin, Plain!Ask, Plain!vars, Phase, Seen, TypeOK
  <2> QED
    BY <2>2 DEF Plain!Next, Plain!Requests, Plain!Kinds, Requests, Kinds
<1>2. CASE \E t \in Threads : Lookup(t)
  <2> PICK t \in Threads : Lookup(t)
    BY <1>2
  <2>0. req[t] \in Requests /\ req[t].res \in Resources
    BY DEF Lookup, TypeOK, PCs, Requests
  <2>1. \A u \in Threads \ {t} : Phase(u)' = Phase(u) /\ Seen(u)' = Seen(u)
    BY DEF Lookup, Phase, Seen, TypeOK
  <2>2. Phase(t)' = Phase(t) /\ Seen(t)' = Seen(t)
    BY <2>0 DEF Lookup, Phase, Seen, TypeOK, NoBare304, Intercepted, Requests, Responses
  <2> QED
    BY <2>1, <2>2 DEF Lookup, Plain!vars
<1>3. CASE \E t \in Threads : ServeNotModified(t)
  <2> PICK t \in Threads : ServeNotModified(t)
    BY <1>3
  <2>0. req[t] \in Requests /\ req[t].res \in Resources
    BY DEF ServeNotModified, TypeOK, PCs, Requests
  <2>1. \A u \in Threads \ {t} : Phase(u)' = Phase(u) /\ Seen(u)' = Seen(u)
    BY DEF ServeNotModified, Phase, Seen, TypeOK
  <2>a. entry[t].body = Current(t) /\ req[t].kind = "get"
    <3>1. Tag[entry[t].body] = Tag[Current(t)] /\ entry[t] \in Entries
      BY <2>0 DEF ServeNotModified, EntriesCoherent, Coherent, TypeOK
    <3>2. Tag[entry[t].body] # None
      BY <3>1 DEF ServeNotModified, EntriesCoherent, Coherent, Entries, Validators
    <3>3. Current(t) \in Bodies /\ entry[t].body \in Bodies
      BY <2>0, <3>1, CurrentIsBody DEF Entries
    <3> QED
      BY <3>1, <3>2, <3>3, ValidatorIdentifiesBody
         DEF ServeNotModified, NoBare304, Intercepted
  <2>2. Phase(t) = "waiting" /\ Phase(t)' = "answered"
    BY DEF ServeNotModified, Phase, TypeOK
  <2>3. Seen(t)' = Plain!Answered(req[t].kind, Current(t), link[req[t].res])
    BY <2>0, <2>a DEF ServeNotModified, Seen, Plain!Answered, TypeOK, NoBare304, Intercepted, Requests
  <2>4. [u \in Threads |-> Phase(u)'] = [[u \in Threads |-> Phase(u)] EXCEPT ![t] = "answered"]
    BY <2>1, <2>2
  <2>5. [u \in Threads |-> Seen(u)'] = [[u \in Threads |-> Seen(u)] EXCEPT ![t] = Plain!Answered(req[t].kind, Current(t), link[req[t].res])]
    BY <2>1, <2>3
  <2>6. Plain!AnswerRead(t)
    BY <2>2, <2>4, <2>5, <2>a DEF ServeNotModified, Plain!AnswerRead, Current, NoBare304, Intercepted
  <2> QED
    BY <2>6 DEF Plain!Next, Plain!Requests, Plain!Kinds, Requests, Kinds
<1>4. CASE \E t \in Threads : ServeFull(t)
  <2> PICK t \in Threads : ServeFull(t)
    BY <1>4
  <2>0. req[t] \in Requests /\ req[t].res \in Resources
    BY DEF ServeFull, TypeOK, PCs, Requests
  <2>1. \A u \in Threads \ {t} : Phase(u)' = Phase(u) /\ Seen(u)' = Seen(u)
    BY DEF ServeFull, Phase, Seen, TypeOK
  <2>2. Phase(t) = "waiting" /\ Phase(t)' = "answered"
    BY DEF ServeFull, Phase, TypeOK
  <2>3. Seen(t)' = Plain!Answered(req[t].kind, Current(t), link[req[t].res])
    BY <2>0 DEF ServeFull, Seen, Plain!Answered, TypeOK, Requests, Kinds
  <2>4. [u \in Threads |-> Phase(u)'] = [[u \in Threads |-> Phase(u)] EXCEPT ![t] = "answered"]
    BY <2>1, <2>2
  <2>5. [u \in Threads |-> Seen(u)'] = [[u \in Threads |-> Seen(u)] EXCEPT ![t] = Plain!Answered(req[t].kind, Current(t), link[req[t].res])]
    BY <2>1, <2>3
  <2>6. Plain!AnswerRead(t)
    BY <2>2, <2>4, <2>5 DEF ServeFull, Plain!AnswerRead, Current
  <2> QED
    BY <2>6 DEF Plain!Next, Plain!Requests, Plain!Kinds, Requests, Kinds
<1>5. CASE \E t \in Threads, s \in States : ServeWrite(t, s)
  <2> PICK t \in Threads, s \in States : ServeWrite(t, s)
    BY <1>5
  <2>0. req[t] \in Requests /\ req[t].res \in Resources
    BY DEF ServeWrite, TypeOK, PCs, Requests
  <2>1. \A u \in Threads \ {t} : Phase(u)' = Phase(u) /\ Seen(u)' = Seen(u)
    BY DEF ServeWrite, Phase, Seen, TypeOK
  <2>2. Phase(t) = "waiting" /\ Phase(t)' = "answered"
    BY DEF ServeWrite, Phase, TypeOK
  <2>3. Seen(t)' = Plain!Answered("write", None, None)
    BY <2>0 DEF ServeWrite, Seen, Plain!Answered, TypeOK
  <2>4. [u \in Threads |-> Phase(u)'] = [[u \in Threads |-> Phase(u)] EXCEPT ![t] = "answered"]
    BY <2>1, <2>2
  <2>5. [u \in Threads |-> Seen(u)'] = [[u \in Threads |-> Seen(u)] EXCEPT ![t] = Plain!Answered("write", None, None)]
    BY <2>1, <2>3
  <2>6. Plain!AnswerWrite(t, s)
    BY <2>2, <2>4, <2>5 DEF ServeWrite, Plain!AnswerWrite
  <2> QED
    BY <2>6 DEF Plain!Next, Plain!Requests, Plain!Kinds, Requests, Kinds
<1>6. CASE \E t \in Threads : ServeError(t)
  <2> PICK t \in Threads : ServeError(t)
    BY <1>6
  <2>0. req[t] \in Requests /\ req[t].res \in Resources
    BY DEF ServeError, TypeOK, PCs, Requests
  <2>1. \A u \in Threads \ {t} : Phase(u)' = Phase(u) /\ Seen(u)' = Seen(u)
    BY DEF ServeError, Phase, Seen, TypeOK
  <2>2. Phase(t) = "waiting" /\ Phase(t)' = "answered"
    BY DEF ServeError, Phase, TypeOK
  <2>3. Seen(t)' = Plain!Failed
    BY <2>0 DEF ServeError, Seen, Plain!Failed, TypeOK
  <2>4. [u \in Threads |-> Phase(u)'] = [[u \in Threads |-> Phase(u)] EXCEPT ![t] = "answered"]
    BY <2>1, <2>2
  <2>5. [u \in Threads |-> Seen(u)'] = [[u \in Threads |-> Seen(u)] EXCEPT ![t] = Plain!Failed]
    BY <2>1, <2>3
  <2>6. Plain!AnswerError(t)
    BY <2>2, <2>4, <2>5 DEF ServeError, Plain!AnswerError
  <2> QED
    BY <2>6 DEF Plain!Next, Plain!Requests, Plain!Kinds, Requests, Kinds
<1>7. CASE \E t \in Threads : Replay(t)
  <2> PICK t \in Threads : Replay(t)
    BY <1>7
  <2>0. req[t] \in Requests /\ req[t].res \in Resources
    BY DEF Replay, TypeOK, PCs, Requests
  <2>1. \A u \in Threads \ {t} : Phase(u)' = Phase(u) /\ Seen(u)' = Seen(u)
    BY DEF Replay, Phase, Seen, TypeOK
  <2>2. Phase(t)' = Phase(t) /\ Seen(t)' = Seen(t)
    BY <2>0 DEF Replay, Phase, Seen, TypeOK, NoBare304, Intercepted, Requests, Responses
  <2> QED
    BY <2>1, <2>2 DEF Replay, Plain!vars
<1>8. CASE \E t \in Threads : PassOn(t)
  <2> PICK t \in Threads : PassOn(t)
    BY <1>8
  <2>0. req[t] \in Requests /\ req[t].res \in Resources
    BY DEF PassOn, TypeOK, PCs, Requests
  <2>1. \A u \in Threads \ {t} : Phase(u)' = Phase(u) /\ Seen(u)' = Seen(u)
    BY DEF PassOn, Phase, Seen, TypeOK
  <2>2. Phase(t)' = Phase(t) /\ Seen(t)' = Seen(t)
    BY <2>0 DEF PassOn, Phase, Seen, TypeOK, NoBare304, Intercepted, Requests, Responses
  <2> QED
    BY <2>1, <2>2 DEF PassOn, Plain!vars
<1>9. CASE \E t \in Threads : Return(t)
  <2> PICK t \in Threads : Return(t)
    BY <1>9
  <2>0. req[t] \in Requests /\ req[t].res \in Resources
    BY DEF Return, TypeOK, PCs, Requests
  <2>1. \A u \in Threads \ {t} : Phase(u)' = Phase(u) /\ Seen(u)' = Seen(u)
    BY DEF Return, Phase, Seen, TypeOK
  <2>2. Plain!Finish(t)
    BY <2>1 DEF Return, Plain!Finish, Plain!vars, Phase, Seen, TypeOK
  <2> QED
    BY <2>2 DEF Plain!Next, Plain!Requests, Plain!Kinds, Requests, Kinds
<1>10. CASE Clear
  BY <1>10 DEF Clear, Plain!vars, Phase, Seen
<1>11. CASE \E r \in Resources, s \in States, l \in Links : Drift(r, s, l)
  <2> PICK r \in Resources, s \in States, l \in Links : Drift(r, s, l)
    BY <1>11
  <2>1. Plain!ServerChanges(r, s, l)
    BY DEF Drift, Plain!ServerChanges, Phase, Seen
  <2> QED
    BY <2>1 DEF Plain!Next
<1>12. CASE UNCHANGED vars
  BY <1>12 DEF vars, Plain!vars, Phase, Seen
<1> QED
  BY <1>1, <1>2, <1>3, <1>4, <1>5, <1>6, <1>7, <1>8, <1>9, <1>10, <1>11, <1>12
     DEF Next

LEMMA InitRefines == Init => Plain!Init
BY DEF Init, Plain!Init, Phase, Seen

(* ETagCache implements PlainTransport: callers cannot tell the cache is   *)
(* there, whatever the interleaving (_http_cache.py:101-173).              *)
THEOREM CacheIsTransparent == Spec => Transparent
<1>1. Init => Plain!Init
  BY InitRefines
<1>2. CacheInv /\ [Next]_vars => [Plain!Next]_(Plain!vars)
  BY StepRefines
<1> QED
  BY <1>1, <1>2, CacheInvariant, PTL DEF Spec, Transparent, Plain!Spec

-----------------------------------------------------------------------------
(* The metadata caches of Azure DevOps.                                    *)

Calls ==
    {Idle} \cup [pc : {"test"}, key : Keys, hit : Copies]
           \cup [pc : {"drop", "fetch"}, key : Keys]
           \cup [pc : {"put"}, key : Keys, value : Answers, read : Nat]
Results == {NoResult} \cup [pc : {"done"}, key : Keys, value : Answers, at : Nat]
Notes   == [key : Keys, value : Answers, at : Nat]

TypeInv ==
    /\ clock \in Nat
    /\ server \in [Keys -> Answers]
    /\ cached \in [Keys -> Copies \cup {Missing}]
    /\ call \in [Callers -> Calls]
    /\ result \in [Callers -> Results]
    /\ held \subseteq Notes
    /\ excused \subseteq Keys

(* Some note says the value was on the server as late as n.                *)
HeldAt(k, v, n, notes) ==
    \E h \in notes : h.key = k /\ h.value = v /\ h.at >= n

(* What an entry that is good until n must have been fetched at.           *)
Bought(k, e, notes) ==
    \E h \in notes : /\ h.key = k /\ h.value = e.value
                     /\ e.expires <= h.at + TTL + MaxDelay

NotesInv ==
    /\ \A h \in held : h.at <= clock
    /\ \A k \in Keys : [key |-> k, value |-> server[k], at |-> clock] \in held

(* Stored entries, those a thread has looked up, and answers on their way. *)
StoreFresh == \A k \in Keys : cached[k] # Missing => Bought(k, cached[k], held)
HitsFresh  == \A t \in Callers :
                call[t].pc = "test" => Bought(call[t].key, call[t].hit, held)
AnswersFresh ==
    \A t \in Callers : call[t].pc = "put" =>
        /\ clock <= call[t].read + MaxDelay
        /\ HeldAt(call[t].key, call[t].value, call[t].read, held)

FreshInv == TypeInv /\ NotesInv /\ StoreFresh /\ HitsFresh /\ AnswersFresh /\ Fresh

-----------------------------------------------------------------------------
(* Notes about the present only ever make the past look younger.           *)
LEMMA NotedKeeps ==
    ASSUME TypeInv, NotesInv, NEW now \in SUBSET Notes, \A n \in now : n.at >= clock,
           NEW h \in held
    PROVE  \E g \in Noted(now) : g.key = h.key /\ g.value = h.value /\ g.at >= h.at
<1>1. h.at <= clock /\ h.at \in Nat
  BY DEF TypeInv, NotesInv, Notes
<1>2. CASE \E n \in now : h.key = n.key /\ h.value = n.value
  <2>1. PICK n \in now : h.key = n.key /\ h.value = n.value
    BY <1>2
  <2>2. n.at >= h.at
    BY <1>1, <2>1 DEF TypeInv, Notes
  <2> QED BY <2>1, <2>2 DEF Noted
<1>3. CASE \A n \in now : h.key # n.key \/ h.value # n.value
  BY <1>1, <1>3 DEF Noted
<1> QED BY <1>2, <1>3

(* So a step that only notes something, or nothing, keeps every promise    *)
(* about entries.                                                          *)
LEMMA NotesKeep ==
    ASSUME TypeInv, NotesInv, NEW now \in SUBSET Notes, \A n \in now : n.at >= clock
    PROVE  /\ \A k \in Keys, e \in Copies : Bought(k, e, held) => Bought(k, e, Noted(now))
           /\ \A k \in Keys, v \in Answers, n \in Nat :
                HeldAt(k, v, n, held) => HeldAt(k, v, n, Noted(now))
           /\ \A k \in Keys, v \in Answers, n \in Nat :
                (\E h \in held : h.key = k /\ h.value = v /\ n < h.at + TTL + MaxDelay)
                => \E h \in Noted(now) :
                     h.key = k /\ h.value = v /\ n < h.at + TTL + MaxDelay
<1>0. TTL \in Nat /\ MaxDelay \in Nat
  BY CacheConstants
<1>1. \A g \in Noted(now) : g.at \in Nat
  BY DEF Noted, TypeInv, Notes
<1>2. \A h \in held : h.at \in Nat
  BY DEF TypeInv, Notes
<1>3. ASSUME NEW k \in Keys, NEW e \in Copies, Bought(k, e, held)
      PROVE  Bought(k, e, Noted(now))
  <2>1. PICK h \in held : /\ h.key = k /\ h.value = e.value
                          /\ e.expires <= h.at + TTL + MaxDelay
    BY <1>3 DEF Bought
  <2>2. PICK g \in Noted(now) : g.key = h.key /\ g.value = h.value /\ g.at >= h.at
    BY NotedKeeps
  <2>3. e.expires \in Nat
    BY DEF Copies
  <2>4. e.expires <= g.at + TTL + MaxDelay
    BY <1>0, <1>1, <1>2, <2>1, <2>2, <2>3
  <2> QED BY <2>1, <2>2, <2>4 DEF Bought
<1>4. ASSUME NEW k \in Keys, NEW v \in Answers, NEW n \in Nat, HeldAt(k, v, n, held)
      PROVE  HeldAt(k, v, n, Noted(now))
  <2>1. PICK h \in held : h.key = k /\ h.value = v /\ h.at >= n
    BY <1>4 DEF HeldAt
  <2>2. PICK g \in Noted(now) : g.key = h.key /\ g.value = h.value /\ g.at >= h.at
    BY NotedKeeps
  <2> QED BY <1>1, <1>2, <2>1, <2>2 DEF HeldAt
<1>5. ASSUME NEW k \in Keys, NEW v \in Answers, NEW n \in Nat, NEW h \in held,
             h.key = k, h.value = v, n < h.at + TTL + MaxDelay
      PROVE  \E g \in Noted(now) :
               g.key = k /\ g.value = v /\ n < g.at + TTL + MaxDelay
  <2>1. PICK g \in Noted(now) : g.key = h.key /\ g.value = h.value /\ g.at >= h.at
    BY NotedKeeps
  <2> QED BY <1>0, <1>1, <1>2, <1>5, <2>1
<1> QED BY <1>3, <1>4, <1>5

LEMMA NotAnEntry == \A e \in Copies : e # Missing
<1>1. \A e \in Copies : DOMAIN e = {"expires", "value"}
  BY DEF Copies
<1>2. DOMAIN Missing = {"none"}
  BY DEF Missing
<1> QED BY <1>1, <1>2

(* A step of one thread that leaves the cache and the clock alone keeps    *)
(* the invariant when the thread's new state is covered by what is there.  *)
LEMMA CallKeeps ==
    ASSUME FreshInv, NEW t \in Callers, NEW new \in Calls,
           UNCHANGED <<clock, server, cached, held>>, excused' \subseteq Keys,
           result' = result \/ result' = [result EXCEPT ![t] = NoResult],
           call' = [call EXCEPT ![t] = new],
           new.pc = "test" => Bought(new.key, new.hit, held),
           new.pc = "put" => /\ clock <= new.read + MaxDelay
                             /\ HeldAt(new.key, new.value, new.read, held)
    PROVE  FreshInv'
<1> USE DEF FreshInv
<1>1. TypeInv'
  BY DEF TypeInv, Results
<1>2. NotesInv' /\ StoreFresh'
  BY DEF NotesInv, StoreFresh
<1>3. HitsFresh'
  BY DEF HitsFresh, TypeInv
<1>4. AnswersFresh'
  BY DEF AnswersFresh, TypeInv
<1>5. Fresh'
  BY DEF Fresh, Since, TypeInv
<1> QED BY <1>1, <1>2, <1>3, <1>4, <1>5

(* A call that ends with a value the server had lately.                    *)
LEMMA FinishKeeps ==
    ASSUME FreshInv, NEW t \in Callers, NEW k \in Keys, NEW v \in Answers,
           Finish(t, k, v), Since(k, v, clock),
           UNCHANGED <<clock, server, held>>, excused' \subseteq Keys,
           cached' \in [Keys -> Copies \cup {Missing}],
           \A j \in Keys : cached'[j] # Missing => Bought(j, cached'[j], held)
    PROVE  FreshInv'
<1> USE DEF FreshInv
<1>1. TypeInv'
  BY DEF TypeInv, Results, Finish, Calls
<1>2. NotesInv' /\ StoreFresh'
  BY DEF NotesInv, StoreFresh
<1>3. HitsFresh' /\ AnswersFresh'
  BY DEF HitsFresh, AnswersFresh, TypeInv, Finish, Idle
<1>4. Fresh'
  BY DEF Fresh, Since, TypeInv, Finish
<1> QED BY <1>1, <1>2, <1>3, <1>4

(* An entry that has not expired was bought lately.                        *)
LEMMA UnexpiredIsFresh ==
    ASSUME TypeInv, NEW k \in Keys, NEW e \in Copies, Bought(k, e, held), ~Expired(e)
    PROVE  Since(k, e.value, clock)
<1>1. PICK h \in held : /\ h.key = k /\ h.value = e.value
                        /\ e.expires <= h.at + TTL + MaxDelay
  BY DEF Bought
<1>2. e.expires \in Nat /\ h.at \in Nat /\ clock \in Nat /\ clock < e.expires
  BY DEF TypeInv, Copies, Notes, Expired
<1>3. TTL \in Nat /\ MaxDelay \in Nat
  BY CacheConstants
<1>4. clock < h.at + TTL + MaxDelay
  BY <1>1, <1>2, <1>3
<1> QED BY <1>1, <1>4 DEF Since

(* The key and the rest of a call under way are what they should be.       *)
LEMMA CallTypes ==
    ASSUME TypeInv, NEW t \in Callers
    PROVE  /\ call[t].pc = "test" => call[t].key \in Keys /\ call[t].hit \in Copies
           /\ call[t].pc \in {"drop", "fetch"} => call[t].key \in Keys
           /\ call[t].pc = "put" => /\ call[t].key \in Keys
                                    /\ call[t].value \in Answers
                                    /\ call[t].read \in Nat
BY DEF TypeInv, Calls, Idle

-----------------------------------------------------------------------------
LEMMA FreshInit == MetadataInit => FreshInv
<1> SUFFICES ASSUME MetadataInit PROVE FreshInv
  OBVIOUS
<1>1. TypeInv
  BY DEF MetadataInit, TypeInv, Calls, Results, Notes
<1>2. NotesInv
  BY DEF MetadataInit, NotesInv
<1>3. StoreFresh /\ HitsFresh /\ AnswersFresh /\ Fresh
  BY DEF MetadataInit, StoreFresh, HitsFresh, AnswersFresh, Fresh, Idle
<1> QED BY <1>1, <1>2, <1>3 DEF FreshInv

LEMMA LookupKeeps ==
    ASSUME FreshInv, NEW t \in Callers, NEW k \in Keys, CacheGet(t, k)
    PROVE  FreshInv'
<1>1. CASE cached[k] = Missing
  <2>1. Fetching(k) \in Calls
    BY DEF Calls, Fetching
  <2> QED BY <1>1, <2>1, CallKeeps DEF CacheGet, Fetching, FreshInv, TypeInv
<1>2. CASE cached[k] # Missing
  <2> DEFINE new == [pc |-> "test", key |-> k, hit |-> cached[k]]
  <2>1. cached[k] \in Copies /\ Bought(k, cached[k], held)
    BY <1>2 DEF FreshInv, TypeInv, StoreFresh
  <2>2. new \in Calls /\ new.pc = "test" /\ new.key = k /\ new.hit = cached[k]
    BY <2>1 DEF Calls
  <2>3. call' = [call EXCEPT ![t] = new]
    BY <1>2 DEF CacheGet
  <2> HIDE DEF new
  <2> QED BY <2>1, <2>2, <2>3, CallKeeps DEF CacheGet, FreshInv, TypeInv
<1> QED BY <1>1, <1>2

LEMMA TestKeeps ==
    ASSUME FreshInv, NEW t \in Callers, Test(t)
    PROVE  FreshInv'
<1> DEFINE k == call[t].key
           hit == call[t].hit
<1>1. /\ k \in Keys /\ hit \in Copies /\ Bought(k, hit, held)
      /\ hit.value \in Answers /\ excused \subseteq Keys
  BY CallTypes DEF Test, FreshInv, HitsFresh, Copies, TypeInv
<1>2. CASE Goto(t, [pc |-> "drop", key |-> k])
  <2>1. [pc |-> "drop", key |-> k] \in Calls
    BY <1>1 DEF Calls
  <2> QED BY <1>1, <1>2, <2>1, CallKeeps DEF Test, Goto
<1>3. CASE Goto(t, Fetching(k))
  <2>1. Fetching(k) \in Calls
    BY <1>1 DEF Calls, Fetching
  <2> QED BY <1>1, <1>3, <2>1, CallKeeps DEF Test, Goto, Fetching
<1>4. CASE ~Expired(hit) /\ Finish(t, k, hit.value)
  <2>1. Since(k, hit.value, clock)
    BY <1>1, <1>4, UnexpiredIsFresh DEF FreshInv
  <2>2. UNCHANGED <<clock, server, cached, held, excused>>
    BY DEF Test
  <2>3. /\ cached' \in [Keys -> Copies \cup {Missing}]
        /\ \A j \in Keys : cached'[j] # Missing => Bought(j, cached'[j], held)
    BY <2>2 DEF FreshInv, TypeInv, StoreFresh
  <2> HIDE DEF k, hit
  <2> QED BY <1>1, <1>4, <2>1, <2>2, <2>3, FinishKeeps
<1> QED BY <1>2, <1>3, <1>4 DEF Test

LEMMA DropKeeps ==
    ASSUME FreshInv, NEW t \in Callers, Drop(t)
    PROVE  FreshInv'
<1>1. call[t].key \in Keys
  BY CallTypes DEF Drop, FreshInv
<1>2. /\ call' = [call EXCEPT ![t] = Fetching(call[t].key)]
      /\ UNCHANGED <<clock, server, held, excused, result>>
      /\ cached' = [cached EXCEPT ![call[t].key] = Missing]
  BY DEF Drop, AfterDrop, Goto
<1>3. TypeInv'
  BY <1>1, <1>2 DEF FreshInv, TypeInv, Calls, Fetching
<1>4. NotesInv' /\ StoreFresh'
  BY <1>1, <1>2 DEF FreshInv, TypeInv, NotesInv, StoreFresh
<1>5. HitsFresh' /\ AnswersFresh'
  BY <1>1, <1>2 DEF FreshInv, TypeInv, HitsFresh, AnswersFresh, Fetching
<1>6. Fresh'
  BY <1>2 DEF FreshInv, Fresh, Since
<1> QED BY <1>3, <1>4, <1>5, <1>6 DEF FreshInv

LEMMA FetchKeeps ==
    ASSUME FreshInv, NEW t \in Callers, Fetch(t)
    PROVE  FreshInv'
<1> DEFINE k == call[t].key
           new == [pc |-> "put", key |-> k, value |-> server[k], read |-> clock]
<1>1. k \in Keys /\ server[k] \in Answers /\ clock \in Nat
  BY CallTypes DEF Fetch, FreshInv, TypeInv
<1>2. /\ new \in Calls /\ new.pc = "put" /\ new.key = k
      /\ new.value = server[k] /\ new.read = clock
  BY <1>1 DEF Calls
<1>3. HeldAt(k, server[k], clock, held)
  BY <1>1 DEF FreshInv, NotesInv, HeldAt
<1>4. clock <= clock + MaxDelay
  BY <1>1, CacheConstants
<1>5. /\ call' = [call EXCEPT ![t] = new]
      /\ UNCHANGED <<clock, server, cached, held, excused, result>>
  BY DEF Fetch, Goto
<1> HIDE DEF new, k
<1> QED BY <1>2, <1>3, <1>4, <1>5, CallKeeps DEF FreshInv, TypeInv

LEMMA FetchFailsKeeps ==
    ASSUME FreshInv, NEW t \in Callers, FetchFails(t)
    PROVE  FreshInv'
<1>1. Idle \in Calls /\ Idle.pc = "idle"
  BY DEF Calls, Idle
<1>2. excused' \subseteq Keys
  BY CallTypes DEF FetchFails, FreshInv, TypeInv
<1> QED BY <1>1, <1>2, CallKeeps DEF FetchFails, Goto

LEMMA PutKeeps ==
    ASSUME FreshInv, NEW t \in Callers, Put(t)
    PROVE  FreshInv'
<1> DEFINE k == call[t].key
           v == call[t].value
           new == [expires |-> clock + TTL, value |-> v]
<1>0. clock \in Nat /\ TTL \in Nat \ {0} /\ MaxDelay \in Nat
  BY CacheConstants DEF FreshInv, TypeInv
<1>1. k \in Keys /\ v \in Answers /\ call[t].read \in Nat
  BY CallTypes DEF Put, FreshInv
<1>2. PICK h \in held : h.key = k /\ h.value = v /\ h.at >= call[t].read
  BY DEF Put, FreshInv, AnswersFresh, HeldAt
<1>3. clock <= call[t].read + MaxDelay /\ h.at \in Nat
  BY DEF Put, FreshInv, AnswersFresh, TypeInv, Notes
<1>4. Since(k, v, clock)
  <2>1. clock < h.at + TTL + MaxDelay
    BY <1>0, <1>1, <1>2, <1>3
  <2> QED BY <1>2, <2>1 DEF Since
<1>5. Bought(k, new, held)
  <2>1. clock + TTL <= h.at + TTL + MaxDelay
    BY <1>0, <1>1, <1>2, <1>3
  <2> QED BY <1>2, <2>1 DEF Bought
<1>6. /\ cached' = [cached EXCEPT ![k] = new]
      /\ Finish(t, k, v) /\ excused' = excused \ {k}
      /\ UNCHANGED <<clock, server, held>>
  BY DEF Put
<1>7. new \in Copies
  BY <1>0, <1>1 DEF Copies
<1> HIDE DEF new, k, v
<1>8. cached' \in [Keys -> Copies \cup {Missing}]
  BY <1>1, <1>6, <1>7 DEF FreshInv, TypeInv
<1>9. \A j \in Keys : cached'[j] # Missing => Bought(j, cached'[j], held)
  BY <1>1, <1>5, <1>6 DEF FreshInv, TypeInv, StoreFresh
<1>10. excused' \subseteq Keys
  BY <1>6 DEF FreshInv, TypeInv
<1> QED BY <1>1, <1>4, <1>6, <1>8, <1>9, <1>10, FinishKeeps

LEMMA ClearKeeps == FreshInv /\ CacheClearAll => FreshInv'
<1> SUFFICES ASSUME FreshInv, CacheClearAll PROVE FreshInv'
  OBVIOUS
<1> USE DEF FreshInv, CacheClearAll
<1>1. TypeInv'
  BY DEF TypeInv
<1>2. NotesInv' /\ StoreFresh' /\ HitsFresh' /\ AnswersFresh'
  BY DEF NotesInv, StoreFresh, HitsFresh, AnswersFresh
<1>3. Fresh'
  BY DEF Fresh, Since
<1> QED BY <1>1, <1>2, <1>3

(* The server moves or time passes: what is noted is about now.            *)
LEMMA NotingKeeps ==
    ASSUME FreshInv, NEW now \in SUBSET Notes,
           clock' \in Nat, clock' >= clock, server' \in [Keys -> Answers],
           \A n \in now : n.at = clock',
           held' = Noted(now), UNCHANGED <<cached, call, result, excused>>,
           \A k \in Keys : [key |-> k, value |-> server'[k], at |-> clock'] \in held',
           \A t \in Callers : call[t].pc = "put" => clock' <= call[t].read + MaxDelay
    PROVE  FreshInv'
<1> USE DEF FreshInv
<1>0. \A n \in now : n.at >= clock
  OBVIOUS
<1>1. TypeInv'
  BY DEF TypeInv, Noted
<1>2. NotesInv'
  BY DEF NotesInv, Noted, TypeInv, Notes
<1>3. StoreFresh'
  BY <1>0, NotesKeep DEF StoreFresh, TypeInv
<1>4. HitsFresh'
  BY <1>0, NotesKeep, CallTypes DEF HitsFresh
<1>5. AnswersFresh'
  BY <1>0, NotesKeep, CallTypes DEF AnswersFresh
<1>6. Fresh'
  <2> SUFFICES ASSUME NEW t \in Callers, result'[t] # NoResult
               PROVE  Since(result[t].key, result[t].value, result[t].at)'
    BY DEF Fresh
  <2>1. /\ result'[t] = result[t] /\ result[t].key \in Keys
        /\ result[t].value \in Answers /\ result[t].at \in Nat
    BY DEF TypeInv, Results
  <2>2. Since(result[t].key, result[t].value, result[t].at)
    BY <2>1 DEF Fresh
  <2> QED BY <1>0, <2>1, <2>2, NotesKeep DEF Since
<1> QED BY <1>1, <1>2, <1>3, <1>4, <1>5, <1>6

LEMMA ChangeKeeps ==
    ASSUME FreshInv, NEW k \in Keys, NEW v \in Answers, Change(k, v)
    PROVE  FreshInv'
<1> DEFINE now == {[key |-> k, value |-> v, at |-> clock]}
<1>1. clock \in Nat /\ server \in [Keys -> Answers]
  BY DEF FreshInv, TypeInv
<1>2. now \in SUBSET Notes /\ \A n \in now : n.at = clock
  BY <1>1 DEF Notes
<1>3. /\ held' = Noted(now) /\ server' = [server EXCEPT ![k] = v]
      /\ UNCHANGED <<clock, cached, call, result, excused>>
  BY DEF Change
<1>4. \A j \in Keys : [key |-> j, value |-> server'[j], at |-> clock'] \in held'
  <2> SUFFICES ASSUME NEW j \in Keys
               PROVE  [key |-> j, value |-> server'[j], at |-> clock] \in Noted(now)
    BY <1>3
  <2>1. CASE j = k
    BY <1>1, <1>3, <2>1 DEF Noted
  <2>2. CASE j # k
    <3>1. server'[j] = server[j]
      BY <1>1, <1>3, <2>2
    <3>2. [key |-> j, value |-> server[j], at |-> clock] \in held
      BY DEF FreshInv, NotesInv
    <3> QED BY <2>2, <3>1, <3>2 DEF Noted
  <2> QED BY <2>1, <2>2
<1>5. \A t \in Callers : call[t].pc = "put" => clock' <= call[t].read + MaxDelay
  BY <1>3 DEF FreshInv, AnswersFresh
<1> HIDE DEF now
<1> QED BY <1>1, <1>2, <1>3, <1>4, <1>5, NotingKeeps

LEMMA TickKeeps == FreshInv /\ Tick => FreshInv'
<1> SUFFICES ASSUME FreshInv, Tick PROVE FreshInv'
  OBVIOUS
<1> DEFINE now == {[key |-> k, value |-> server[k], at |-> clock'] : k \in Keys}
<1>1. clock \in Nat /\ server \in [Keys -> Answers] /\ MaxDelay \in Nat
  BY CacheConstants DEF FreshInv, TypeInv
<1>2. clock' = clock + 1 /\ UNCHANGED <<server, cached, call, result, excused>>
  BY DEF Tick
<1>3. now \in SUBSET Notes /\ \A n \in now : n.at = clock'
  BY <1>1, <1>2 DEF Notes
<1>4. held' = Noted(now)
  BY DEF Tick
<1>5. \A k \in Keys : [key |-> k, value |-> server'[k], at |-> clock'] \in held'
  BY <1>2, <1>4 DEF Noted
<1>6. \A t \in Callers : call[t].pc = "put" => clock' <= call[t].read + MaxDelay
  <2> SUFFICES ASSUME NEW t \in Callers, call[t].pc = "put"
               PROVE  clock + 1 <= call[t].read + MaxDelay
    BY <1>2
  <2>1. call[t].read \in Nat /\ clock < call[t].read + MaxDelay
    BY CallTypes DEF Tick, FreshInv
  <2> QED BY <1>1, <2>1
<1> HIDE DEF now
<1> QED BY <1>1, <1>2, <1>3, <1>4, <1>5, <1>6, NotingKeeps

LEMMA FreshStep == FreshInv /\ [MetadataNext]_metadataVars => FreshInv'
<1> SUFFICES ASSUME FreshInv, [MetadataNext]_metadataVars PROVE FreshInv'
  OBVIOUS
<1>1. ASSUME NEW t \in Callers, ThreadNext(t) PROVE FreshInv'
  BY <1>1, LookupKeeps, TestKeeps, DropKeeps, FetchKeeps, FetchFailsKeeps, PutKeeps
     DEF ThreadNext
<1>2. CASE UNCHANGED metadataVars
  BY <1>2 DEF metadataVars, FreshInv, TypeInv, NotesInv, StoreFresh, HitsFresh, AnswersFresh,
              Fresh, Since, Bought, HeldAt
<1> QED BY <1>1, <1>2, ClearKeeps, ChangeKeeps, TickKeeps DEF MetadataNext

(* A caller of the metadata caches never gets a value that is older than   *)
(* the time to live and the time an answer takes.                          *)
THEOREM CachedValuesAreFresh == MetadataSpec => []Fresh
<1>1. FreshInv => Fresh
  BY DEF FreshInv
<1> QED BY <1>1, FreshInit, FreshStep, PTL DEF MetadataSpec

-----------------------------------------------------------------------------
LEMMA RefilledInit == MetadataInit => Refilled
BY DEF MetadataInit, Refilled

LEMMA RefilledStep == TypeInv /\ Refilled /\ [MetadataNext]_metadataVars => Refilled'
<1> SUFFICES ASSUME TypeInv, Refilled, [MetadataNext]_metadataVars,
                    NEW k \in Keys, k \notin excused', cached'[k] = Missing
             PROVE  \E t \in Callers :
                      call'[t].pc \in {"fetch", "put"} /\ call'[t].key = k
  BY DEF Refilled
<1>1. (cached[k] = Missing /\ k \notin excused) =>
        \E t \in Callers : call[t].pc \in {"fetch", "put"} /\ call[t].key = k
  BY DEF Refilled
<1> DEFINE Busy(c) == \E t \in Callers : c[t].pc \in {"fetch", "put"} /\ c[t].key = k
<1>2. ASSUME NEW s \in Callers, ThreadNext(s) PROVE Busy(call')
  <2>1. ASSUME NEW j \in Keys, CacheGet(s, j) PROVE Busy(call')
    BY <1>1, <2>1 DEF CacheGet, TypeInv, Fetching
  <2>2. CASE Test(s)
    BY <1>1, <2>2 DEF Test, Goto, Finish, TypeInv, Fetching
  <2>3. CASE Drop(s)
    <3>1. CASE call[s].key = k
      BY <2>3, <3>1 DEF Drop, AfterDrop, Goto, TypeInv, Fetching
    <3>2. CASE call[s].key # k
      BY <1>1, <2>3, <3>2 DEF Drop, AfterDrop, Goto, TypeInv
    <3> QED BY <3>1, <3>2
  <2>4. CASE Fetch(s)
    BY <1>1, <2>4 DEF Fetch, Goto, TypeInv
  <2>5. CASE FetchFails(s)
    BY <1>1, <2>5 DEF FetchFails, Goto, TypeInv
  <2>6. CASE Put(s)
    <3>1. call[s].key # k
      <4> SUFFICES ASSUME call[s].key = k PROVE FALSE
        OBVIOUS
      <4>1. cached'[k] = [expires |-> clock + TTL, value |-> call[s].value]
        BY <2>6 DEF Put, TypeInv
      <4>2. [expires |-> clock + TTL, value |-> call[s].value] \in Copies
        BY <2>6, CallTypes, CacheConstants DEF Put, Copies, TypeInv
      <4> QED BY <4>1, <4>2, NotAnEntry
    <3> QED BY <1>1, <2>6, <3>1 DEF Put, Finish, TypeInv
  <2> QED BY <1>2, <2>1, <2>2, <2>3, <2>4, <2>5, <2>6 DEF ThreadNext
<1>3. CASE CacheClearAll
  BY <1>3 DEF CacheClearAll
<1>4. ASSUME NEW j \in Keys, NEW v \in Answers, Change(j, v) PROVE Busy(call')
  BY <1>1, <1>4 DEF Change
<1>5. CASE Tick \/ UNCHANGED metadataVars
  BY <1>1, <1>5 DEF Tick, metadataVars
<1> QED BY <1>2, <1>3, <1>4, <1>5 DEF MetadataNext

(* Whoever drops an entry, even one that another thread has just stored,   *)
(* fetches it again.                                                       *)
THEOREM DroppedValuesAreFetched == MetadataSpec => []Refilled
<1>1. FreshInv => TypeInv
  BY DEF FreshInv
<1> QED BY <1>1, FreshInit, FreshStep, RefilledInit, RefilledStep, PTL DEF MetadataSpec
=============================================================================
