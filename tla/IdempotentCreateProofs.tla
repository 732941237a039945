----------------------- MODULE IdempotentCreateProofs -----------------------
(***************************************************************************)
(* Proofs about IdempotentCreate for any number of callers, keys, requests *)
(* and objects and any TTL.                                                *)
(***************************************************************************)
EXTENDS IdempotentCreate, TLAPS

AllInv == CreateInv /\ NoDuplicateAfterSuccess /\ ReplaySound /\ ConflictIsReal

LEMMA NothingIsFresh ==
    /\ None \notin Keys /\ None \notin Requests /\ None \notin Objects
    /\ None \notin Nat /\ None \notin Entries /\ None \notin Described
BY NoneIsNothing

(* The fields of a request, as far as the flow uses them.                  *)
LEMMA RequestFields ==
    ASSUME NEW r \in Requests
    PROVE  /\ r.key \in Keys \cup {None} /\ Core(r) \in Cores
           /\ Shape(r) \in {"ref", "full"} /\ r.light \in BOOLEAN
           /\ Plan(r) \in Seq(StepNames)
<1>1. r \in RequestType
  BY RequestsAreTyped
<1>2. ASSUME NEW b, NEW s \in StepNames PROVE When(b, s) \in Seq(StepNames)
  BY DEF When
<1>3. \A s1, s2 \in Seq(StepNames) : s1 \o s2 \in Seq(StepNames)
  OBVIOUS
<1>4. GitHubTicketPlan(r) \in Seq(StepNames)
  <2>1. /\ When(r.close, "status") \in Seq(StepNames)
        /\ When(r.fields, "fields") \in Seq(StepNames)
        /\ When(r.milestone, "milestone") \in Seq(StepNames)
        /\ When(r.fields /\ ~r.light, "readback") \in Seq(StepNames)
    BY <1>2 DEF StepNames
  <2> QED
    BY <2>1, <1>3 DEF GitHubTicketPlan
<1>5. GitHubPrPlan(r) \in Seq(StepNames)
  <2>1. /\ When(r.labels, "labels") \in Seq(StepNames)
        /\ When(r.assignees, "assignees") \in Seq(StepNames)
        /\ When(r.reviewers, "reviewers") \in Seq(StepNames)
    BY <1>2 DEF StepNames
  <2> QED
    BY <2>1, <1>3 DEF GitHubPrPlan
<1>6. AzurePrPlan(r) \in Seq(StepNames)
  <2>1. <<"prlabels">> \in Seq(StepNames) /\ When(~r.light, "reload") \in Seq(StepNames)
    BY <1>2 DEF StepNames
  <2> QED
    BY <2>1, <1>3 DEF AzurePrPlan
<1>7. AzureTicketPlan(r) \in Seq(StepNames) /\ GitLabTicketPlan(r) \in Seq(StepNames)
  BY <1>2 DEF AzureTicketPlan, GitLabTicketPlan, StepNames
<1>8. <<>> \in Seq(StepNames)
  OBVIOUS
<1>9. Plan(r) \in Seq(StepNames)
  BY <1>4, <1>5, <1>6, <1>7, <1>8 DEF Plan
<1> QED
  BY <1>1, <1>9 DEF RequestType, Core, Cores, Shape

(* Ending a call keeps pc and out typed.                                   *)
LEMMA LeaveTyped ==
    ASSUME TypeOK, NEW c \in Callers, NEW o \in Outcomes, Leave(c, o)
    PROVE  /\ pc' \in [Callers -> PCs] /\ out' \in [Callers -> Outcomes \cup {None}]
           /\ pc'[c] = "idle" /\ out'[c] = o
           /\ \A d \in Callers \ {c} : pc'[d] = pc[d] /\ out'[d] = out[d]
BY DEF TypeOK, Leave, PCs

LEMMA RaiseLeaves ==
    ASSUME TypeOK, NEW c \in Callers, NEW obj \in Objects \cup {None},
           NEW kind \in {"conflict", "error", "partial"}, Raise(c, kind, obj)
    PROVE  /\ pc' \in [Callers -> PCs] /\ out' \in [Callers -> Outcomes \cup {None}]
           /\ pc'[c] = "idle" /\ out'[c].kind = kind /\ out'[c].obj = obj
           /\ \A d \in Callers \ {c} : pc'[d] = pc[d] /\ out'[d] = out[d]
<1>1. [kind |-> kind, obj |-> obj, shape |-> "none"] \in Outcomes
  BY DEF Outcomes
<1> QED
  BY <1>1, LeaveTyped DEF Raise

(* Finished objects do not change, so what other callers were told stays   *)
(* true.                                                                   *)
LEMMA OutcomesStay ==
    ASSUME AllInv, NEW c \in Callers,
           \A d \in Callers \ {c} : cur'[d] = cur[d] /\ out'[d] = out[d],
           \A o \in Objects : objects[o] # None /\ objects[o].left = <<>> =>
                                  objects'[o] = objects[o]
    PROVE  \A d \in Callers \ {c} : ReplayIsSound(d)' /\ ConflictHasCause(d)'
<1> TAKE d \in Callers \ {c}
<1>0. ReplayIsSound(d) /\ ConflictHasCause(d) /\ out[d] \in Outcomes \cup {None}
  BY DEF AllInv, CreateInv, ReplaySound, ConflictIsReal, TypeOK
<1>1. ReplayIsSound(d)'
  <2>1. SUFFICES ASSUME out[d] # None, out[d].kind = "replay"
                 PROVE  ReplayIsSound(d)'
    BY DEF ReplayIsSound
  <2>2. out[d].obj \in Objects
    BY <1>0, <2>1 DEF ReplayIsSound, Outcomes
  <2>3. objects'[out[d].obj] = objects[out[d].obj]
    BY <1>0, <2>1, <2>2 DEF ReplayIsSound, Finished
  <2> QED
    BY <1>0, <2>1, <2>2, <2>3 DEF ReplayIsSound, Finished
<1>2. ConflictHasCause(d)'
  <2>1. SUFFICES ASSUME out[d] # None, out[d].kind = "conflict"
                 PROVE  ConflictHasCause(d)'
    BY DEF ConflictHasCause
  <2>2. PICK o \in Objects : Finished(o, cur[d].key) /\ objects[o].core # Core(cur[d])
    BY <1>0, <2>1 DEF ConflictHasCause
  <2>3. objects'[o] = objects[o]
    BY <2>2 DEF Finished
  <2> QED
    BY <2>2, <2>3 DEF ConflictHasCause, Finished
<1> QED
  BY <1>1, <1>2

LEMMA StoreStays ==
    ASSUME AllInv, UNCHANGED store,
           \A o \in Objects : objects[o] # None /\ objects[o].left = <<>> =>
                                  objects'[o] = objects[o]
    PROVE  StoreHoldsFinished'
<1> SUFFICES ASSUME NEW k \in Keys, store[k] # None
             PROVE  Finished(store[k].obj, k)' /\ objects'[store[k].obj].core = store[k].core
  BY DEF StoreHoldsFinished, Finished
<1>1. store[k].obj \in Objects /\ Finished(store[k].obj, k) /\ objects[store[k].obj].core = store[k].core
  BY DEF AllInv, CreateInv, StoreHoldsFinished, TypeOK, Entries
<1>2. objects'[store[k].obj] = objects[store[k].obj]
  BY <1>1 DEF Finished
<1> QED
  BY <1>1, <1>2 DEF Finished

(* A caller that is not creating leaves the others with their objects.     *)
LEMMA OwnersStay ==
    ASSUME AllInv, NEW c \in Callers, pc'[c] \notin {"follow", "record"},
           \A d \in Callers \ {c} : /\ pc'[d] = pc[d] /\ mine'[d] = mine[d]
                                    /\ cur'[d] = cur[d] /\ todo'[d] = todo[d],
           \A o \in Objects : objects[o] # None => objects'[o] = objects[o]
    PROVE  CreatesOwnTheirObject'
<1>1. ASSUME NEW d \in Callers, pc'[d] \in {"follow", "record"}
      PROVE  /\ d # c /\ OwnObject(d)' /\ pc[d] \in {"follow", "record"}
             /\ mine'[d] = mine[d]
  <2>1. d # c /\ pc[d] \in {"follow", "record"} /\ OwnObject(d)
    BY <1>1 DEF AllInv, CreateInv, CreatesOwnTheirObject
  <2>2. mine[d] \in Objects /\ objects'[mine[d]] = objects[mine[d]]
    BY <2>1 DEF AllInv, CreateInv, TypeOK, OwnObject
  <2> QED
    BY <2>1, <2>2 DEF OwnObject
<1> QED
  BY <1>1 DEF AllInv, CreateInv, CreatesOwnTheirObject

LEMMA AloneStays ==
    ASSUME AllInv, UNCHANGED <<cur, crossed>>,
           \A d \in Callers : pc'[d] # "idle" => pc[d] # "idle"
    PROVE  AloneUnlessCrossed'
<1>1. \A d \in Callers, k \in Keys : InFlight(d, k)' => InFlight(d, k)
  BY DEF InFlight
<1> QED
  BY <1>1 DEF AllInv, CreateInv, AloneUnlessCrossed

(* A call that ends with an error changes nothing but the objects the      *)
(* server may have gained.                                                 *)
LEMMA QuietEnd ==
    ASSUME AllInv, NEW c \in Callers, pc[c] # "idle",
           UNCHANGED <<store, clock, cur, todo, mine, stamp, newest, crossed, due>>,
           NEW kind \in {"error", "partial"}, NEW obj \in Objects \cup {None},
           Raise(c, kind, obj), kind = "partial" => pc[c] \in Creating,
           objects' \in [Objects -> Described \cup {None}],
           \A o \in Objects : objects[o] # None => objects'[o] = objects[o]
    PROVE  AllInv'
<1> USE NothingIsFresh DEF AllInv, CreateInv
<1>a. /\ pc' \in [Callers -> PCs] /\ out' \in [Callers -> Outcomes \cup {None}]
      /\ pc'[c] = "idle" /\ out'[c].kind = kind /\ cur[c] # None
      /\ \A d \in Callers \ {c} : pc'[d] = pc[d] /\ out'[d] = out[d]
  BY RaiseLeaves DEF TypeOK
<1>1. TypeOK'
  BY <1>a DEF TypeOK, PCs
<1>2. StoreHoldsFinished'
  BY <1>a, StoreStays DEF TypeOK
<1>3. CreatesOwnTheirObject'
  BY <1>a, OwnersStay DEF TypeOK
<1>4. ReloadsKnowTheirObject'
  BY <1>a DEF ReloadsKnowTheirObject, Finished, TypeOK
<1>5. AloneUnlessCrossed'
  BY <1>a, AloneStays DEF TypeOK
<1>6. NewestIsStored'
  BY <1>a DEF NewestIsStored, TypeOK
<1>7. StampsAdvance'
  BY <1>a DEF StampsAdvance, TypeOK
<1>8. OutcomesAreFinal'
  BY <1>a DEF OutcomesAreFinal, TypeOK
<1>9. NoDuplicateAfterSuccess'
  BY <1>a DEF NoDuplicateAfterSuccess, Creating, TypeOK
<1>10. ReplaySound'
  <2>1. \A d \in Callers \ {c} : ReplayIsSound(d)'
    BY <1>a, OutcomesStay DEF TypeOK
  <2>2. ReplayIsSound(c)'
    BY <1>a DEF ReplayIsSound, OutcomesAreFinal, Finished, Shape, TypeOK
  <2> QED
    BY <2>1, <2>2 DEF ReplaySound
<1>11. ConflictIsReal'
  <2>1. \A d \in Callers \ {c} : ConflictHasCause(d)'
    BY <1>a, OutcomesStay DEF TypeOK
  <2>2. ConflictHasCause(c)'
    BY <1>a DEF ConflictHasCause, OutcomesAreFinal, Finished, TypeOK
  <2> QED
    BY <2>1, <2>2 DEF ConflictIsReal
<1> QED
  BY <1>1, <1>2, <1>3, <1>4, <1>5, <1>6, <1>7, <1>8, <1>9, <1>10, <1>11

(* A step done: the object loses the same step as its owner.               *)
LEMMA StepDoneInv ==
    ASSUME AllInv, NEW c \in Callers, pc[c] = "follow", todo[c] # <<>>, StepDone(c),
           UNCHANGED <<store, clock, pc, cur, mine, stamp, out, newest, crossed, due>>
    PROVE  AllInv'
<1> USE NothingIsFresh DEF AllInv, CreateInv
<1>a. mine[c] \in Objects /\ objects[mine[c]] \in Described /\ objects[mine[c]].left = todo[c]
  BY DEF CreatesOwnTheirObject, OwnObject, TypeOK
<1>b. Tail(todo[c]) \in Seq(StepNames)
  BY DEF TypeOK
<1>c. /\ todo' = [todo EXCEPT ![c] = Tail(todo[c])]
      /\ objects'[mine[c]] = [objects[mine[c]] EXCEPT !.left = Tail(todo[c])]
      /\ \A o \in Objects \ {mine[c]} : objects'[o] = objects[o]
      /\ objects' \in [Objects -> Described \cup {None}]
  BY <1>a, <1>b DEF StepDone, TypeOK, Described
<1>d. \A o \in Objects : \A k : Finished(o, k) => o # mine[c] /\ objects'[o] = objects[o]
  BY <1>a, <1>c DEF Finished
<1>e. /\ objects'[mine[c]] # None
      /\ objects'[mine[c]].key = objects[mine[c]].key
      /\ objects'[mine[c]].core = objects[mine[c]].core
      /\ objects'[mine[c]].left = Tail(todo[c])
  <2>1. objects'[mine[c]] \in Described
    BY <1>a, <1>b, <1>c DEF Described
  <2> QED
    BY <1>a, <1>c, <2>1 DEF Described
<1>f. \A o \in Objects : objects[o] # None /\ objects[o].left = <<>> => objects'[o] = objects[o]
  BY <1>a, <1>c
<1>1. TypeOK'
  BY <1>a, <1>b, <1>c, <1>d, <1>e, <1>f DEF TypeOK, PCs
<1>2. StoreHoldsFinished'
  BY <1>a, <1>b, <1>c, <1>d, <1>e, <1>f, StoreStays DEF TypeOK
<1>3. CreatesOwnTheirObject'
  <2>1. OwnObject(c)'
    BY <1>a, <1>c, <1>e DEF OwnObject, CreatesOwnTheirObject, TypeOK
  <2>2. ASSUME NEW d \in Callers \ {c}, pc[d] \in {"follow", "record"}
        PROVE  OwnObject(d)'
    <3>1. OwnObject(d) /\ mine[d] # mine[c]
      BY <2>2 DEF CreatesOwnTheirObject
    <3>2. objects'[mine[d]] = objects[mine[d]] /\ todo'[d] = todo[d]
      BY <3>1, <1>c DEF OwnObject, TypeOK
    <3> QED
      BY <3>1, <3>2 DEF OwnObject
  <2> QED
    BY <2>1, <2>2 DEF CreatesOwnTheirObject
<1>4. ReloadsKnowTheirObject'
  BY <1>c, <1>d DEF ReloadsKnowTheirObject, Finished, TypeOK
<1>5. AloneUnlessCrossed'
  BY <1>a, <1>b, <1>c, <1>d, <1>e, <1>f DEF AloneUnlessCrossed, InFlight, TypeOK
<1>6. NewestIsStored'
  BY <1>a, <1>b, <1>c, <1>d, <1>e, <1>f DEF NewestIsStored, TypeOK
<1>7. StampsAdvance'
  BY <1>a, <1>b, <1>c, <1>d, <1>e, <1>f DEF StampsAdvance, TypeOK
<1>8. OutcomesAreFinal'
  BY <1>a, <1>b, <1>c, <1>d, <1>e, <1>f DEF OutcomesAreFinal, TypeOK
<1>9. NoDuplicateAfterSuccess'
  BY <1>a, <1>b, <1>c, <1>d, <1>e, <1>f DEF NoDuplicateAfterSuccess, Creating, TypeOK
<1>10. ReplaySound'
  <2>1. \A d \in Callers \ {c} : ReplayIsSound(d)'
    BY <1>a, <1>b, <1>c, <1>d, <1>e, <1>f, OutcomesStay DEF TypeOK
  <2>2. ReplayIsSound(c)'
    BY <1>a, <1>b, <1>c, <1>d, <1>e, <1>f DEF ReplayIsSound, OutcomesAreFinal, Finished, Shape, TypeOK
  <2> QED
    BY <2>1, <2>2 DEF ReplaySound
<1>11. ConflictIsReal'
  <2>1. \A d \in Callers \ {c} : ConflictHasCause(d)'
    BY <1>a, <1>b, <1>c, <1>d, <1>e, <1>f, OutcomesStay DEF TypeOK
  <2>2. ConflictHasCause(c)'
    BY <1>a, <1>b, <1>c, <1>d, <1>e, <1>f DEF ConflictHasCause, OutcomesAreFinal, Finished, TypeOK
  <2> QED
    BY <2>1, <2>2 DEF ConflictIsReal
<1> QED
  BY <1>1, <1>2, <1>3, <1>4, <1>5, <1>6, <1>7, <1>8, <1>9, <1>10, <1>11

LEMMA CallInv ==
    ASSUME AllInv, NEW c \in Callers, NEW r \in Requests, Call(c, r)
    PROVE  AllInv'
<1> USE NothingIsFresh DEF AllInv, CreateInv
<1>0. r.key \in Keys \cup {None} /\ r # None
  BY RequestFields
<1>a. /\ pc[c] = "idle" /\ pc' = [pc EXCEPT ![c] = IF r.key = None THEN "prepare" ELSE "lookup"]
      /\ cur' = [cur EXCEPT ![c] = r] /\ out' = [out EXCEPT ![c] = None]
      /\ todo' = [todo EXCEPT ![c] = <<>>] /\ mine' = [mine EXCEPT ![c] = None]
      /\ stamp' = [stamp EXCEPT ![c] = 0] /\ due' = [due EXCEPT ![c] = FALSE]
      /\ UNCHANGED <<store, clock, objects, newest>>
  BY DEF Call
<1>b. /\ crossed' \in [Keys -> BOOLEAN]
      /\ \A k \in Keys : ~crossed'[k] =>
            ~crossed[k] /\ (k = r.key => \A d \in Callers : ~InFlight(d, k))
  BY DEF Call, TypeOK
<1>c. \A d \in Callers, k \in Keys : InFlight(d, k)' =>
         IF d = c THEN k = r.key ELSE InFlight(d, k)
  BY <1>a DEF InFlight, TypeOK
<1>1. TypeOK'
  BY <1>0, <1>a, <1>b DEF TypeOK, PCs
<1>2. StoreHoldsFinished'
  BY <1>0, <1>a, <1>b DEF StoreHoldsFinished, Finished, TypeOK
<1>3. CreatesOwnTheirObject'
  BY <1>0, <1>a, <1>b DEF CreatesOwnTheirObject, OwnObject, TypeOK
<1>4. ReloadsKnowTheirObject'
  BY <1>0, <1>a, <1>b DEF ReloadsKnowTheirObject, Finished, TypeOK
<1>5. AloneUnlessCrossed'
  BY <1>b, <1>c DEF AloneUnlessCrossed
<1>6. NewestIsStored'
  BY <1>0, <1>a, <1>b DEF NewestIsStored, TypeOK
<1>7. StampsAdvance'
  <2> SUFFICES ASSUME NEW d \in Callers, pc'[d] = "record"
               PROVE  /\ stamp'[d] <= clock
                      /\ cur'[d].key # None /\ newest[cur'[d].key] # None /\ ~crossed'[cur'[d].key] =>
                            newest[cur'[d].key] <= stamp'[d]
    BY <1>a DEF StampsAdvance
  <2>1. d # c /\ pc[d] = "record" /\ stamp'[d] = stamp[d] /\ cur'[d] = cur[d] /\ cur[d] \in Requests
    BY <1>0, <1>a DEF TypeOK
  <2>2. cur[d].key \in Keys \cup {None}
    BY <2>1, RequestFields
  <2> QED
    BY <2>1, <2>2, <1>b DEF StampsAdvance
<1>8. OutcomesAreFinal'
  BY <1>0, <1>a, <1>b DEF OutcomesAreFinal, TypeOK
<1>9. NoDuplicateAfterSuccess'
  BY <1>0, <1>a, <1>b DEF NoDuplicateAfterSuccess, Creating, TypeOK
<1>10. ReplaySound'
  BY <1>0, <1>a, <1>b DEF ReplaySound, ReplayIsSound, OutcomesAreFinal, Finished, TypeOK
<1>11. ConflictIsReal'
  BY <1>0, <1>a, <1>b DEF ConflictIsReal, ConflictHasCause, OutcomesAreFinal, Finished, TypeOK
<1> QED
  BY <1>1, <1>2, <1>3, <1>4, <1>5, <1>6, <1>7, <1>8, <1>9, <1>10, <1>11

LEMMA LookupInv ==
    ASSUME AllInv, NEW c \in Callers, Lookup(c)
    PROVE  AllInv'
<1> USE NothingIsFresh, TTLIsPositive DEF AllInv, CreateInv
<1> DEFINE k == cur[c].key
<1> DEFINE e == store[k]
<1>0. /\ pc[c] = "lookup" /\ cur[c] \in Requests /\ k \in Keys /\ ~due[c]
      /\ Shape(cur[c]) \in {"ref", "full"} /\ cur[c].light \in BOOLEAN
  BY RequestFields DEF Lookup, TypeOK, OutcomesAreFinal
<1>u. /\ UNCHANGED <<clock, cur, todo, stamp, objects, newest, crossed>>
      /\ due' = [due EXCEPT ![c] = newest[k] # None /\ ~crossed[k] /\ clock - newest[k] <= TTL]
      /\ mine' = [mine EXCEPT ![c] = IF Fresh(e) THEN e.obj ELSE None]
  BY DEF Lookup
<1>d. due' \in [Callers -> BOOLEAN] /\ \A x \in Callers \ {c} : due'[x] = due[x]
  BY <1>u DEF TypeOK
<1>s. Fresh(e) => /\ e \in Entries /\ e.obj \in Objects /\ Finished(e.obj, k)
                  /\ objects[e.obj].core = e.core
  BY <1>0 DEF TypeOK, StoreHoldsFinished, Fresh, Entries
<1>v. due'[c] => Fresh(e)
  BY <1>0, <1>u DEF NewestIsStored, TypeOK, Fresh
<1>m. mine' \in [Callers -> Objects \cup {None}] /\ \A x \in Callers \ {c} : mine'[x] = mine[x]
  BY <1>u, <1>s DEF TypeOK
<1>A. CASE ~Fresh(e)
  <2>a. /\ store' = [store EXCEPT ![k] = None] /\ pc' = [pc EXCEPT ![c] = "prepare"]
        /\ UNCHANGED out /\ ~due'[c]
    BY <1>A, <1>v, <1>d DEF Lookup
  <2>1. TypeOK'
    BY <1>0, <1>u, <1>d, <1>m, <2>a DEF TypeOK, PCs
  <2>2. StoreHoldsFinished'
    BY <1>0, <1>u, <1>d, <1>m, <2>a DEF StoreHoldsFinished, Finished, TypeOK
  <2>3. CreatesOwnTheirObject'
    BY <1>0, <1>u, <1>d, <1>m, <2>a DEF CreatesOwnTheirObject, OwnObject, TypeOK
  <2>4. ReloadsKnowTheirObject'
    BY <1>0, <1>u, <1>d, <1>m, <2>a DEF ReloadsKnowTheirObject, Finished, TypeOK
  <2>5. AloneUnlessCrossed'
    BY <1>0, <1>u, <1>d, <1>m, <2>a DEF AloneUnlessCrossed, InFlight, TypeOK
  <2>6. NewestIsStored'
    BY <1>0, <1>u, <1>d, <1>m, <2>a, <1>A DEF NewestIsStored, TypeOK, Fresh
  <2>7. StampsAdvance'
    BY <1>0, <1>u, <1>d, <1>m, <2>a DEF StampsAdvance, TypeOK
  <2>8. OutcomesAreFinal'
    BY <1>0, <1>u, <1>d, <1>m, <2>a DEF OutcomesAreFinal, TypeOK
  <2>9. NoDuplicateAfterSuccess'
    BY <1>0, <1>u, <1>d, <1>m, <2>a DEF NoDuplicateAfterSuccess, Creating, TypeOK
  <2>10. ReplaySound'
    BY <1>0, <1>u, <1>d, <1>m, <2>a DEF ReplaySound, ReplayIsSound, OutcomesAreFinal, Finished, TypeOK
  <2>11. ConflictIsReal'
    BY <1>0, <1>u, <1>d, <1>m, <2>a DEF ConflictIsReal, ConflictHasCause, OutcomesAreFinal, Finished, TypeOK
  <2> QED
    BY <2>1, <2>2, <2>3, <2>4, <2>5, <2>6, <2>7, <2>8, <2>9, <2>10, <2>11
<1>B. CASE Fresh(e) /\ Conflicts(e, cur[c])
  <2>a. UNCHANGED store /\ Raise(c, "conflict", None)
    BY <1>B DEF Lookup
  <2>b. /\ pc' \in [Callers -> PCs] /\ out' \in [Callers -> Outcomes \cup {None}]
        /\ pc'[c] = "idle" /\ out'[c].kind = "conflict"
        /\ \A d \in Callers \ {c} : pc'[d] = pc[d] /\ out'[d] = out[d]
    BY <2>a, RaiseLeaves
  <2>1. TypeOK'
    BY <1>0, <1>u, <1>d, <1>m, <2>a, <2>b DEF TypeOK, PCs
  <2>2. StoreHoldsFinished'
    BY <1>0, <1>u, <1>d, <1>m, <2>a, <2>b DEF StoreHoldsFinished, Finished, TypeOK
  <2>3. CreatesOwnTheirObject'
    BY <1>0, <1>u, <1>d, <1>m, <2>a, <2>b, OwnersStay DEF TypeOK
  <2>4. ReloadsKnowTheirObject'
    BY <1>0, <1>u, <1>d, <1>m, <2>a, <2>b DEF ReloadsKnowTheirObject, Finished, TypeOK
  <2>5. AloneUnlessCrossed'
    BY <1>0, <1>u, <1>d, <1>m, <2>a, <2>b, AloneStays DEF TypeOK
  <2>6. NewestIsStored'
    BY <1>0, <1>u, <1>d, <1>m, <2>a, <2>b DEF NewestIsStored, TypeOK
  <2>7. StampsAdvance'
    BY <1>0, <1>u, <1>d, <1>m, <2>a, <2>b DEF StampsAdvance, TypeOK
  <2>8. OutcomesAreFinal'
    BY <1>0, <1>u, <1>d, <1>m, <2>a, <2>b DEF OutcomesAreFinal, TypeOK
  <2>9. NoDuplicateAfterSuccess'
    BY <1>0, <1>u, <1>d, <1>m, <2>a, <2>b DEF NoDuplicateAfterSuccess, Creating, TypeOK
  <2>10. ReplaySound'
    <3>1. \A d \in Callers \ {c} : ReplayIsSound(d)'
      BY <1>0, <1>u, <1>d, <1>m, <2>a, <2>b, OutcomesStay DEF TypeOK
    <3>2. ReplayIsSound(c)'
      BY <1>0, <1>u, <1>d, <1>m, <2>a, <2>b DEF ReplayIsSound, OutcomesAreFinal, Finished, Shape, TypeOK
    <3> QED
      BY <3>1, <3>2 DEF ReplaySound
  <2>11. ConflictIsReal'
    <3>1. \A d \in Callers \ {c} : ConflictHasCause(d)'
      BY <1>0, <1>u, <1>d, <1>m, <2>a, <2>b, OutcomesStay DEF TypeOK
    <3>2. ConflictHasCause(c)'
      BY <1>0, <1>u, <1>d, <1>m, <2>a, <2>b, <1>B, <1>s DEF ConflictHasCause, OutcomesAreFinal, Finished, TypeOK, Conflicts
    <3> QED
      BY <3>1, <3>2 DEF ConflictIsReal
  <2> QED
    BY <2>1, <2>2, <2>3, <2>4, <2>5, <2>6, <2>7, <2>8, <2>9, <2>10, <2>11
<1>C. CASE Fresh(e) /\ ~Conflicts(e, cur[c])
  <2>s. UNCHANGED store /\ mine'[c] = e.obj /\ e.core = Core(cur[c])
    BY <1>C, <1>u DEF Lookup, Conflicts, TypeOK
  <2>A. CASE e.shape = "ref" /\ ~cur[c].light
    <3>a. pc' = [pc EXCEPT ![c] = "reload"] /\ UNCHANGED out
      BY <1>C, <2>A DEF Lookup, NeedsReload
    <3>1. TypeOK'
      BY <1>0, <1>u, <1>d, <1>m, <1>s, <1>C, <2>s, <2>A, <3>a DEF TypeOK, PCs
    <3>2. StoreHoldsFinished'
      BY <1>0, <1>u, <1>d, <1>m, <1>s, <1>C, <2>s, <2>A, <3>a DEF StoreHoldsFinished, Finished, TypeOK
    <3>3. CreatesOwnTheirObject'
      BY <1>0, <1>u, <1>m, <3>a, OwnersStay DEF TypeOK
    <3>4. ReloadsKnowTheirObject'
      BY <1>0, <1>u, <1>d, <1>m, <1>s, <1>C, <2>s, <2>A, <3>a DEF ReloadsKnowTheirObject, Finished, TypeOK
    <3>5. AloneUnlessCrossed'
      BY <1>0, <1>u, <1>d, <1>m, <1>s, <1>C, <2>s, <2>A, <3>a DEF AloneUnlessCrossed, InFlight, TypeOK
    <3>6. NewestIsStored'
      BY <1>0, <1>u, <1>d, <1>m, <1>s, <1>C, <2>s, <2>A, <3>a DEF NewestIsStored, TypeOK
    <3>7. StampsAdvance'
      BY <1>0, <1>u, <1>d, <1>m, <1>s, <1>C, <2>s, <2>A, <3>a DEF StampsAdvance, TypeOK
    <3>8. OutcomesAreFinal'
      BY <1>0, <1>u, <1>d, <1>m, <1>s, <1>C, <2>s, <2>A, <3>a DEF OutcomesAreFinal, TypeOK
    <3>9. NoDuplicateAfterSuccess'
      BY <1>0, <1>d, <3>a DEF NoDuplicateAfterSuccess, Creating, OutcomesAreFinal, TypeOK
    <3>10. ReplaySound'
      BY <1>0, <1>u, <1>d, <1>m, <1>s, <1>C, <2>s, <2>A, <3>a DEF ReplaySound, ReplayIsSound, OutcomesAreFinal, Finished, TypeOK
    <3>11. ConflictIsReal'
      BY <1>0, <1>u, <1>d, <1>m, <1>s, <1>C, <2>s, <2>A, <3>a DEF ConflictIsReal, ConflictHasCause, OutcomesAreFinal, Finished, TypeOK
    <3> QED
      BY <3>1, <3>2, <3>3, <3>4, <3>5, <3>6, <3>7, <3>8, <3>9, <3>10, <3>11
  <2>B. CASE ~(e.shape = "ref" /\ ~cur[c].light)
    <3> DEFINE o == [kind |-> "replay", obj |-> e.obj, shape |-> Shape(cur[c])]
    <3>0. Served(e, cur[c]) = Shape(cur[c])
      BY <1>0, <1>C, <2>B DEF Served, Shape, Fresh, TypeOK, Entries
    <3>1. o \in Outcomes
      BY <1>0, <1>s, <1>C DEF Outcomes
    <3>2. Leave(c, o)
      BY <1>C, <2>B, <3>0 DEF Lookup, NeedsReload
    <3> HIDE DEF o
    <3>a. /\ pc' \in [Callers -> PCs] /\ out' \in [Callers -> Outcomes \cup {None}]
          /\ pc'[c] = "idle" /\ out'[c] = o
          /\ \A d \in Callers \ {c} : pc'[d] = pc[d] /\ out'[d] = out[d]
      BY <3>1, <3>2, LeaveTyped
    <3>b. o.kind = "replay" /\ o.obj = e.obj /\ o.shape = Shape(cur[c])
      BY DEF o
    <3>4. TypeOK'
      BY <1>0, <1>u, <1>d, <1>m, <1>s, <1>C, <2>s, <3>a, <3>b DEF TypeOK, PCs
    <3>5. StoreHoldsFinished'
      BY <1>0, <1>u, <1>d, <1>m, <1>s, <1>C, <2>s, <3>a, <3>b DEF StoreHoldsFinished, Finished, TypeOK
    <3>6. CreatesOwnTheirObject'
      BY <1>0, <1>u, <1>d, <1>m, <1>s, <1>C, <2>s, <3>a, <3>b, OwnersStay DEF TypeOK
    <3>7. ReloadsKnowTheirObject'
      BY <1>0, <1>u, <1>d, <1>m, <1>s, <1>C, <2>s, <3>a, <3>b DEF ReloadsKnowTheirObject, Finished, TypeOK
    <3>8. AloneUnlessCrossed'
      BY <1>0, <1>u, <1>d, <1>m, <1>s, <1>C, <2>s, <3>a, <3>b, AloneStays DEF TypeOK
    <3>9. NewestIsStored'
      BY <1>0, <1>u, <1>d, <1>m, <1>s, <1>C, <2>s, <3>a, <3>b DEF NewestIsStored, TypeOK
    <3>10. StampsAdvance'
      BY <1>0, <1>u, <1>d, <1>m, <1>s, <1>C, <2>s, <3>a, <3>b DEF StampsAdvance, TypeOK
    <3>11. OutcomesAreFinal'
      BY <1>0, <1>u, <1>d, <1>m, <1>s, <1>C, <2>s, <3>a, <3>b DEF OutcomesAreFinal, TypeOK
    <3>12. NoDuplicateAfterSuccess'
      BY <1>0, <1>u, <1>d, <1>m, <1>s, <1>C, <2>s, <3>a, <3>b DEF NoDuplicateAfterSuccess, Creating, TypeOK
    <3>13. ReplaySound'
      <4>1. \A d \in Callers \ {c} : ReplayIsSound(d)'
        BY <1>0, <1>u, <1>d, <1>m, <1>s, <1>C, <2>s, <3>a, <3>b, OutcomesStay DEF TypeOK
      <4>2. ReplayIsSound(c)'
        BY <1>0, <1>u, <1>d, <1>m, <1>s, <1>C, <2>s, <3>a, <3>b DEF ReplayIsSound, OutcomesAreFinal, Finished, Shape, TypeOK
      <4> QED
        BY <4>1, <4>2 DEF ReplaySound
    <3>14. ConflictIsReal'
      <4>1. \A d \in Callers \ {c} : ConflictHasCause(d)'
        BY <1>0, <1>u, <1>d, <1>m, <1>s, <1>C, <2>s, <3>a, <3>b, OutcomesStay DEF TypeOK
      <4>2. ConflictHasCause(c)'
        BY <1>0, <1>u, <1>d, <1>m, <1>s, <1>C, <2>s, <3>a, <3>b DEF ConflictHasCause, OutcomesAreFinal, Finished, TypeOK
      <4> QED
        BY <4>1, <4>2 DEF ConflictIsReal
    <3> QED
      BY <3>4, <3>5, <3>6, <3>7, <3>8, <3>9, <3>10, <3>11, <3>12, <3>13, <3>14
  <2> QED
    BY <2>A, <2>B
<1> QED
  BY <1>A, <1>B, <1>C

LEMMA ReloadInv ==
    ASSUME AllInv, NEW c \in Callers, Reload(c)
    PROVE  AllInv'
<1> USE NothingIsFresh DEF AllInv, CreateInv
<1>u. /\ UNCHANGED <<store, clock, cur, todo, mine, stamp, objects, newest, crossed, due>>
      /\ pc[c] = "reload" /\ cur[c] \in Requests
  BY DEF Reload, TypeOK
<1>k. mine[c] \in Objects /\ Finished(mine[c], cur[c].key) /\ objects[mine[c]].core = Core(cur[c])
      /\ ~cur[c].light /\ cur[c].key # None
  BY <1>u DEF ReloadsKnowTheirObject, TypeOK
<1>A. CASE Raise(c, "error", None)
  <2>1. objects' \in [Objects -> Described \cup {None}]
    BY <1>u DEF TypeOK
  <2> QED
    BY <1>A, <1>u, <2>1, QuietEnd
<1>B. CASE Leave(c, [kind |-> "replay", obj |-> mine[c], shape |-> "full"])
  <2> DEFINE o == [kind |-> "replay", obj |-> mine[c], shape |-> "full"]
  <2>1. o \in Outcomes
    BY <1>k DEF Outcomes
  <2>2. Leave(c, o)
    BY <1>B
  <2>b. o.kind = "replay" /\ o.obj = mine[c] /\ o.shape = "full"
    OBVIOUS
  <2> HIDE DEF o
  <2>a. /\ pc' \in [Callers -> PCs] /\ out' \in [Callers -> Outcomes \cup {None}]
        /\ pc'[c] = "idle" /\ out'[c] = o
        /\ \A d \in Callers \ {c} : pc'[d] = pc[d] /\ out'[d] = out[d]
    BY <2>1, <2>2, LeaveTyped
  <2>3. TypeOK'
    BY <1>u, <1>k, <2>a, <2>b DEF TypeOK, PCs
  <2>4. StoreHoldsFinished'
    BY <1>u, <1>k, <2>a, <2>b DEF StoreHoldsFinished, Finished, TypeOK
  <2>5. CreatesOwnTheirObject'
    BY <1>u, <1>k, <2>a, <2>b, OwnersStay DEF TypeOK
  <2>6. ReloadsKnowTheirObject'
    BY <1>u, <1>k, <2>a, <2>b DEF ReloadsKnowTheirObject, Finished, TypeOK
  <2>7. AloneUnlessCrossed'
    BY <1>u, <1>k, <2>a, <2>b, AloneStays DEF TypeOK
  <2>8. NewestIsStored'
    BY <1>u, <1>k, <2>a, <2>b DEF NewestIsStored, TypeOK
  <2>9. StampsAdvance'
    BY <1>u, <1>k, <2>a, <2>b DEF StampsAdvance, TypeOK
  <2>10. OutcomesAreFinal'
    BY <1>u, <1>k, <2>a, <2>b DEF OutcomesAreFinal, TypeOK
  <2>11. NoDuplicateAfterSuccess'
    BY <1>u, <1>k, <2>a, <2>b DEF NoDuplicateAfterSuccess, Creating, TypeOK
  <2>12. ReplaySound'
    <3>1. \A d \in Callers \ {c} : ReplayIsSound(d)'
      BY <1>u, <1>k, <2>a, <2>b, OutcomesStay DEF TypeOK
    <3>2. ReplayIsSound(c)'
      BY <1>u, <1>k, <2>a, <2>b DEF ReplayIsSound, OutcomesAreFinal, Finished, Shape, TypeOK
    <3> QED
      BY <3>1, <3>2 DEF ReplaySound
  <2>13. ConflictIsReal'
    <3>1. \A d \in Callers \ {c} : ConflictHasCause(d)'
      BY <1>u, <1>k, <2>a, <2>b, OutcomesStay DEF TypeOK
    <3>2. ConflictHasCause(c)'
      BY <1>u, <1>k, <2>a, <2>b DEF ConflictHasCause, OutcomesAreFinal, Finished, TypeOK
    <3> QED
      BY <3>1, <3>2 DEF ConflictIsReal
  <2> QED
    BY <2>3, <2>4, <2>5, <2>6, <2>7, <2>8, <2>9, <2>10, <2>11, <2>12, <2>13
<1> QED
  BY <1>A, <1>B DEF Reload

LEMMA PrepareInv ==
    ASSUME AllInv, NEW c \in Callers, Prepare(c)
    PROVE  AllInv'
<1> USE NothingIsFresh DEF AllInv, CreateInv
<1>u. /\ UNCHANGED <<store, clock, cur, todo, mine, stamp, objects, newest, crossed, due>>
      /\ pc[c] = "prepare"
  BY DEF Prepare
<1>A. CASE Raise(c, "error", None)
  <2>1. objects' \in [Objects -> Described \cup {None}]
    BY <1>u DEF TypeOK
  <2> QED
    BY <1>A, <1>u, <2>1, QuietEnd
<1>B. CASE pc' = [pc EXCEPT ![c] = "post"] /\ UNCHANGED out
  <2>1. TypeOK'
    BY <1>u, <1>B DEF TypeOK, PCs
  <2>2. StoreHoldsFinished'
    BY <1>u, <1>B DEF StoreHoldsFinished, Finished, TypeOK
  <2>3. CreatesOwnTheirObject'
    BY <1>u, <1>B DEF CreatesOwnTheirObject, OwnObject, TypeOK
  <2>4. ReloadsKnowTheirObject'
    BY <1>u, <1>B DEF ReloadsKnowTheirObject, Finished, TypeOK
  <2>5. AloneUnlessCrossed'
    BY <1>u, <1>B DEF AloneUnlessCrossed, InFlight, TypeOK
  <2>6. NewestIsStored'
    BY <1>u, <1>B DEF NewestIsStored, TypeOK
  <2>7. StampsAdvance'
    BY <1>u, <1>B DEF StampsAdvance, TypeOK
  <2>8. OutcomesAreFinal'
    BY <1>u, <1>B DEF OutcomesAreFinal, TypeOK
  <2>9. NoDuplicateAfterSuccess'
    BY <1>u, <1>B DEF NoDuplicateAfterSuccess, Creating, TypeOK
  <2>10. ReplaySound'
    BY <1>u, <1>B DEF ReplaySound, ReplayIsSound, OutcomesAreFinal, Finished, TypeOK
  <2>11. ConflictIsReal'
    BY <1>u, <1>B DEF ConflictIsReal, ConflictHasCause, OutcomesAreFinal, Finished, TypeOK
  <2> QED
    BY <2>1, <2>2, <2>3, <2>4, <2>5, <2>6, <2>7, <2>8, <2>9, <2>10, <2>11
<1> QED
  BY <1>A, <1>B DEF Prepare

LEMMA PostInv ==
    ASSUME AllInv, NEW c \in Callers, NEW o \in Objects, Post(c, o)
    PROVE  AllInv'
<1> USE NothingIsFresh DEF AllInv, CreateInv
<1>u. /\ UNCHANGED <<store, clock, cur, stamp, newest, crossed, due>>
      /\ pc[c] = "post" /\ cur[c] \in Requests /\ objects[o] = None
  BY DEF Post, TypeOK
<1>0. /\ cur[c].key \in Keys \cup {None} /\ Core(cur[c]) \in Cores
      /\ Plan(cur[c]) \in Seq(StepNames)
  BY <1>u, RequestFields
<1> DEFINE new == [key |-> cur[c].key, core |-> Core(cur[c]), born |-> clock, left |-> Plan(cur[c])]
<1>n. /\ new \in Described /\ new.key = cur[c].key /\ new.core = Core(cur[c])
      /\ new.left = Plan(cur[c]) /\ new # None
  BY <1>0 DEF Described, TypeOK
<1>o. objects' = [objects EXCEPT ![o] = new]
  BY DEF Post
<1> HIDE DEF new
<1>p. /\ objects' \in [Objects -> Described \cup {None}] /\ objects'[o] = new
      /\ \A x \in Objects : objects[x] # None => x # o /\ objects'[x] = objects[x]
  BY <1>n, <1>o, <1>u DEF TypeOK
<1>A. CASE Raise(c, "error", None) /\ UNCHANGED <<mine, todo>>
  BY <1>A, <1>u, <1>p, QuietEnd
<1>B. CASE /\ mine' = [mine EXCEPT ![c] = o] /\ todo' = [todo EXCEPT ![c] = Plan(cur[c])]
           /\ pc' = [pc EXCEPT ![c] = "follow"] /\ UNCHANGED out
  <2>1. TypeOK'
    BY <1>0, <1>u, <1>n, <1>p, <1>B DEF TypeOK, PCs
  <2>2. StoreHoldsFinished'
    BY <1>0, <1>u, <1>n, <1>p, <1>B, StoreStays DEF TypeOK
  <2>3. CreatesOwnTheirObject'
    BY <1>0, <1>u, <1>n, <1>p, <1>B DEF CreatesOwnTheirObject, OwnObject, TypeOK
  <2>4. ReloadsKnowTheirObject'
    BY <1>0, <1>u, <1>n, <1>p, <1>B DEF ReloadsKnowTheirObject, Finished, TypeOK
  <2>5. AloneUnlessCrossed'
    BY <1>0, <1>u, <1>n, <1>p, <1>B DEF AloneUnlessCrossed, InFlight, TypeOK
  <2>6. NewestIsStored'
    BY <1>0, <1>u, <1>n, <1>p, <1>B DEF NewestIsStored, TypeOK
  <2>7. StampsAdvance'
    BY <1>0, <1>u, <1>n, <1>p, <1>B DEF StampsAdvance, TypeOK
  <2>8. OutcomesAreFinal'
    BY <1>0, <1>u, <1>n, <1>p, <1>B DEF OutcomesAreFinal, TypeOK
  <2>9. NoDuplicateAfterSuccess'
    BY <1>0, <1>u, <1>n, <1>p, <1>B DEF NoDuplicateAfterSuccess, Creating, TypeOK
  <2>10. ReplaySound'
    <3>1. \A d \in Callers \ {c} : ReplayIsSound(d)'
      BY <1>0, <1>u, <1>n, <1>p, <1>B, OutcomesStay DEF TypeOK
    <3>2. ReplayIsSound(c)'
      BY <1>0, <1>u, <1>n, <1>p, <1>B DEF ReplayIsSound, OutcomesAreFinal, Finished, Shape, TypeOK
    <3> QED
      BY <3>1, <3>2 DEF ReplaySound
  <2>11. ConflictIsReal'
    <3>1. \A d \in Callers \ {c} : ConflictHasCause(d)'
      BY <1>0, <1>u, <1>n, <1>p, <1>B, OutcomesStay DEF TypeOK
    <3>2. ConflictHasCause(c)'
      BY <1>0, <1>u, <1>n, <1>p, <1>B DEF ConflictHasCause, OutcomesAreFinal, Finished, TypeOK
    <3> QED
      BY <3>1, <3>2 DEF ConflictIsReal
  <2> QED
    BY <2>1, <2>2, <2>3, <2>4, <2>5, <2>6, <2>7, <2>8, <2>9, <2>10, <2>11
<1> QED
  BY <1>A, <1>B DEF Post

LEMMA PostRefusedInv ==
    ASSUME AllInv, NEW c \in Callers, PostRefused(c)
    PROVE  AllInv'
<1>1. objects' \in [Objects -> Described \cup {None}]
  BY DEF PostRefused, AllInv, CreateInv, TypeOK
<1> QED
  BY <1>1, QuietEnd DEF PostRefused

LEMMA FollowUpInv ==
    ASSUME AllInv, NEW c \in Callers, FollowUp(c)
    PROVE  AllInv'
BY StepDoneInv DEF FollowUp

LEMMA FollowUpFailsInv ==
    ASSUME AllInv, NEW c \in Callers, NEW f \in Failures, FollowUpFails(c, f)
    PROVE  AllInv'
<1>u. /\ UNCHANGED <<store, clock, cur, mine, stamp, newest, crossed, due>>
      /\ pc[c] = "follow" /\ todo[c] # <<>> /\ mine[c] \in Objects \cup {None}
      /\ objects \in [Objects -> Described \cup {None}]
  BY DEF FollowUpFails, AllInv, CreateInv, TypeOK
<1>A. CASE Tolerated(Head(todo[c]), f)
  <2>1. StepDone(c) /\ UNCHANGED <<pc, out>>
    BY <1>A DEF FollowUpFails
  <2> QED
    BY <2>1, <1>u, StepDoneInv
<1>B. CASE ~Tolerated(Head(todo[c]), f)
  <2>1. /\ UNCHANGED <<todo, objects>>
        /\ Raise(c, "partial", mine[c]) \/ Raise(c, "error", None)
    BY <1>B DEF FollowUpFails
  <2>2. CASE Raise(c, "partial", mine[c])
    BY <2>1, <2>2, <1>u, QuietEnd DEF Creating
  <2>3. CASE Raise(c, "error", None)
    BY <2>1, <2>3, <1>u, QuietEnd
  <2> QED
    BY <2>1, <2>2, <2>3
<1> QED
  BY <1>A, <1>B

LEMMA StampInv ==
    ASSUME AllInv, NEW c \in Callers, Stamp(c)
    PROVE  AllInv'
<1> USE NothingIsFresh DEF AllInv, CreateInv
<1>u. /\ UNCHANGED <<store, clock, cur, todo, mine, out, objects, newest, crossed, due>>
      /\ pc[c] = "follow" /\ todo[c] = <<>> /\ stamp' = [stamp EXCEPT ![c] = clock]
      /\ pc' = [pc EXCEPT ![c] = "record"] /\ cur[c] \in Requests
  BY DEF Stamp, TypeOK
<1>0. cur[c].key \in Keys \cup {None}
  BY <1>u, RequestFields
<1>1. TypeOK'
  BY <1>0, <1>u DEF TypeOK, PCs
<1>2. StoreHoldsFinished'
  BY <1>0, <1>u DEF StoreHoldsFinished, Finished, TypeOK
<1>3. CreatesOwnTheirObject'
  BY <1>0, <1>u DEF CreatesOwnTheirObject, OwnObject, TypeOK
<1>4. ReloadsKnowTheirObject'
  BY <1>0, <1>u DEF ReloadsKnowTheirObject, Finished, TypeOK
<1>5. AloneUnlessCrossed'
  BY <1>0, <1>u DEF AloneUnlessCrossed, InFlight, TypeOK
<1>6. NewestIsStored'
  BY <1>0, <1>u DEF NewestIsStored, TypeOK
<1>7. StampsAdvance'
  BY <1>0, <1>u DEF StampsAdvance, TypeOK, NewestIsStored
<1>8. OutcomesAreFinal'
  BY <1>0, <1>u DEF OutcomesAreFinal, TypeOK
<1>9. NoDuplicateAfterSuccess'
  BY <1>0, <1>u DEF NoDuplicateAfterSuccess, Creating, TypeOK
<1>10. ReplaySound'
  BY <1>0, <1>u DEF ReplaySound, ReplayIsSound, OutcomesAreFinal, Finished, TypeOK
<1>11. ConflictIsReal'
  BY <1>0, <1>u DEF ConflictIsReal, ConflictHasCause, OutcomesAreFinal, Finished, TypeOK
<1> QED
  BY <1>1, <1>2, <1>3, <1>4, <1>5, <1>6, <1>7, <1>8, <1>9, <1>10, <1>11

LEMMA RecordInv ==
    ASSUME AllInv, NEW c \in Callers, Record(c)
    PROVE  AllInv'
<1> USE NothingIsFresh, TTLIsPositive DEF AllInv, CreateInv
<1> DEFINE k == cur[c].key
<1> DEFINE o == [kind |-> "created", obj |-> mine[c], shape |-> Shape(cur[c])]
<1>u. /\ UNCHANGED <<clock, cur, todo, mine, stamp, objects, crossed, due>>
      /\ pc[c] = "record" /\ cur[c] \in Requests
  BY DEF Record, TypeOK
<1>0. /\ k \in Keys \cup {None} /\ Core(cur[c]) \in Cores
      /\ Shape(cur[c]) \in {"ref", "full"}
  BY <1>u, RequestFields
<1>m. mine[c] \in Objects /\ Finished(mine[c], k) /\ objects[mine[c]].core = Core(cur[c])
  BY <1>u DEF CreatesOwnTheirObject, OwnObject, Finished, TypeOK
<1>1. o \in Outcomes /\ o.kind = "created"
  BY <1>0, <1>m DEF Outcomes
<1>2. Leave(c, o)
  BY DEF Record
<1> HIDE DEF o
<1>a. /\ pc' \in [Callers -> PCs] /\ out' \in [Callers -> Outcomes \cup {None}]
      /\ pc'[c] = "idle" /\ out'[c] = o
      /\ \A d \in Callers \ {c} : pc'[d] = pc[d] /\ out'[d] = out[d]
  BY <1>1, <1>2, LeaveTyped
<1> DEFINE e == NewEntry(c)
<1>e. /\ e \in Entries /\ e.obj = mine[c] /\ e.core = Core(cur[c]) /\ e.at = stamp[c] /\ e # None
  BY <1>0, <1>m DEF NewEntry, Entries, TypeOK
<1>s. store' = IF k = None THEN store ELSE [store EXCEPT ![k] = e]
  BY DEF Record
<1> HIDE DEF e
<1>n. newest' = IF k = None \/ (newest[k] # None /\ newest[k] > stamp[c])
                THEN newest ELSE [newest EXCEPT ![k] = stamp[c]]
  BY DEF Record
<1>t. stamp[c] \in Nat /\ stamp[c] <= clock
      /\ (k # None /\ newest[k] # None /\ ~crossed[k] => newest[k] <= stamp[c])
  BY <1>u DEF StampsAdvance, TypeOK
<1>x. \A d \in Callers \ {c} : pc[d] = "record" /\ cur[d].key = k /\ k # None => crossed[k]
  BY <1>0, <1>u DEF AloneUnlessCrossed, InFlight, TypeOK
<1>3. TypeOK'
  BY <1>0, <1>u, <1>a, <1>e, <1>s, <1>n, <1>t DEF TypeOK
<1>4. StoreHoldsFinished'
  BY <1>0, <1>u, <1>m, <1>e, <1>s DEF StoreHoldsFinished, Finished, TypeOK
<1>5. CreatesOwnTheirObject'
  BY <1>u, <1>a DEF CreatesOwnTheirObject, OwnObject, TypeOK
<1>6. ReloadsKnowTheirObject'
  BY <1>u, <1>a DEF ReloadsKnowTheirObject, Finished, TypeOK
<1>7. AloneUnlessCrossed'
  BY <1>u, <1>a, AloneStays DEF TypeOK
<1>8. NewestIsStored'
  BY <1>0, <1>u, <1>e, <1>s, <1>n, <1>t DEF NewestIsStored, TypeOK
<1>9. StampsAdvance'
  BY <1>0, <1>u, <1>a, <1>n, <1>t, <1>x DEF StampsAdvance, TypeOK
<1>10. OutcomesAreFinal'
  BY <1>u, <1>a DEF OutcomesAreFinal, TypeOK
<1>11. NoDuplicateAfterSuccess'
  BY <1>u, <1>a, <1>1 DEF NoDuplicateAfterSuccess, Creating, TypeOK
<1>12. ReplaySound'
  <2>1. \A d \in Callers \ {c} : ReplayIsSound(d)'
    BY <1>u, <1>a, OutcomesStay
  <2>2. ReplayIsSound(c)'
    BY <1>a, <1>1 DEF ReplayIsSound
  <2> QED
    BY <2>1, <2>2 DEF ReplaySound
<1>13. ConflictIsReal'
  <2>1. \A d \in Callers \ {c} : ConflictHasCause(d)'
    BY <1>u, <1>a, OutcomesStay
  <2>2. ConflictHasCause(c)'
    BY <1>a, <1>1 DEF ConflictHasCause
  <2> QED
    BY <2>1, <2>2 DEF ConflictIsReal
<1> QED
  BY <1>3, <1>4, <1>5, <1>6, <1>7, <1>8, <1>9, <1>10, <1>11, <1>12, <1>13

LEMMA TickInv == ASSUME AllInv, Tick PROVE AllInv'
<1> USE NothingIsFresh, TTLIsPositive DEF AllInv, CreateInv
<1>u. /\ UNCHANGED <<store, pc, cur, todo, mine, stamp, out, objects, newest, crossed, due>>
      /\ clock' = clock + 1 /\ clock \in Nat
  BY DEF Tick, TypeOK
<1>1. TypeOK'
  BY <1>u DEF TypeOK, PCs
<1>2. StoreHoldsFinished'
  BY <1>u DEF StoreHoldsFinished, Finished, TypeOK
<1>3. CreatesOwnTheirObject'
  BY <1>u DEF CreatesOwnTheirObject, OwnObject, TypeOK
<1>4. ReloadsKnowTheirObject'
  BY <1>u DEF ReloadsKnowTheirObject, Finished, TypeOK
<1>5. AloneUnlessCrossed'
  BY <1>u DEF AloneUnlessCrossed, InFlight, TypeOK
<1>6. NewestIsStored'
  BY <1>u DEF NewestIsStored, TypeOK
<1>7. StampsAdvance'
  BY <1>u DEF StampsAdvance, TypeOK
<1>8. OutcomesAreFinal'
  BY <1>u DEF OutcomesAreFinal, TypeOK
<1>9. NoDuplicateAfterSuccess'
  BY <1>u DEF NoDuplicateAfterSuccess, Creating, TypeOK
<1>10. ReplaySound'
  BY <1>u DEF ReplaySound, ReplayIsSound, OutcomesAreFinal, Finished, TypeOK
<1>11. ConflictIsReal'
  BY <1>u DEF ConflictIsReal, ConflictHasCause, OutcomesAreFinal, Finished, TypeOK
<1> QED
  BY <1>1, <1>2, <1>3, <1>4, <1>5, <1>6, <1>7, <1>8, <1>9, <1>10, <1>11

LEMMA RestartInv == ASSUME AllInv, Restart PROVE AllInv'
<1> USE NothingIsFresh DEF AllInv, CreateInv, Restart
<1>1. TypeOK'
  BY DEF TypeOK, PCs
<1>2. StoreHoldsFinished'
  BY DEF StoreHoldsFinished, Finished, TypeOK
<1>3. CreatesOwnTheirObject'
  BY DEF CreatesOwnTheirObject, OwnObject, TypeOK
<1>4. ReloadsKnowTheirObject'
  BY DEF ReloadsKnowTheirObject, Finished, TypeOK
<1>5. AloneUnlessCrossed'
  BY DEF AloneUnlessCrossed, InFlight, TypeOK
<1>6. NewestIsStored'
  BY DEF NewestIsStored, TypeOK
<1>7. StampsAdvance'
  BY DEF StampsAdvance, TypeOK
<1>8. OutcomesAreFinal'
  BY DEF OutcomesAreFinal, TypeOK
<1>9. NoDuplicateAfterSuccess'
  BY DEF NoDuplicateAfterSuccess, Creating, TypeOK
<1>10. ReplaySound'
  BY DEF ReplaySound, ReplayIsSound, OutcomesAreFinal, Finished, TypeOK
<1>11. ConflictIsReal'
  BY DEF ConflictIsReal, ConflictHasCause, OutcomesAreFinal, Finished, TypeOK
<1> QED
  BY <1>1, <1>2, <1>3, <1>4, <1>5, <1>6, <1>7, <1>8, <1>9, <1>10, <1>11

LEMMA InitInv == Init => AllInv
<1> SUFFICES ASSUME Init PROVE AllInv
  OBVIOUS
<1> USE NothingIsFresh DEF Init
<1>1. TypeOK
  BY DEF TypeOK, PCs
<1>2. StoreHoldsFinished /\ CreatesOwnTheirObject /\ ReloadsKnowTheirObject
  BY DEF StoreHoldsFinished, CreatesOwnTheirObject, ReloadsKnowTheirObject
<1>3. AloneUnlessCrossed /\ NewestIsStored /\ StampsAdvance /\ OutcomesAreFinal
  BY DEF AloneUnlessCrossed, InFlight, NewestIsStored, StampsAdvance, OutcomesAreFinal
<1>4. NoDuplicateAfterSuccess /\ ReplaySound /\ ConflictIsReal
  BY DEF NoDuplicateAfterSuccess, ReplaySound, ReplayIsSound, ConflictIsReal, ConflictHasCause
<1> QED
  BY <1>1, <1>2, <1>3, <1>4 DEF AllInv, CreateInv

LEMMA NextInv == AllInv /\ [Next]_vars => AllInv'
<1> SUFFICES ASSUME AllInv, [Next]_vars PROVE AllInv'
  OBVIOUS
<1>1. CASE Next
  BY <1>1, CallInv, LookupInv, ReloadInv, PrepareInv, PostInv, PostRefusedInv,
     FollowUpInv, FollowUpFailsInv, StampInv, RecordInv, TickInv, RestartInv DEF Next
<1>2. CASE UNCHANGED vars
  <2> USE <1>2 DEF vars, AllInv, CreateInv
  <2>1. TypeOK' /\ StoreHoldsFinished' /\ CreatesOwnTheirObject' /\ ReloadsKnowTheirObject'
    BY DEF TypeOK, StoreHoldsFinished, Finished, CreatesOwnTheirObject, OwnObject, ReloadsKnowTheirObject
  <2>2. AloneUnlessCrossed' /\ NewestIsStored' /\ StampsAdvance' /\ OutcomesAreFinal'
    BY DEF AloneUnlessCrossed, InFlight, NewestIsStored, StampsAdvance, OutcomesAreFinal
  <2>3. NoDuplicateAfterSuccess' /\ ReplaySound' /\ ConflictIsReal'
    BY DEF NoDuplicateAfterSuccess, ReplaySound, ReplayIsSound, ConflictIsReal, ConflictHasCause, Finished
  <2> QED
    BY <2>1, <2>2, <2>3
<1> QED
  BY <1>1, <1>2

(* CreateInv, with the three promises to the callers, is an invariant.     *)
THEOREM CreateIsSound == Spec => []AllInv
<1> QED
  BY InitInv, NextInv, PTL DEF Spec

(* A later call with a finished key never creates a second object within   *)
(* the TTL, for any number of callers (_idempotency.py:106-127).           *)
THEOREM SequentialRetriesAreSafe == Spec => []NoDuplicateAfterSuccess
<1>1. AllInv => NoDuplicateAfterSuccess
  BY DEF AllInv
<1> QED
  BY <1>1, CreateIsSound, PTL

(* A replay hands back a finished object of the same call, in the shape    *)
(* the caller asked for (base.py:799-834).                                 *)
THEOREM ReplaysAreSound == Spec => [](ReplaySound /\ ConflictIsReal)
<1>1. AllInv => ReplaySound /\ ConflictIsReal
  BY DEF AllInv
<1> QED
  BY <1>1, CreateIsSound, PTL

(* The inductive invariant itself.                                         *)
THEOREM CreateInvariant == Spec => []CreateInv
<1>1. AllInv => CreateInv
  BY DEF AllInv
<1> QED
  BY <1>1, CreateIsSound, PTL
=============================================================================
