-------------------------- MODULE RunTriggerProofs --------------------------
(***************************************************************************)
(* Which run trigger_pipeline resolves, and what its timeouts mean, for    *)
(* any callers, branches, foreign runs, backoffs, clock skew and page.     *)
(***************************************************************************)
EXTENDS RunTrigger, TLAPS, FiniteSetTheorems, SequenceTheorems,
        WellFoundedInduction

(* A nonempty set of runs has a newest one.                                *)
LEMMA LastExists ==
    ASSUME NEW n \in Nat, NEW S \in SUBSET (1..n), S # {}
    PROVE  \E i \in S : \A j \in S : j <= i
<1> DEFINE T == {n - i : i \in S}
           R == OpToRel(<, Nat)
<1>1. T \subseteq Nat /\ T # {}
  <2>1. \A i \in S : n - i \in Nat
    OBVIOUS
  <2>2. \A x : x \in T <=> \E i \in S : x = n - i
    OBVIOUS
  <2> HIDE DEF T
  <2> QED
    BY <2>1, <2>2
<1>2. \E x \in T : \A y \in T : ~(<<y, x>> \in R)
  <2> HIDE DEF T
  <2> QED
    BY <1>1, NatLessThanWellFounded, WFMin
<1>3. PICK x \in T : \A y \in T : ~(<<y, x>> \in R)
  BY <1>2
<1>4. \A y \in T : ~(y < x)
  BY <1>1, <1>3 DEF OpToRel
<1>5. PICK i \in S : x = n - i
  BY <1>3
<1>6. \A j \in S : j <= i
  BY <1>4, <1>5
<1> QED
  BY <1>6
(* Floor division by the ticks of a second keeps the order of instants.    *)
LEMMA TimesGrow ==
    ASSUME NEW n \in Nat \ {0}, NEW p \in Int, NEW q \in Int, p >= q + 1
    PROVE  n * p >= n * q + n
<1>1. n * (p - q - 1) >= 0
  OBVIOUS
<1>2. n * (p - q - 1) = n * p - n * q - n
  OBVIOUS
<1>3. n * p \in Int /\ n * q \in Int
  OBVIOUS
<1> QED
  BY <1>1, <1>2, <1>3

LEMMA SecondsGrow ==
    ASSUME NEW a \in Nat, NEW b \in Nat, a <= b
    PROVE  /\ Sec(a) \in Nat /\ Sec(b) \in Nat
           /\ Sec(a) <= Sec(b)
<1> DEFINE n == Second
           p == a \div n
           q == b \div n
<1>1. n \in Nat \ {0}
  BY TriggerBounds
<1>2. p \in Nat /\ q \in Nat
  BY <1>1
<1>3. a = (n * p) + (a % n) /\ b = (n * q) + (b % n)
  <2>1. \A x \in Nat : x = (n * (x \div n)) + (x % n)
    BY <1>1
  <2> QED
    BY <2>1
<1>4. a % n \in 0..(n - 1) /\ b % n \in 0..(n - 1)
  BY <1>1
<1>5. n * p \in Int /\ n * q \in Int
  BY <1>1, <1>2
<1> HIDE DEF p, q, n
<1>6. ~(p >= q + 1)
  <2> SUFFICES ASSUME p >= q + 1 PROVE FALSE
    OBVIOUS
  <2>1. n * p >= (n * q) + n
    BY <1>1, <1>2, TimesGrow
  <2> QED
    BY <1>1, <1>3, <1>4, <1>5, <2>1
<1> QED
  BY <1>2, <1>6 DEF Sec, p, q, n

-----------------------------------------------------------------------------
(* Types.                                                                  *)
Runs == [ref : Refs \cup {o.ref : o \in Others},
         event : {"workflow_dispatch"} \cup {o.event : o \in Others},
         born : Nat, by : Callers \cup {None}]

TriggerTypes ==
    /\ clock \in Nat /\ skew \in Int
    /\ runs \in Seq(Runs)
    /\ accepted \in [Callers -> Refs \cup {None}]
    /\ strays \subseteq Refs \cup {None}
    /\ pc \in [Callers -> {"idle", "post", "poll", "decide", "sleep"}]
    /\ ref \in [Callers -> Refs \cup {None}]
    /\ since \in [Callers -> Nat] /\ deadline \in [Callers -> Nat]
    /\ attempt \in [Callers -> 1..Len(Backoffs)]
    /\ wake \in [Callers -> Nat]
    /\ rows \in [Callers -> SUBSET Nat]
    /\ \A c \in Callers : rows[c] \subseteq DOMAIN runs
    /\ out \in [Callers -> [kind : {"none", "nowait", "raised", "run", "timeout"},
                            run : Nat]]
    /\ missed \in [Callers -> BOOLEAN]

LEMMA TriggerTypesInit == Init => TriggerTypes
<1>1. 1 \in 1..Len(Backoffs)
  BY LenProperties, EmptySeq, TriggerBounds
<1>2. <<>> \in Seq(Runs)
  BY EmptySeq
<1> QED
  BY <1>1, <1>2, TriggerBounds DEF Init, TriggerTypes

LEMMA RunAppended ==
    ASSUME TriggerTypes, NEW r \in Refs \cup {o.ref : o \in Others},
           NEW e \in {"workflow_dispatch"} \cup {o.event : o \in Others},
           NEW d \in Callers \cup {None}, runs' = NewRun(r, e, d)
    PROVE  /\ runs' \in Seq(Runs) /\ Len(runs') = Len(runs) + 1
           /\ \A i \in 1..Len(runs) : runs'[i] = runs[i]
           /\ runs'[Len(runs) + 1] = [ref |-> r, event |-> e,
                                      born |-> Sec(clock), by |-> d]
<1> DEFINE new == [ref |-> r, event |-> e, born |-> clock \div Second, by |-> d]
<1>1. clock \div Second \in Nat
  <2>1. clock \in Nat /\ clock <= clock
    BY DEF TriggerTypes
  <2>2. Sec(clock) \in Nat
    BY <2>1, SecondsGrow
  <2> QED
    BY <2>2 DEF Sec
<1>2. new \in Runs
  BY <1>1 DEF Runs
<1>3. runs' = Append(runs, new) /\ runs \in Seq(Runs)
  BY DEF NewRun, TriggerTypes
<1>4. new = [ref |-> r, event |-> e, born |-> Sec(clock), by |-> d]
  BY DEF Sec
<1> HIDE DEF new
<1> QED
  BY <1>2, <1>3, <1>4, AppendProperties

(* A caller's next call disowns the runs of the one before.                *)
LEMMA RunsDisowned ==
    ASSUME TriggerTypes, NEW c \in Callers,
           runs' = [i \in DOMAIN runs |->
                      IF runs[i].by = c THEN [runs[i] EXCEPT !.by = None] ELSE runs[i]]
    PROVE  /\ runs' \in Seq(Runs) /\ DOMAIN runs' = DOMAIN runs
           /\ \A i \in DOMAIN runs :
                /\ runs'[i].ref = runs[i].ref /\ runs'[i].event = runs[i].event
                /\ runs'[i].born = runs[i].born
                /\ runs'[i].by = IF runs[i].by = c THEN None ELSE runs[i].by
<1>1. /\ DOMAIN runs = 1..Len(runs) /\ Len(runs) \in Nat
      /\ \A i \in 1..Len(runs) : runs[i] \in Runs
  BY LenProperties, ElementOfSeq DEF TriggerTypes
<1>2. ASSUME NEW x \in Runs
      PROVE  /\ [x EXCEPT !.by = None] \in Runs
             /\ [x EXCEPT !.by = None].ref = x.ref
             /\ [x EXCEPT !.by = None].event = x.event
             /\ [x EXCEPT !.by = None].born = x.born
             /\ [x EXCEPT !.by = None].by = None
  BY DEF Runs
<1>3. \A i \in 1..Len(runs) : runs'[i] \in Runs
  BY <1>1, <1>2
<1>4. runs' \in [1..Len(runs) -> Runs]
  BY <1>1, <1>3
<1>5. runs' \in Seq(Runs)
  BY <1>1, <1>4, SeqDef
<1> QED
  BY <1>1, <1>2, <1>5

(* What a step makes of the runs, and of the clock.                        *)
Grows ==
    /\ skew' = skew /\ clock' \in Nat /\ clock <= clock'
    /\ runs' \in Seq(Runs)
    /\ \A i \in DOMAIN runs :
         /\ i \in DOMAIN runs'
         /\ runs'[i].ref = runs[i].ref /\ runs'[i].event = runs[i].event
         /\ runs'[i].born = runs[i].born
         /\ runs'[i].by \in {runs[i].by, None}
    /\ \A i \in DOMAIN runs' \ DOMAIN runs :
         /\ runs'[i].born = Sec(clock)
         /\ \A j \in DOMAIN runs : j < i
         /\ runs'[i].by # None =>
              /\ runs'[i].event = "workflow_dispatch"
              /\ accepted[runs'[i].by] # None
              /\ runs'[i].ref = accepted[runs'[i].by]

LEMMA AppendGrows ==
    ASSUME TriggerTypes, skew' = skew, clock' = clock,
           NEW r \in Refs \cup {o.ref : o \in Others},
           NEW e \in {"workflow_dispatch"} \cup {o.event : o \in Others},
           NEW d \in Callers \cup {None}, runs' = NewRun(r, e, d),
           d # None => /\ e = "workflow_dispatch"
                       /\ accepted[d] # None /\ r = accepted[d]
    PROVE  Grows
<1>1. /\ runs' \in Seq(Runs) /\ Len(runs') = Len(runs) + 1
      /\ \A i \in 1..Len(runs) : runs'[i] = runs[i]
      /\ runs'[Len(runs) + 1] = [ref |-> r, event |-> e,
                                 born |-> Sec(clock), by |-> d]
  BY RunAppended
<1>2. /\ Len(runs) \in Nat /\ DOMAIN runs = 1..Len(runs)
      /\ DOMAIN runs' = 1..(Len(runs) + 1)
  BY <1>1, LenProperties DEF TriggerTypes
<1>3. \A i \in DOMAIN runs' \ DOMAIN runs : i = Len(runs) + 1
  BY <1>2
<1>4. clock' \in Nat /\ clock <= clock'
  BY DEF TriggerTypes
<1>5. \A i \in DOMAIN runs : i \in DOMAIN runs' /\ runs'[i] = runs[i]
  BY <1>1, <1>2
<1>6. \A j \in DOMAIN runs : j < Len(runs) + 1
  BY <1>2
<1> QED
  BY <1>1, <1>3, <1>4, <1>5, <1>6 DEF Grows

LEMMA IdleGrows ==
    ASSUME TriggerTypes, skew' = skew, runs' = runs,
           clock' \in Nat, clock <= clock'
    PROVE  Grows
BY DEF Grows, TriggerTypes

LEMMA TriggerGrows ==
    ASSUME TriggerTypes, NEW c \in Callers, NEW r \in Refs, Trigger(c, r)
    PROVE  Grows
<1>1. /\ skew' = skew /\ clock' = clock
      /\ runs' = [i \in DOMAIN runs |->
                    IF runs[i].by = c THEN [runs[i] EXCEPT !.by = None] ELSE runs[i]]
  BY DEF Trigger
<1>2. /\ runs' \in Seq(Runs) /\ DOMAIN runs' = DOMAIN runs
      /\ \A i \in DOMAIN runs :
           /\ runs'[i].ref = runs[i].ref /\ runs'[i].event = runs[i].event
           /\ runs'[i].born = runs[i].born
           /\ runs'[i].by = IF runs[i].by = c THEN None ELSE runs[i].by
  BY <1>1, RunsDisowned
<1>3. clock \in Nat
  BY DEF TriggerTypes
<1> QED
  BY <1>1, <1>2, <1>3 DEF Grows

LEMMA StepGrows ==
    ASSUME TriggerTypes, [Next]_vars
    PROVE  Grows
<1>0. clock \in Nat
  BY DEF TriggerTypes
<1>1. CASE UNCHANGED vars
  BY <1>0, <1>1, IdleGrows DEF vars, server
<1>2. ASSUME NEW c \in Callers, NEW r \in Refs, Trigger(c, r)
      PROVE  Grows
  BY <1>2, TriggerGrows
<1>3. ASSUME NEW c \in Callers, Proceed(c)
      PROVE  Grows
  <2>1. skew' = skew /\ runs' = runs /\ clock' = clock
    BY <1>3 DEF Proceed, Post, PostFails, Poll, PollFails,
       Decide, Wake, server
  <2> QED
    BY <1>0, <2>1, IdleGrows
<1>4. ASSUME NEW c \in Callers, RunStarts(c)
      PROVE  Grows
  <2>1. /\ skew' = skew /\ clock' = clock /\ accepted[c] # None
        /\ runs' = NewRun(accepted[c], "workflow_dispatch", c)
    BY <1>4 DEF RunStarts, rest
  <2>2. accepted[c] \in Refs
    BY <2>1 DEF TriggerTypes
  <2> QED
    BY <2>1, <2>2, AppendGrows
<1>5. ASSUME NEW r \in Refs, StrayStarts(r)
      PROVE  Grows
  <2>1. /\ skew' = skew /\ clock' = clock
        /\ runs' = NewRun(r, "workflow_dispatch", None)
    BY <1>5 DEF StrayStarts, rest
  <2> QED
    BY <2>1, AppendGrows
<1>6. ASSUME NEW o \in Others, OtherRun(o)
      PROVE  Grows
  <2>1. /\ skew' = skew /\ clock' = clock
        /\ runs' = NewRun(o.ref, o.event, None)
    BY <1>6 DEF OtherRun, rest
  <2> QED
    BY <2>1, AppendGrows
<1>7. CASE Tick
  <2>1. skew' = skew /\ runs' = runs /\ clock' = clock + 1
    BY <1>7 DEF Tick, server
  <2> QED
    BY <1>0, <2>1, IdleGrows
<1> QED
  BY <1>1, <1>2, <1>3, <1>4, <1>5, <1>6, <1>7 DEF Next

LEMMA BornType ==
    ASSUME TriggerTypes, NEW i \in DOMAIN runs
    PROVE  runs[i].born \in Nat
<1>1. runs \in Seq(Runs)
  BY DEF TriggerTypes
<1>2. runs[i] \in Runs
  BY <1>1, LenProperties, ElementOfSeq
<1> QED
  BY <1>2 DEF Runs

(* Of the runs a poll is left with, Oldest takes one of the oldest.        *)
LEMMA OldestExists ==
    ASSUME TriggerTypes, NEW S \in SUBSET (DOMAIN runs), S # {}
    PROVE  /\ Oldest(S) \in S
           /\ \A j \in S : runs[Oldest(S)].born <= runs[j].born
<1> DEFINE R == OpToRel(<, Nat)
           B == {runs[i].born : i \in S}
<1>1. /\ DOMAIN runs = 1..Len(runs) /\ Len(runs) \in Nat
      /\ \A i \in S : runs[i].born \in Nat
  BY BornType, LenProperties DEF TriggerTypes
<1>2. B \subseteq Nat /\ B # {}
  BY <1>1
<1>3. PICK m \in B : \A b \in B : ~(<<b, m>> \in R)
  <2> HIDE DEF B
  <2> QED
    BY <1>2, NatLessThanWellFounded, WFMin
<1>4. \A i \in S : m <= runs[i].born
  <2>1. \A b \in B : b \in Nat /\ m \in Nat /\ ~(b < m)
    BY <1>2, <1>3 DEF OpToRel
  <2>2. \A i \in S : runs[i].born \in B
    OBVIOUS
  <2> HIDE DEF B
  <2> QED
    BY <2>1, <2>2
<1> DEFINE T == {i \in S : runs[i].born = m}
<1>5. T \in SUBSET (1..Len(runs)) /\ T # {}
  BY <1>1, <1>3
<1>6. PICK k \in T : \A j \in T : j <= k
  <2> HIDE DEF T
  <2> QED
    BY <1>1, <1>5, LastExists
<1>7. k \in S /\ runs[k].born = m /\ \A j \in S : runs[j].born = m => j <= k
  BY <1>6
<1>8. skew \in Int /\ m \in Nat
  BY <1>2 DEF TriggerTypes
<1> HIDE DEF B, T
<1> DEFINE first(i) == \A j \in S :
                         \/ runs[j].born + skew > runs[i].born + skew
                         \/ runs[j].born + skew = runs[i].born + skew /\ j <= i
<1>9. first(k)
  BY <1>1, <1>4, <1>7, <1>8
<1>10. Oldest(S) = CHOOSE i \in S : first(i)
  BY DEF Oldest, CreatedAt
<1>11. Oldest(S) \in S /\ first(Oldest(S))
  <2> HIDE DEF first
  <2> QED
    BY <1>7, <1>9, <1>10
<1>12. \A j \in S : runs[Oldest(S)].born <= runs[j].born
  BY <1>1, <1>8, <1>11
<1> QED
  BY <1>11, <1>12

LEMMA RowsAreRuns ==
    ASSUME NEW c \in Callers
    PROVE  /\ Rows(c) \subseteq Matching(c)
           /\ Matching(c) \subseteq DOMAIN runs
BY DEF Rows, Matching

(* Leave and the locals of a call keep their types.                        *)
LEMMA LeaveTypes ==
    ASSUME TriggerTypes, NEW c \in Callers, NEW i \in Nat,
           NEW kind \in {"none", "nowait", "raised", "run", "timeout"},
           Leave(c, kind, i)
    PROVE  /\ pc' \in [Callers -> {"idle", "post", "poll", "decide", "sleep"}]
           /\ out' \in [Callers -> [kind : {"none", "nowait", "raised", "run", "timeout"},
                                    run : Nat]]
BY DEF Leave, TriggerTypes

LEMMA ProceedTypes ==
    ASSUME TriggerTypes, NEW c \in Callers, Proceed(c)
    PROVE  TriggerTypes'
<1>0. /\ Timeout \in Nat /\ Backoffs \in Seq(Nat) /\ Len(Backoffs) \in Nat
      /\ attempt[c] \in 1..Len(Backoffs) /\ Backoffs[attempt[c]] \in Nat
      /\ DOMAIN runs = 1..Len(runs) /\ Len(runs) \in Nat
  BY LenProperties, ElementOfSeq, TriggerBounds DEF TriggerTypes
<1>1. CASE Post(c)
  <2>1. CASE Leave(c, "nowait", 0)
    <3>1. /\ accepted' = [accepted EXCEPT ![c] = ref[c]]
          /\ UNCHANGED <<clock, skew, runs, strays, ref, since, attempt, wake,
                         rows, missed>>
      BY <1>1 DEF Post
    <3>2. deadline' \in [Callers -> Nat]
      <4>1. \/ deadline' = [deadline EXCEPT ![c] = clock + Timeout]
            \/ deadline' = deadline
        BY <1>1 DEF Post
      <4>2. clock + Timeout \in Nat /\ deadline \in [Callers -> Nat]
        BY <1>0 DEF TriggerTypes
      <4> QED
        BY <4>1, <4>2
    <3> QED
      BY <2>1, <3>1, <3>2, LeaveTypes DEF TriggerTypes
  <2>2. CASE ~Leave(c, "nowait", 0)
    <3>1. /\ accepted' = [accepted EXCEPT ![c] = ref[c]]
          /\ pc' = [pc EXCEPT ![c] = "poll"]
          /\ deadline' = [deadline EXCEPT ![c] = clock + Timeout]
          /\ UNCHANGED <<clock, skew, runs, strays, ref, since, attempt, wake,
                         rows, missed, out>>
      BY <1>1, <2>2 DEF Post
    <3>2. clock + Timeout \in Nat /\ deadline \in [Callers -> Nat]
      BY <1>0 DEF TriggerTypes
    <3>3. deadline' \in [Callers -> Nat]
      BY <3>1, <3>2
    <3> QED
      BY <3>1, <3>3 DEF TriggerTypes
  <2> QED
    BY <2>1, <2>2
<1>2. CASE PostFails(c)
  <2>1. /\ Leave(c, "raised", 0) /\ strays' \subseteq Refs \cup {None}
        /\ UNCHANGED <<clock, skew, runs, accepted, ref, since, deadline, attempt,
                       wake, rows, missed>>
    BY <1>2 DEF PostFails, TriggerTypes
  <2> QED
    BY <2>1, LeaveTypes DEF TriggerTypes
<1>3. CASE Poll(c)
  <2>1. Rows(c) \subseteq DOMAIN runs /\ Rows(c) \in SUBSET Nat
    BY <1>0, RowsAreRuns
  <2> QED
    BY <1>3, <2>1 DEF Poll, server, TriggerTypes
<1>4. CASE PollFails(c)
  <2>1. /\ Leave(c, "raised", 0)
        /\ UNCHANGED <<clock, skew, runs, accepted, strays, ref, since, deadline,
                       attempt, wake, rows, missed>>
    BY <1>4 DEF PollFails, server
  <2> QED
    BY <2>1, LeaveTypes DEF TriggerTypes
<1>5. CASE Decide(c)
  <2>1. UNCHANGED <<clock, skew, runs, accepted, strays, ref, since, deadline,
                    rows, missed>>
    BY <1>5 DEF Decide, server
  <2>2. rows[c] # {} => Oldest(rows[c]) \in Nat
    <3>1. rows[c] \in SUBSET (DOMAIN runs)
      BY DEF TriggerTypes
    <3> QED
      BY <1>0, <3>1, OldestExists
  <2>3. CASE \E k \in {"run", "timeout"}, i \in Nat : Leave(c, k, i)
             /\ UNCHANGED <<wake, attempt>>
    <3>1. PICK k \in {"run", "timeout"}, i \in Nat : Leave(c, k, i)
      BY <2>3
    <3>2. /\ pc' \in [Callers -> {"idle", "post", "poll", "decide", "sleep"}]
          /\ out' \in [Callers -> [kind : {"none", "nowait", "raised", "run", "timeout"},
                                   run : Nat]]
      BY <3>1, LeaveTypes
    <3>3. UNCHANGED <<wake, attempt>>
      BY <2>3
    <3> QED
      BY <2>1, <3>2, <3>3 DEF TriggerTypes
  <2>4. CASE /\ pc' = [pc EXCEPT ![c] = "sleep"]
             /\ wake' = [wake EXCEPT ![c] = clock + Backoffs[attempt[c]]]
             /\ attempt' = [attempt EXCEPT ![c] = NextAttempt(c)]
             /\ UNCHANGED out
    <3>1. NextAttempt(c) \in 1..Len(Backoffs)
      BY <1>0 DEF NextAttempt
    <3>2. clock + Backoffs[attempt[c]] \in Nat
      BY <1>0 DEF TriggerTypes
    <3>3. /\ wake' \in [Callers -> Nat] /\ attempt' \in [Callers -> 1..Len(Backoffs)]
          /\ pc' \in [Callers -> {"idle", "post", "poll", "decide", "sleep"}]
      BY <2>4, <3>1, <3>2 DEF TriggerTypes
    <3> QED
      BY <2>1, <2>4, <3>3 DEF TriggerTypes
  <2> QED
    BY <1>5, <2>2, <2>3, <2>4 DEF Decide
<1>6. CASE Wake(c)
  BY <1>6 DEF Wake, server, TriggerTypes
<1> QED
  BY <1>1, <1>2, <1>3, <1>4, <1>5, <1>6 DEF Proceed

LEMMA TriggerTypesStep ==
    ASSUME TriggerTypes, [Next]_vars
    PROVE  TriggerTypes'
<1>0. /\ skew' \in Int /\ clock' \in Nat /\ runs' \in Seq(Runs)
      /\ DOMAIN runs \subseteq DOMAIN runs'
  BY StepGrows DEF Grows, TriggerTypes
<1>1. CASE UNCHANGED vars
  BY <1>1 DEF vars, server, TriggerTypes
<1>2. ASSUME NEW c \in Callers, NEW r \in Refs, Trigger(c, r)
      PROVE  TriggerTypes'
  <2>1. clock \in Nat /\ clock <= clock /\ 1 \in 1..Len(Backoffs)
    BY LenProperties, EmptySeq, TriggerBounds DEF TriggerTypes
  <2>2. Sec(clock) \in Nat
    BY <2>1, SecondsGrow
  <2>3. /\ strays' \subseteq Refs \cup {None}
        /\ accepted' \in [Callers -> Refs \cup {None}]
    BY <1>2 DEF Trigger, TriggerTypes
  <2>4. /\ since' \in [Callers -> Nat] /\ deadline' \in [Callers -> Nat]
        /\ wake' \in [Callers -> Nat] /\ attempt' \in [Callers -> 1..Len(Backoffs)]
        /\ ref' \in [Callers -> Refs \cup {None}]
    BY <1>2, <2>1, <2>2 DEF Trigger, TriggerTypes
  <2>5. /\ pc' \in [Callers -> {"idle", "post", "poll", "decide", "sleep"}]
        /\ missed' \in [Callers -> BOOLEAN]
        /\ rows' \in [Callers -> SUBSET Nat]
        /\ \A d \in Callers : rows'[d] \subseteq rows[d]
    BY <1>2 DEF Trigger, TriggerTypes
  <2>6. out' \in [Callers -> [kind : {"none", "nowait", "raised", "run", "timeout"},
                              run : Nat]]
    BY <1>2 DEF Trigger, TriggerTypes
  <2>7. \A d \in Callers : rows'[d] \subseteq DOMAIN runs'
    BY <1>0, <2>5 DEF TriggerTypes
  <2> QED
    BY <1>0, <2>3, <2>4, <2>5, <2>6, <2>7 DEF TriggerTypes
<1>3. ASSUME NEW c \in Callers, Proceed(c)
      PROVE  TriggerTypes'
  BY <1>3, ProceedTypes
<1>4. CASE \/ \E c \in Callers : RunStarts(c)
           \/ \E r \in Refs : StrayStarts(r)
           \/ \E o \in Others : OtherRun(o)
           \/ Tick
  <2>1. /\ accepted' \in [Callers -> Refs \cup {None}]
        /\ strays' \subseteq Refs \cup {None}
    BY <1>4 DEF RunStarts, StrayStarts, OtherRun, Tick, server, TriggerTypes
  <2>2. UNCHANGED <<pc, ref, since, deadline, attempt, wake, rows, out, missed>>
    BY <1>4 DEF RunStarts, StrayStarts, OtherRun, Tick, rest
  <2> QED
    BY <1>0, <2>1, <2>2 DEF TriggerTypes
<1> QED
  BY <1>1, <1>2, <1>3, <1>4 DEF Next

-----------------------------------------------------------------------------
(* The inductive invariant.  Runs are born in the order they are listed,   *)
(* and none later than now; a run of the caller's is dispatched on its ref *)
(* since its t0; what a poll is left with, and later the run it resolves,  *)
(* is older than every other run that fits, however many appear meanwhile; *)
(* and a poll left with nothing had no run of the caller's to see.         *)
Aged ==
    \A i \in DOMAIN runs :
      /\ runs[i].born <= Sec(clock)
      /\ \A j \in DOMAIN runs : i < j => runs[i].born <= runs[j].born

Mine(i, c) ==
    /\ runs[i].event = "workflow_dispatch" /\ runs[i].ref = ref[c]
    /\ runs[i].born >= since[c]

Own(c) ==
    /\ since[c] <= Sec(clock)
    /\ accepted[c] \in {None, ref[c]}
    /\ \A i \in DOMAIN runs : runs[i].by = c => Mine(i, c)

Fits(i, c) == Matches(i, c) /\ runs[i].ref = ref[c]

(* The page reaches every run that matches.                                *)
Whole(c) == Cardinality(Matching(c)) <= Page

Eldest(c, S) ==
    /\ S \subseteq DOMAIN runs
    /\ \A i \in S : Fits(i, c)
    /\ Whole(c) => \A i \in DOMAIN runs : Fits(i, c) =>
                     i \in S \/ \A j \in S : runs[j].born <= runs[i].born

NoneSeen(c) == skew >= 0 /\ Whole(c) => missed[c]

Call(c) ==
    /\ Own(c)
    /\ pc[c] # "idle" => out[c].kind = "none"
    /\ pc[c] = "decide" => Eldest(c, rows[c]) /\ (rows[c] = {} => NoneSeen(c))
    /\ out[c].kind = "run" => Eldest(c, {out[c].run})
    /\ out[c].kind = "timeout" => clock >= deadline[c] /\ NoneSeen(c)

TriggerInv == TriggerTypes /\ Aged /\ \A c \in Callers : Call(c)

LEMMA TriggerInit == Init => TriggerInv
<1> SUFFICES ASSUME Init PROVE TriggerInv
  OBVIOUS
<1>1. TriggerTypes
  BY TriggerTypesInit
<1>2. Aged /\ DOMAIN runs = {}
  BY EmptySeq DEF Init, Aged
<1>3. 0 <= Sec(clock)
  BY <1>1, SecondsGrow DEF TriggerTypes
<1>4. ASSUME NEW c \in Callers
      PROVE  Call(c)
  BY <1>2, <1>3 DEF Init, Call, Own
<1> QED
  BY <1>1, <1>2, <1>4 DEF TriggerInv

LEMMA AgedStep ==
    ASSUME TriggerTypes, TriggerTypes', Aged, Grows
    PROVE  Aged'
<1>1. /\ clock \in Nat /\ clock' \in Nat /\ clock <= clock'
      /\ Sec(clock) \in Nat /\ Sec(clock') \in Nat
      /\ Sec(clock) <= Sec(clock')
  BY SecondsGrow DEF Grows, TriggerTypes
<1>2. Sec(clock)' = Sec(clock')
  BY DEF Sec
<1>3. /\ \A i \in DOMAIN runs : i \in Nat /\ runs[i].born \in Nat
      /\ \A i \in DOMAIN runs' : i \in Nat
  <2>1. runs \in Seq(Runs) /\ runs' \in Seq(Runs)
    BY DEF TriggerTypes
  <2>2. /\ DOMAIN runs = 1..Len(runs) /\ Len(runs) \in Nat
        /\ DOMAIN runs' = 1..Len(runs') /\ Len(runs') \in Nat
    BY <2>1, LenProperties
  <2>3. \A i \in 1..Len(runs) : runs[i] \in Runs
    BY <2>1, ElementOfSeq
  <2>4. \A x \in Runs : x.born \in Nat
    BY DEF Runs
  <2> QED
    BY <2>2, <2>3, <2>4
<1>4. ASSUME NEW i \in DOMAIN runs'
      PROVE  /\ runs'[i].born <= Sec(clock)
             /\ \A j \in DOMAIN runs' : i < j => runs'[i].born <= runs'[j].born
  <2>1. CASE i \in DOMAIN runs
    BY <1>1, <1>3, <2>1 DEF Aged, Grows
  <2>2. CASE i \notin DOMAIN runs
    <3>1. runs'[i].born = Sec(clock) /\ \A j \in DOMAIN runs : j < i
      BY <2>2 DEF Grows
    <3>2. ASSUME NEW j \in DOMAIN runs', i < j
          PROVE  runs'[j].born = Sec(clock)
      <4>1. j \notin DOMAIN runs
        BY <1>3, <3>1, <3>2
      <4> QED
        BY <4>1 DEF Grows
    <3> QED
      BY <1>1, <3>1, <3>2
  <2> QED
    BY <2>1, <2>2
<1>5. \A i \in DOMAIN runs' : runs'[i].born \in Nat
  <2>1. \A i \in DOMAIN runs : runs'[i].born = runs[i].born
    BY DEF Grows
  <2>2. \A i \in DOMAIN runs' \ DOMAIN runs : runs'[i].born = Sec(clock)
    BY DEF Grows
  <2> QED
    BY <1>1, <1>3, <2>1, <2>2
<1> QED
  BY <1>1, <1>2, <1>4, <1>5 DEF Aged

(* As runs appear, more of them match and the old ones match as before.    *)
LEMMA MatchingIsFinite ==
    ASSUME TriggerTypes, NEW c \in Callers
    PROVE  IsFiniteSet(Matching(c)) /\ Cardinality(Matching(c)) \in Nat
<1>1. Matching(c) \subseteq 1..Len(runs) /\ Len(runs) \in Nat
  BY LenProperties DEF Matching, TriggerTypes
<1>2. IsFiniteSet(1..Len(runs))
  BY <1>1, FS_Interval
<1>3. IsFiniteSet(Matching(c))
  BY <1>1, <1>2, FS_Subset
<1> QED
  BY <1>3, FS_CardinalityType

LEMMA MatchesKept ==
    ASSUME Grows, NEW c \in Callers, since'[c] = since[c], ref'[c] = ref[c]
    PROVE  \A i \in DOMAIN runs :
             /\ Matches(i, c)' <=> Matches(i, c)
             /\ Fits(i, c)' <=> Fits(i, c)
BY DEF Grows, Matches, CreatedAt, Fits

LEMMA WholeBefore ==
    ASSUME TriggerTypes, TriggerTypes', Grows, NEW c \in Callers,
           since'[c] = since[c], ref'[c] = ref[c], Whole(c)'
    PROVE  Whole(c)
<1>1. /\ IsFiniteSet(Matching(c)') /\ Cardinality(Matching(c)') \in Nat
      /\ IsFiniteSet(Matching(c)) /\ Cardinality(Matching(c)) \in Nat
  <2>1. IsFiniteSet(Matching(c)) /\ Cardinality(Matching(c)) \in Nat
    BY MatchingIsFinite
  <2>2. (IsFiniteSet(Matching(c)) /\ Cardinality(Matching(c)) \in Nat)'
    BY MatchingIsFinite, PTL
  <2> QED
    BY <2>1, <2>2
<1>2. Matching(c) \subseteq Matching(c)'
  BY MatchesKept DEF Matching, Grows
<1>3. Cardinality(Matching(c)) <= Cardinality(Matching(c)')
  BY <1>1, <1>2, FS_Subset
<1>4. Page \in Nat
  BY TriggerBounds
<1> QED
  BY <1>1, <1>3, <1>4 DEF Whole

LEMMA OwnKept ==
    ASSUME TriggerTypes, TriggerTypes', Grows, NEW c \in Callers,
           Own(c), since'[c] = since[c], ref'[c] = ref[c],
           accepted'[c] \in {None, ref[c]}
    PROVE  Own(c)'
<1>1. /\ Sec(clock) \in Nat /\ Sec(clock') \in Nat
      /\ Sec(clock) <= Sec(clock') /\ since[c] \in Nat
  BY SecondsGrow DEF Grows, TriggerTypes
<1>2. since'[c] <= Sec(clock')
  BY <1>1 DEF Own
<1>3. None \notin Callers
  BY TriggerBounds
<1>4. ASSUME NEW i \in DOMAIN runs', runs'[i].by = c
      PROVE  /\ runs'[i].event = "workflow_dispatch" /\ runs'[i].ref = ref[c]
             /\ runs'[i].born >= since[c]
  <2>1. CASE i \in DOMAIN runs
    <3>1. runs[i].by = c
      BY <1>3, <1>4, <2>1 DEF Grows
    <3> QED
      BY <2>1, <3>1 DEF Grows, Own, Mine
  <2>2. CASE i \notin DOMAIN runs
    <3>1. /\ runs'[i].event = "workflow_dispatch" /\ accepted[c] # None
          /\ runs'[i].ref = accepted[c] /\ runs'[i].born = Sec(clock)
      BY <1>3, <1>4, <2>2 DEF Grows
    <3> QED
      BY <1>1, <3>1 DEF Own
  <2> QED
    BY <2>1, <2>2
<1>5. Sec(clock)' = Sec(clock')
  BY DEF Sec
<1> QED
  BY <1>2, <1>4, <1>5 DEF Own, Mine

(* What was eldest stays eldest: a run that appears now is born no earlier.*)
LEMMA EldestKept ==
    ASSUME TriggerTypes, TriggerTypes', Grows, Aged,
           NEW c \in Callers, since'[c] = since[c], ref'[c] = ref[c],
           NEW S, Eldest(c, S)
    PROVE  /\ S \subseteq DOMAIN runs'
           /\ \A i \in S : Fits(i, c)'
           /\ Whole(c)' => \A i \in DOMAIN runs' : Fits(i, c)' =>
                i \in S \/ \A j \in S : runs'[j].born <= runs'[i].born
<1>1. S \subseteq DOMAIN runs /\ \A i \in S : Fits(i, c)
  BY DEF Eldest
<1>2. \A i \in DOMAIN runs : Fits(i, c)' <=> Fits(i, c)
  BY MatchesKept
<1>3. DOMAIN runs \subseteq DOMAIN runs' /\ \A i \in DOMAIN runs : runs'[i].born = runs[i].born
  BY DEF Grows
<1>4. ASSUME Whole(c)', NEW i \in DOMAIN runs', Fits(i, c)', i \notin S, NEW j \in S
      PROVE  runs'[j].born <= runs'[i].born
  <2>1. CASE i \in DOMAIN runs
    <3>1. Whole(c)
      BY <1>4, WholeBefore
    <3>2. runs[j].born <= runs[i].born
      BY <1>2, <1>4, <2>1, <3>1 DEF Eldest
    <3> QED
      BY <1>1, <1>3, <2>1, <3>2
  <2>2. CASE i \notin DOMAIN runs
    <3>1. runs'[i].born = Sec(clock)
      BY <2>2 DEF Grows
    <3>2. runs[j].born <= Sec(clock)
      BY <1>1 DEF Aged
    <3> QED
      BY <1>1, <1>3, <3>1, <3>2
  <2> QED
    BY <2>1, <2>2
<1> QED
  BY <1>1, <1>2, <1>3, <1>4

LEMMA NoneSeenKept ==
    ASSUME TriggerTypes, TriggerTypes', Grows, NEW c \in Callers,
           since'[c] = since[c], ref'[c] = ref[c], missed'[c] = missed[c], NoneSeen(c)
    PROVE  NoneSeen(c)'
BY WholeBefore DEF NoneSeen, Grows

(* A call that does not move keeps its claim while the workflow goes on.   *)
LEMMA CallKept ==
    ASSUME TriggerTypes, TriggerTypes', Grows, Aged,
           NEW c \in Callers, Call(c), accepted'[c] \in {None, accepted[c]},
           since'[c] = since[c], ref'[c] = ref[c], missed'[c] = missed[c],
           pc'[c] = pc[c], rows'[c] = rows[c], out'[c] = out[c],
           deadline'[c] = deadline[c]
    PROVE  Call(c)'
<1>1. Own(c)'
  <2>1. Own(c) /\ accepted'[c] \in {None, ref[c]}
    BY DEF Call, Own
  <2> QED
    BY <2>1, OwnKept
<1>2. ASSUME pc[c] = "decide"
      PROVE  (Eldest(c, rows[c]) /\ (rows[c] = {} => NoneSeen(c)))'
  <2>1. Eldest(c, rows[c])'
    BY <1>2, EldestKept DEF Call, Eldest
  <2>2. rows[c] = {} => NoneSeen(c)'
    BY <1>2, NoneSeenKept DEF Call
  <2> QED
    BY <2>1, <2>2
<1>3. ASSUME out[c].kind = "run"
      PROVE  Eldest(c, {out[c].run})'
  <2> DEFINE S == {out[c].run}
  <2>1. Eldest(c, S)
    BY <1>3 DEF Call
  <2> HIDE DEF S
  <2>2. /\ S \subseteq DOMAIN runs'
        /\ \A i \in S : Fits(i, c)'
        /\ Whole(c)' => \A i \in DOMAIN runs' : Fits(i, c)' =>
             i \in S \/ \A j \in S : runs'[j].born <= runs'[i].born
    BY <2>1, EldestKept
  <2>3. S = {out'[c].run}
    BY DEF S
  <2> QED
    BY <2>2, <2>3 DEF Eldest
<1>4. ASSUME out[c].kind = "timeout"
      PROVE  clock' >= deadline'[c] /\ NoneSeen(c)'
  <2>1. clock >= deadline[c] /\ NoneSeen(c)
    BY <1>4 DEF Call
  <2>2. clock \in Nat /\ clock' \in Nat /\ clock <= clock' /\ deadline[c] \in Nat
    BY DEF TriggerTypes, Grows
  <2> QED
    BY <2>1, <2>2, NoneSeenKept
<1> QED
  BY <1>1, <1>2, <1>3, <1>4 DEF Call

(* A poll whose page reaches all that matches is left with all that fits.  *)
LEMMA RowsAreAll ==
    ASSUME TriggerTypes, NEW c \in Callers, Whole(c),
           NEW i \in DOMAIN runs, Fits(i, c)
    PROVE  i \in Rows(c)
<1> DEFINE M == Matching(c)
           later == {j \in M : j > i}
<1>1. i \in M /\ runs[i].ref = ref[c]
  BY DEF Fits, Matching
<1>2. IsFiniteSet(M) /\ Cardinality(M) \in Nat /\ Cardinality(M) <= Page
  BY MatchingIsFinite DEF Whole
<1>3. Page \in Nat /\ i \in Nat
  <2>1. DOMAIN runs = 1..Len(runs) /\ Len(runs) \in Nat
    BY LenProperties DEF TriggerTypes
  <2> QED
    BY <2>1, TriggerBounds
<1>4. later \subseteq M /\ i \notin later
  BY <1>3
<1>5. Cardinality(later) \in Nat /\ Cardinality(later) < Cardinality(M)
  <2> HIDE DEF M, later
  <2>1. /\ IsFiniteSet(later) /\ Cardinality(later) <= Cardinality(M)
        /\ Cardinality(M) = Cardinality(later) => later = M
    BY <1>2, <1>4, FS_Subset
  <2>2. Cardinality(later) \in Nat
    BY <2>1, FS_CardinalityType
  <2>3. later # M
    BY <1>1, <1>4
  <2> QED
    BY <1>2, <2>1, <2>2, <2>3
<1>6. Cardinality(later) < Page
  BY <1>2, <1>3, <1>5
<1> DEFINE after(k) == {j \in M : j > k}
<1>7. Rows(c) = {k \in M : Cardinality(after(k)) < Page /\ runs[k].ref = ref[c]}
  BY DEF Rows
<1>8. Cardinality(after(i)) < Page
  BY <1>6
<1> HIDE DEF M, after
<1> QED
  BY <1>1, <1>7, <1>8

LEMMA CallPolls ==
    ASSUME TriggerTypes, TriggerTypes', Aged, Grows,
           NEW c \in Callers, Call(c), Poll(c)
    PROVE  Call(c)'
<1>1. /\ pc[c] = "poll" /\ pc'[c] = "decide"
      /\ rows'[c] = Rows(c) /\ missed'[c] = ~\E i \in DOMAIN runs : runs[i].by = c
      /\ UNCHANGED <<clock, skew, runs, accepted, ref, since, deadline, out>>
  BY DEF Poll, server, TriggerTypes
<1>2. Own(c)' /\ Own(c)
  BY <1>1, OwnKept DEF Call, Own
<1>3. \A i : Fits(i, c)' <=> Fits(i, c)
  BY <1>1 DEF Fits, Matches, CreatedAt
<1>4. Whole(c)' <=> Whole(c)
  BY <1>1 DEF Whole, Matching, Matches, CreatedAt
<1>5. /\ Rows(c) \subseteq DOMAIN runs
      /\ \A i \in Rows(c) : Fits(i, c)
  BY DEF Rows, Matching, Fits
<1>6. Eldest(c, rows[c])'
  BY <1>1, <1>3, <1>4, <1>5, RowsAreAll DEF Eldest
<1>7. ASSUME Rows(c) = {}, skew >= 0, Whole(c)
      PROVE  missed'[c]
  <2> SUFFICES ASSUME NEW i \in DOMAIN runs, runs[i].by = c PROVE FALSE
    BY <1>1
  <2>1. Mine(i, c)
    BY <1>2 DEF Own
  <2>2. runs[i].born \in Nat /\ since[c] \in Nat /\ skew \in Int
    <3>1. runs \in Seq(Runs) /\ since[c] \in Nat /\ skew \in Int
      BY DEF TriggerTypes
    <3>2. runs[i] \in Runs
      BY <3>1, LenProperties, ElementOfSeq
    <3> QED
      BY <3>1, <3>2 DEF Runs
  <2>3. Fits(i, c)
    BY <1>7, <2>1, <2>2 DEF Mine, Fits, Matches, CreatedAt
  <2> QED
    BY <1>7, <2>3, RowsAreAll
<1>8. (rows[c] = {} => NoneSeen(c))'
  BY <1>1, <1>4, <1>7 DEF NoneSeen
<1>9. out'[c].kind = "none"
  BY <1>1 DEF Call
<1> QED
  BY <1>1, <1>2, <1>6, <1>8, <1>9 DEF Call

LEMMA CallDecides ==
    ASSUME TriggerTypes, TriggerTypes', Aged, Grows,
           NEW c \in Callers, Call(c), Decide(c)
    PROVE  Call(c)'
<1>1. /\ pc[c] = "decide"
      /\ UNCHANGED <<clock, skew, runs, accepted, ref, since, deadline, rows, missed>>
  BY DEF Decide, server
<1>2. Own(c)'
  BY <1>1, OwnKept DEF Call, Own
<1>3. /\ Eldest(c, rows[c]) /\ (rows[c] = {} => NoneSeen(c)) /\ out[c].kind = "none"
  BY <1>1 DEF Call
<1>4. \A i : Fits(i, c)' <=> Fits(i, c)
  BY <1>1 DEF Fits, Matches, CreatedAt
<1>5. Whole(c)' <=> Whole(c)
  BY <1>1 DEF Whole, Matching, Matches, CreatedAt
<1>6. CASE rows[c] # {} /\ Leave(c, "run", Oldest(rows[c]))
  <2> DEFINE o == Oldest(rows[c])
  <2>1. pc'[c] = "idle" /\ out'[c].kind = "run" /\ out'[c].run = o
    BY <1>6 DEF Leave, TriggerTypes
  <2>2. o \in rows[c] /\ \A j \in rows[c] : runs[o].born <= runs[j].born
    <3>1. rows[c] \in SUBSET (DOMAIN runs)
      BY DEF TriggerTypes
    <3> QED
      BY <1>6, <3>1, OldestExists
  <2> HIDE DEF o
  <2>3. Eldest(c, {o})
    BY <1>3, <2>2 DEF Eldest
  <2>4. Eldest(c, {out[c].run})'
    BY <1>1, <1>4, <1>5, <2>1, <2>3 DEF Eldest
  <2> QED
    BY <1>2, <2>1, <2>4 DEF Call
<1>7. CASE rows[c] = {} /\ Expired(c) /\ Leave(c, "timeout", 0)
  <2>1. pc'[c] = "idle" /\ out'[c].kind = "timeout"
    BY <1>7 DEF Leave, TriggerTypes
  <2>2. clock' >= deadline'[c] /\ NoneSeen(c)'
    BY <1>1, <1>3, <1>5, <1>7 DEF NoneSeen, Expired
  <2> QED
    BY <1>2, <2>1, <2>2 DEF Call
<1>8. CASE pc' = [pc EXCEPT ![c] = "sleep"] /\ UNCHANGED out
  BY <1>2, <1>3, <1>8 DEF Call, TriggerTypes
<1> QED
  BY <1>6, <1>7, <1>8 DEF Decide

LEMMA CallProceeds ==
    ASSUME TriggerTypes, TriggerTypes', Aged, Grows,
           NEW c \in Callers, Call(c), Proceed(c)
    PROVE  Call(c)'
<1>1. CASE Post(c)
  <2>1. /\ pc[c] = "post" /\ accepted'[c] = ref[c]
        /\ UNCHANGED <<ref, since>>
        /\ \/ pc'[c] = "poll" /\ out'[c] = out[c]
           \/ pc'[c] = "idle" /\ out'[c].kind = "nowait"
    BY <1>1 DEF Post, Leave, TriggerTypes
  <2>2. Own(c)'
    BY <2>1, OwnKept DEF Call
  <2> QED
    BY <2>1, <2>2 DEF Call
<1>2. CASE PostFails(c) \/ PollFails(c)
  <2>1. /\ pc'[c] = "idle" /\ out'[c].kind = "raised"
        /\ UNCHANGED <<ref, since, accepted>>
    BY <1>2 DEF PostFails, PollFails, server, Leave, TriggerTypes
  <2>2. Own(c)'
    BY <2>1, OwnKept DEF Call, Own
  <2> QED
    BY <2>1, <2>2 DEF Call
<1>3. CASE Poll(c)
  BY <1>3, CallPolls
<1>4. CASE Decide(c)
  BY <1>4, CallDecides
<1>5. CASE Wake(c)
  <2>1. /\ pc[c] = "sleep" /\ pc'[c] = "poll"
        /\ UNCHANGED <<ref, since, accepted, out>>
    BY <1>5 DEF Wake, server, TriggerTypes
  <2>2. Own(c)'
    BY <2>1, OwnKept DEF Call, Own
  <2> QED
    BY <2>1, <2>2 DEF Call
<1> QED
  BY <1>1, <1>2, <1>3, <1>4, <1>5 DEF Proceed

(* A new call starts with no run of its own.                               *)
LEMMA CallTriggers ==
    ASSUME TriggerTypes, TriggerTypes', Grows, NEW c \in Callers,
           NEW r \in Refs, Trigger(c, r)
    PROVE  Call(c)'
<1>1. /\ pc'[c] = "post" /\ out'[c].kind = "none" /\ accepted'[c] = None
      /\ since'[c] = Sec(clock) /\ clock' = clock
      /\ runs' = [i \in DOMAIN runs |->
                    IF runs[i].by = c THEN [runs[i] EXCEPT !.by = None] ELSE runs[i]]
  BY DEF Trigger, TriggerTypes
<1>2. \A i \in DOMAIN runs' : runs'[i].by # c
  <2>1. /\ DOMAIN runs' = DOMAIN runs
        /\ \A i \in DOMAIN runs :
             runs'[i].by = IF runs[i].by = c THEN None ELSE runs[i].by
    BY <1>1, RunsDisowned
  <2> QED
    BY <2>1, TriggerBounds
<1>3. Sec(clock) \in Nat
  <2>1. clock \in Nat /\ clock <= clock
    BY DEF TriggerTypes
  <2> QED
    BY <2>1, SecondsGrow
<1>4. Own(c)'
  BY <1>1, <1>2, <1>3 DEF Own, Sec
<1> QED
  BY <1>1, <1>4 DEF Call

LEMMA TriggerStep ==
    ASSUME TriggerInv, [Next]_vars
    PROVE  TriggerInv'
<1>1. TriggerTypes /\ Aged /\ \A c \in Callers : Call(c)
  BY DEF TriggerInv
<1>2. TriggerTypes' /\ Grows
  BY <1>1, TriggerTypesStep, StepGrows
<1>3. Aged'
  BY <1>1, <1>2, AgedStep
<1>4. ASSUME NEW d \in Callers
      PROVE  Call(d)'
  <2> DEFINE stays == /\ accepted'[d] \in {None, accepted[d]}
                      /\ since'[d] = since[d] /\ ref'[d] = ref[d]
                      /\ missed'[d] = missed[d] /\ pc'[d] = pc[d]
                      /\ rows'[d] = rows[d] /\ out'[d] = out[d]
                      /\ deadline'[d] = deadline[d]
  <2>1. CASE stays
    BY <1>1, <1>2, <2>1, CallKept
  <2>2. CASE UNCHANGED vars \/ Tick \/ (\E r \in Refs : StrayStarts(r))
             \/ (\E o \in Others : OtherRun(o))
    <3>1. stays
      BY <2>2 DEF vars, Tick, StrayStarts, OtherRun, rest, server
    <3> QED
      BY <2>1, <3>1
  <2>3. ASSUME NEW c \in Callers, RunStarts(c)
        PROVE  Call(d)'
    <3>1. stays
      BY <1>1, <2>3 DEF RunStarts, rest, TriggerTypes
    <3> QED
      BY <2>1, <3>1
  <2>4. ASSUME NEW c \in Callers, Proceed(c)
        PROVE  Call(d)'
    <3>1. CASE c = d
      BY <1>1, <1>2, <2>4, <3>1, CallProceeds
    <3>2. CASE c # d
      <4>1. stays
        BY <1>1, <2>4, <3>2 DEF Proceed, Post, PostFails, Poll,
           PollFails, Decide, Wake, Leave, server, TriggerTypes
      <4> QED
        BY <2>1, <4>1
    <3> QED
      BY <3>1, <3>2
  <2>5. ASSUME NEW c \in Callers, NEW r \in Refs, Trigger(c, r)
        PROVE  Call(d)'
    <3>1. CASE c = d
      BY <1>1, <1>2, <2>5, <3>1, CallTriggers
    <3>2. CASE c # d
      <4>1. stays
        BY <1>1, <2>5, <3>2 DEF Trigger, TriggerTypes
      <4> QED
        BY <2>1, <4>1
    <3> QED
      BY <3>1, <3>2
  <2> QED
    BY <2>2, <2>3, <2>4, <2>5 DEF Next
<1> QED
  BY <1>2, <1>3, <1>4 DEF TriggerInv

(* The inductive invariant of a triggered run's resolution.                *)
THEOREM TriggerIsSound == Spec => []TriggerInv
<1>1. Init => TriggerInv
  BY TriggerInit
<1>2. TriggerInv /\ [Next]_vars => TriggerInv'
  BY TriggerStep
<1> QED
  BY <1>1, <1>2, PTL DEF Spec

(* Of the runs that could be the caller's the oldest is taken, whatever    *)
(* runs appear between the last listing and the answer, or after it.       *)
THEOREM OldestIsTaken == Spec => []OldestOfWindow
<1>1. TriggerInv => OldestOfWindow
  <2> SUFFICES ASSUME TriggerInv, NEW c \in Callers, Resolved(c),
                      Cardinality(Matching(c)) <= Page,
                      NEW i \in Matching(c), runs[i].ref = ref[c]
               PROVE  CreatedAt(i) >= CreatedAt(out[c].run)
    BY DEF OldestOfWindow
  <2>0. TriggerTypes /\ Whole(c)
    BY DEF TriggerInv, Whole
  <2>1. Eldest(c, {out[c].run})
    BY DEF TriggerInv, Call, Resolved
  <2>2. i \in DOMAIN runs /\ Fits(i, c)
    BY DEF Matching, Fits
  <2>3. out[c].run \in DOMAIN runs
    BY <2>1 DEF Eldest
  <2>4. runs[i].born \in Nat /\ runs[out[c].run].born \in Nat /\ skew \in Int
    BY <2>0, <2>2, <2>3, BornType DEF TriggerTypes
  <2>5. runs[i].born >= runs[out[c].run].born
    BY <2>0, <2>1, <2>2, <2>4 DEF Eldest
  <2> DEFINE a == runs[i].born
             b == runs[out[c].run].born
  <2>6. a \in Int /\ b \in Int /\ skew \in Int /\ a >= b
    BY <2>4, <2>5
  <2>7. CreatedAt(i) = a + skew /\ CreatedAt(out[c].run) = b + skew
    BY DEF CreatedAt
  <2> HIDE DEF a, b
  <2> QED
    BY <2>6, <2>7
<1> QED
  BY <1>1, TriggerIsSound, PTL

(* A run born before the second of the call is not taken for the caller's, *)
(* unless the server's clock runs ahead.                                   *)
THEOREM NothingPreexistingIsTaken ==
    Spec => []NeverPreexisting
<1>1. TriggerInv => NeverPreexisting
  <2> SUFFICES ASSUME TriggerInv, NEW c \in Callers, Resolved(c)
               PROVE  /\ runs[out[c].run].ref = ref[c]
                      /\ skew <= 0 => runs[out[c].run].born >= since[c]
    BY DEF NeverPreexisting
  <2>1. out[c].run \in DOMAIN runs /\ Fits(out[c].run, c)
    BY DEF TriggerInv, Call, Resolved, Eldest
  <2>2. /\ runs[out[c].run].born \in Nat /\ skew \in Int /\ since[c] \in Nat
    <3>1. TriggerTypes
      BY DEF TriggerInv
    <3> QED
      BY <2>1, <3>1, BornType DEF TriggerTypes
  <2> QED
    BY <2>1, <2>2 DEF Fits, Matches, CreatedAt
<1> QED
  BY <1>1, TriggerIsSound, PTL

(* A timeout is over time, and with a clock that is not behind and a page  *)
(* that reaches all candidates the caller's run was not there to be seen.  *)
THEOREM TimeoutsAreGenuine ==
    Spec => []TimeoutIsGenuine
<1>1. TriggerInv => TimeoutIsGenuine
  <2> SUFFICES ASSUME TriggerInv, NEW c \in Callers, out[c].kind = "timeout"
               PROVE  /\ clock >= deadline[c]
                      /\ skew >= 0 /\ Cardinality(Matching(c)) <= Page => missed[c]
    BY DEF TimeoutIsGenuine
  <2> QED
    BY DEF TriggerInv, Call, NoneSeen, Whole
<1> QED
  BY <1>1, TriggerIsSound, PTL
=============================================================================
