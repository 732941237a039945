------------------------- MODULE PipelineWaitProofs -------------------------
(***************************************************************************)
(* What a result of wait_for_pipeline says and how the call paces itself,  *)
(* for any number of runs, page size, timeout and interval.                *)
(*                                                                         *)
(* The verdict rests on one fact about a listing (PageOfTruth): a page     *)
(* holds only runs the commit has, is empty only when there are none, and  *)
(* is everything when it reaches every run.  The rest carries that fact    *)
(* from the listing to the return, step by step.                           *)
(***************************************************************************)
EXTENDS PipelineWait, Sequences, TLAPS, FiniteSetTheorems, SequenceTheorems,
        WellFoundedInduction

(* A nonempty set of runs has a newest one.                                *)
LEMMA LastExists ==
    ASSUME NEW n \in Nat, NEW S \in SUBSET (1..n), S # {}
    PROVE  \E i \in S : \A j \in S : j <= i
<1> DEFINE T == {n - i : i \in S}
           R == OpToRel(<, Nat)
<1>1. T \subseteq Nat /\ T # {}
  <2>1. \A i \in S : n - i \in Nat
    OBVIOUS
  <2>2. \A x : x \in T <=> \E i \in S : x = n - i
    OBVIOUS
  <2> HIDE DEF T
  <2> QED
    BY <2>1, <2>2
<1>2. \E x \in T : \A y \in T : ~(<<y, x>> \in R)
  <2> HIDE DEF T
  <2> QED
    BY <1>1, NatLessThanWellFounded, WFMin
<1>3. PICK x \in T : \A y \in T : ~(<<y, x>> \in R)
  BY <1>2
<1>4. \A y \in T : ~(y < x)
  BY <1>1, <1>3 DEF OpToRel
<1>5. PICK i \in S : x = n - i
  BY <1>3
<1>6. \A j \in S : j <= i
  BY <1>4, <1>5
<1> QED
  BY <1>6

LEMMA NewestExists ==
    ASSUME NEW S \in SUBSET (1..MaxRuns), S # {}
    PROVE  \E i \in S : \A j \in S : j <= i
BY LastExists, BoundsAreNaturals

LEMMA ListedIsFinite == IsFiniteSet(Listed) /\ Listed \subseteq 1..MaxRuns
<1>1. IsFiniteSet(1..MaxRuns)
  BY FS_Interval, BoundsAreNaturals
<1>2. Listed \subseteq 1..MaxRuns
  BY DEF Listed
<1> QED
  BY <1>1, <1>2, FS_Subset

(* What one listing tells about the runs of its instant.                   *)
LEMMA PageOfTruth ==
    ASSUME TypeOK
    PROVE  /\ PageNow \in SUBSET Visible
           /\ TruthNow \in [states : SUBSET Visible, whole : BOOLEAN]
           /\ PageNow \subseteq TruthNow.states
           /\ PageNow = {} => TruthNow.states = {}
           /\ TruthNow.whole => PageNow = TruthNow.states
<1>1. Listed \subseteq 1..MaxRuns /\ \A i \in Listed : run[i] \in Visible
  BY DEF Listed
<1>2. \A i : InPage(i) => i \in Listed
  BY DEF InPage
<1>3. TruthNow.states = {run[i] : i \in Listed} /\ TruthNow.whole = (\A i \in Listed : InPage(i))
  BY DEF TruthNow
<1>4. \A s : s \in PageNow <=> \E i \in 1..MaxRuns : InPage(i) /\ s = run[i]
  BY DEF PageNow
<1>5. ASSUME Listed # {} PROVE PageNow # {}
  <2>1. PICK i \in Listed : \A j \in Listed : j <= i
    BY <1>1, <1>5, NewestExists
  <2>2. {j \in Listed : j > i} = {}
    <3>1. \A j \in Listed : j \in Int /\ ~(j > i)
      BY <1>1, <2>1, BoundsAreNaturals
    <3> QED
      BY <3>1
  <2>3. InPage(i)
    BY <2>2, FS_EmptySet, BoundsAreNaturals DEF InPage
  <2> QED
    BY <1>1, <1>4, <2>3
<1>6. TruthNow \in [states : SUBSET Visible, whole : BOOLEAN]
  <2>1. {run[i] : i \in Listed} \in SUBSET Visible
    BY <1>1
  <2>2. (\A i \in Listed : InPage(i)) \in BOOLEAN
    OBVIOUS
  <2> QED
    BY <2>1, <2>2 DEF TruthNow
<1>7. \A s : s \in TruthNow.states <=> \E i \in Listed : s = run[i]
  BY <1>3
<1>8. PageNow \in SUBSET Visible /\ PageNow \subseteq TruthNow.states
  BY <1>1, <1>2, <1>4, <1>7
<1>9. PageNow = {} => TruthNow.states = {}
  BY <1>5, <1>7
<1>10. TruthNow.whole => PageNow = TruthNow.states
  BY <1>1, <1>3, <1>4, <1>7, <1>8
<1> QED
  BY <1>6, <1>8, <1>9, <1>10

LEMMA NoRunsNoTruth ==
    ASSUME \A i \in 1..MaxRuns : run[i] = "absent"
    PROVE  TruthNow.states = {}
BY ConclusionsAreDistinct DEF TruthNow, Listed, Visible

(* The effective interval is a whole number, no shorter than the floor.    *)
LEMMA IntervalIsEnough == Interval \in Nat /\ Interval >= Floor
BY BoundsAreNaturals DEF Interval

LEMMA ClassifyIsAVerdict ==
    ASSUME NEW rs
    PROVE  /\ Classify(rs) \in {"failure", "pending", "success", "no_verdict"}
           /\ Classify(rs) = "failure" => rs \cap Red # {}
           /\ Classify(rs) = "pending" => "in_flight" \in rs
           /\ Classify(rs) = "success" => rs = {"success"}
           /\ Classify(rs) = "no_verdict" =>
                 rs \cap Red = {} /\ "in_flight" \notin rs /\ rs # {"success"}
<1>1. CASE rs \cap Red # {}
  BY <1>1 DEF Classify
<1>2. CASE rs \cap Red = {} /\ "in_flight" \in rs
  BY <1>2 DEF Classify
<1>3. CASE rs \cap Red = {} /\ "in_flight" \notin rs /\ rs = {"success"}
  BY <1>3 DEF Classify
<1>4. CASE rs \cap Red = {} /\ "in_flight" \notin rs /\ rs # {"success"}
  BY <1>4 DEF Classify
<1> QED
  BY <1>1, <1>2, <1>3, <1>4

-----------------------------------------------------------------------------
(* The inductive invariant: the parts of WaitInv, and the three promises.  *)
AllInv ==
    WaitInv /\ VerdictMatchesServer /\ GivesUpOnlyAtDeadline /\ SleepsEndByDeadline

LEMMA InitInv == Init => AllInv
<1> SUFFICES ASSUME Init PROVE AllInv
  OBVIOUS
<1>1. TypeOK
  BY BoundsAreNaturals DEF Init, TypeOK, First, Nothing, RunStates, PCs
<1>2. RowsAreTrue /\ LoopKnows /\ UnknownHasNoRuns /\ SleepIsLongEnough
  BY DEF Init, RowsAreTrue, LoopKnows, UnknownHasNoRuns, SleepIsLongEnough, First, Nothing
<1>3. (out = "none") <=> (pc # "done")
  BY DEF Init, First
<1>4. VerdictMatchesServer /\ GivesUpOnlyAtDeadline /\ SleepsEndByDeadline
  BY BoundsAreNaturals DEF Init, VerdictMatchesServer, GivesUpOnlyAtDeadline,
     SleepsEndByDeadline, Deadline
<1> QED
  BY <1>1, <1>2, <1>3, <1>4 DEF AllInv, WaitInv

(* While the call runs, its result is open and the promises about it are   *)
(* not yet due.                                                            *)
LEMMA OpenResult ==
    ASSUME out = "none"
    PROVE  VerdictMatchesServer /\ GivesUpOnlyAtDeadline
BY DEF VerdictMatchesServer, GivesUpOnlyAtDeadline

LEMMA ResolveInv == AllInv /\ Resolve => AllInv'
<1> SUFFICES ASSUME AllInv, Resolve PROVE AllInv'
  OBVIOUS
<1> USE DEF AllInv, WaitInv
<1>0. TruthNow \in [states : SUBSET Visible, whole : BOOLEAN]
  BY PageOfTruth
<1>1. /\ pc' \in {"classify", "list", "ci"} /\ out' = "none" /\ rows' \in SUBSET Visible
      /\ truth' \in [states : SUBSET Visible, whole : BOOLEAN]
  BY <1>0 DEF Resolve, TypeOK
<1>2. TypeOK'
  BY <1>1 DEF Resolve, TypeOK, PCs, server
<1>3. RowsAreTrue' /\ LoopKnows'
  <2>1. CASE ~known /\ order = "commit_first"
    <3>1. TruthNow.states = {}
      BY <2>1, NoRunsNoTruth DEF UnknownHasNoRuns
    <3> QED
      BY <2>1, <3>1 DEF Resolve, RowsAreTrue, LoopKnows
  <2>2. CASE ~known /\ order # "commit_first"
    <3>1. truth.states = {} /\ rows' = {} /\ truth' = truth /\ pc' = "classify"
      BY <2>2 DEF Resolve, LoopKnows, TypeOK
    <3> QED
      BY <3>1 DEF RowsAreTrue, LoopKnows
  <2>3. CASE known
    BY <2>3 DEF Resolve, RowsAreTrue, LoopKnows, TypeOK
  <2> QED
    BY <2>1, <2>2, <2>3
<1>4. UnknownHasNoRuns' /\ SleepIsLongEnough' /\ SleepsEndByDeadline'
  BY <1>1 DEF Resolve, UnknownHasNoRuns, SleepIsLongEnough, SleepsEndByDeadline, server, Deadline
<1>5. VerdictMatchesServer' /\ GivesUpOnlyAtDeadline'
  BY <1>1 DEF VerdictMatchesServer, GivesUpOnlyAtDeadline
<1> QED
  BY <1>1, <1>2, <1>3, <1>4, <1>5

LEMMA ListInv == AllInv /\ List => AllInv'
<1> SUFFICES ASSUME AllInv, List PROVE AllInv'
  OBVIOUS
<1> USE DEF AllInv, WaitInv
<1>0. /\ PageNow \in SUBSET Visible
      /\ TruthNow \in [states : SUBSET Visible, whole : BOOLEAN]
      /\ PageNow \subseteq TruthNow.states
      /\ PageNow = {} => TruthNow.states = {}
      /\ TruthNow.whole => PageNow = TruthNow.states
  BY PageOfTruth
<1> HIDE DEF PageNow, TruthNow
<1>1. /\ pc = "list" /\ rows' = PageNow /\ truth' = TruthNow /\ out' = out
      /\ order \in {"commit_first", "runs_first"} /\ order' = order /\ out = "none"
  BY DEF List, TypeOK
<1>2. /\ pc' \in {"classify", "ci", "resolve"}
      /\ pc' \in {"ci", "resolve"} => PageNow = {}
  BY <1>1 DEF List
<1>3. TypeOK'
  BY <1>0, <1>1, <1>2 DEF List, TypeOK, PCs, server
<1>4. RowsAreTrue' /\ LoopKnows'
  BY <1>0, <1>1, <1>2 DEF RowsAreTrue, LoopKnows
<1>5. UnknownHasNoRuns' /\ SleepIsLongEnough' /\ SleepsEndByDeadline'
  BY <1>2 DEF List, UnknownHasNoRuns, SleepIsLongEnough, SleepsEndByDeadline, server, Deadline
<1>6. VerdictMatchesServer' /\ GivesUpOnlyAtDeadline'
  BY <1>1 DEF VerdictMatchesServer, GivesUpOnlyAtDeadline
<1> QED
  BY <1>1, <1>2, <1>3, <1>4, <1>5, <1>6

LEMMA CheckCIInv == AllInv /\ CheckCI => AllInv'
<1> SUFFICES ASSUME AllInv, CheckCI PROVE AllInv'
  OBVIOUS
<1> USE DEF AllInv, WaitInv, CheckCI, server
<1>1. TypeOK' /\ out' = "none" /\ pc' = "classify"
  BY DEF TypeOK, PCs
<1>2. RowsAreTrue' /\ LoopKnows'
  BY DEF RowsAreTrue, LoopKnows
<1>3. UnknownHasNoRuns' /\ SleepIsLongEnough' /\ SleepsEndByDeadline'
  BY DEF UnknownHasNoRuns, SleepIsLongEnough, SleepsEndByDeadline, Deadline
<1>4. VerdictMatchesServer' /\ GivesUpOnlyAtDeadline'
  BY <1>1 DEF VerdictMatchesServer, GivesUpOnlyAtDeadline
<1> QED
  BY <1>1, <1>2, <1>3, <1>4

LEMMA RequestFailsInv == AllInv /\ RequestFails => AllInv'
<1> SUFFICES ASSUME AllInv, RequestFails PROVE AllInv'
  OBVIOUS
<1> USE DEF AllInv, WaitInv, RequestFails, server
<1>1. TypeOK' /\ out' = "raised" /\ pc' = "done"
  BY DEF TypeOK, PCs
<1>2. RowsAreTrue' /\ LoopKnows'
  BY DEF RowsAreTrue, LoopKnows
<1>3. UnknownHasNoRuns' /\ SleepIsLongEnough' /\ SleepsEndByDeadline'
  BY DEF UnknownHasNoRuns, SleepIsLongEnough, SleepsEndByDeadline, Deadline
<1>4. VerdictMatchesServer' /\ GivesUpOnlyAtDeadline'
  BY <1>1 DEF VerdictMatchesServer, GivesUpOnlyAtDeadline
<1> QED
  BY <1>1, <1>2, <1>3, <1>4

(* The verdict drawn from a page holds of the whole truth it was cut from. *)
LEMMA VerdictOfPage ==
    ASSUME NEW rs \in SUBSET Visible, NEW t \in [states : SUBSET Visible, whole : BOOLEAN],
           rs # {}, rs \subseteq t.states, t.whole => rs = t.states
    PROVE  /\ Classify(rs) = "failure" => t.states \cap Red # {}
           /\ Classify(rs) = "success" =>
                 "success" \in t.states /\ (t.whole => t.states = {"success"})
           /\ Classify(rs) = "no_verdict" =>
                 /\ t.states \cap Inconclusive # {}
                 /\ t.whole => t.states \cap ({"in_flight"} \cup Red) = {}
           /\ Classify(rs) = "pending" => "in_flight" \in t.states
<1>1. CASE Classify(rs) = "failure" \/ Classify(rs) = "success" \/ Classify(rs) = "pending"
  BY <1>1, ClassifyIsAVerdict
<1>2. CASE Classify(rs) = "no_verdict"
  <2>1. rs \cap Red = {} /\ "in_flight" \notin rs /\ rs # {"success"}
    BY <1>2, ClassifyIsAVerdict
  <2>2. PICK s \in rs : s # "success"
    BY <2>1
  <2>3. s \in Inconclusive
    BY <2>1, <2>2 DEF Visible, Conclusions
  <2> QED
    BY <1>2, <2>1, <2>3
<1> QED
  BY <1>1, <1>2, ClassifyIsAVerdict

LEMMA JudgeInv == AllInv /\ Judge => AllInv'
<1> SUFFICES ASSUME AllInv, Judge PROVE AllInv'
  OBVIOUS
<1> USE DEF AllInv, WaitInv
<1>0. Classify(rows) \in {"failure", "pending", "success", "no_verdict"}
  BY ClassifyIsAVerdict
<1> HIDE DEF Classify
<1>1. /\ pc = "classify" /\ out = "none" /\ clock' = clock /\ rows' = rows
      /\ truth' = truth /\ noci' = noci /\ wake' = wake /\ began' = began
      /\ run' = run /\ known' = known /\ ci' = ci /\ order' = order
  BY DEF Judge, server
<1>2. \/ rows # {} /\ Classify(rows) # "pending" /\ out' = Classify(rows) /\ pc' = "done"
      \/ rows = {} /\ noci /\ out' = "no_runs" /\ pc' = "done"
      \/ /\ out' = "none" /\ pc' = "expire"
         /\ rows # {} => Classify(rows) = "pending"
  BY <1>1 DEF Judge, Return
<1>3. TypeOK'
  BY <1>0, <1>1, <1>2 DEF TypeOK, PCs, Verdicts
<1>4. RowsAreTrue' /\ LoopKnows' /\ UnknownHasNoRuns' /\ SleepIsLongEnough' /\ SleepsEndByDeadline'
  BY <1>1, <1>2, ClassifyIsAVerdict DEF RowsAreTrue, LoopKnows, UnknownHasNoRuns,
     SleepIsLongEnough, SleepsEndByDeadline, Deadline
<1>5. (out' = "none") <=> (pc' # "done")
  BY <1>0, <1>2
<1>6. VerdictMatchesServer' /\ GivesUpOnlyAtDeadline'
  <2>1. rows \subseteq truth.states /\ (rows = {} => truth.states = {}) /\ (truth.whole => rows = truth.states)
    BY <1>1 DEF RowsAreTrue
  <2>2. CASE rows # {} /\ Classify(rows) # "pending" /\ out' = Classify(rows)
    <3>1. rows \in SUBSET Visible /\ truth \in [states : SUBSET Visible, whole : BOOLEAN]
      BY DEF TypeOK
    <3>2. /\ Classify(rows) = "failure" => truth.states \cap Red # {}
          /\ Classify(rows) = "success" =>
                "success" \in truth.states /\ (truth.whole => truth.states = {"success"})
          /\ Classify(rows) = "no_verdict" =>
                /\ truth.states \cap Inconclusive # {}
                /\ truth.whole => truth.states \cap ({"in_flight"} \cup Red) = {}
      BY <2>1, <2>2, <3>1, VerdictOfPage
    <3>3. out' # "pending" /\ out' # "no_runs" /\ truth' = truth
      BY <1>0, <1>1, <2>2
    <3> QED
      BY <2>2, <3>2, <3>3 DEF VerdictMatchesServer, GivesUpOnlyAtDeadline
  <2>3. CASE rows = {} /\ noci /\ out' = "no_runs"
    BY <1>1, <2>1, <2>3 DEF VerdictMatchesServer, GivesUpOnlyAtDeadline
  <2>4. CASE out' = "none"
    BY <2>4 DEF VerdictMatchesServer, GivesUpOnlyAtDeadline
  <2> QED
    BY <1>2, <2>2, <2>3, <2>4
<1> QED
  BY <1>3, <1>4, <1>5, <1>6

(* A pending page is why the loop goes on with runs in hand.               *)
LEMMA ExpireInv == AllInv /\ Expire => AllInv'
<1> SUFFICES ASSUME AllInv, Expire PROVE AllInv'
  OBVIOUS
<1> USE DEF AllInv, WaitInv
<1>1. /\ pc = "expire" /\ out = "none" /\ clock' = clock /\ rows' = rows
      /\ truth' = truth /\ noci' = noci /\ began' = began
      /\ run' = run /\ known' = known /\ ci' = ci /\ order' = order
  BY DEF Expire, server
<1>2. \/ /\ clock >= Deadline /\ pc' = "done" /\ wake' = wake
         /\ out' = IF rows # {} THEN "pending" ELSE "no_runs"
      \/ pc' = "sleep" /\ out' = "none" /\ wake' = WakeTime
  BY <1>1 DEF Expire, Return, Expired
<1>3. /\ WakeTime \in Nat /\ WakeTime <= Deadline
      /\ WakeTime >= clock + Floor \/ WakeTime = Deadline
  BY IntervalIsEnough, BoundsAreNaturals DEF WakeTime, Deadline, TypeOK
<1> HIDE DEF WakeTime
<1>4. TypeOK'
  BY <1>1, <1>2, <1>3 DEF TypeOK, PCs, Verdicts
<1>5. RowsAreTrue' /\ LoopKnows' /\ UnknownHasNoRuns'
  BY <1>1, <1>2 DEF RowsAreTrue, LoopKnows, UnknownHasNoRuns
<1>6. SleepIsLongEnough' /\ SleepsEndByDeadline'
  BY <1>1, <1>2, <1>3, BoundsAreNaturals
     DEF SleepIsLongEnough, SleepsEndByDeadline, Deadline, TypeOK
<1>7. VerdictMatchesServer' /\ GivesUpOnlyAtDeadline'
  BY <1>1, <1>2 DEF VerdictMatchesServer, GivesUpOnlyAtDeadline, RowsAreTrue, LoopKnows, Deadline
<1> QED
  BY <1>1, <1>2, <1>4, <1>5, <1>6, <1>7

LEMMA WakeInv == AllInv /\ Wake => AllInv'
<1> SUFFICES ASSUME AllInv, Wake PROVE AllInv'
  OBVIOUS
<1> USE DEF AllInv, WaitInv
<1>1. /\ pc' \in {"resolve", "list"} /\ pc' = First /\ out' = "none" /\ rows' = {}
      /\ truth' = Nothing /\ wake' = 0 /\ began' = clock /\ clock' = clock /\ order' = order
  BY DEF Wake, First
<1>2. TypeOK'
  <2>1. Nothing \in [states : SUBSET Visible, whole : BOOLEAN]
    BY DEF Nothing
  <2> QED
    <3>1. /\ run' = run /\ known' = known /\ ci' = ci /\ out' = out /\ noci' = FALSE
      BY DEF Wake, server
    <3> QED
      BY <1>1, <2>1, <3>1 DEF TypeOK, PCs
<1>3. RowsAreTrue' /\ LoopKnows' /\ UnknownHasNoRuns'
  BY <1>1 DEF Wake, RowsAreTrue, LoopKnows, UnknownHasNoRuns, Nothing, server
<1>4. SleepIsLongEnough' /\ SleepsEndByDeadline'
  BY <1>1, BoundsAreNaturals DEF TypeOK, SleepIsLongEnough, SleepsEndByDeadline, Deadline
<1>5. VerdictMatchesServer' /\ GivesUpOnlyAtDeadline'
  BY <1>1 DEF VerdictMatchesServer, GivesUpOnlyAtDeadline
<1> QED
  BY <1>1, <1>2, <1>3, <1>4, <1>5

LEMMA TickInv == AllInv /\ Tick => AllInv'
<1> SUFFICES ASSUME AllInv, Tick PROVE AllInv'
  OBVIOUS
<1> USE DEF AllInv, WaitInv, Tick, server
<1>1. TypeOK' /\ clock' >= clock
  BY DEF TypeOK
<1>2. RowsAreTrue' /\ LoopKnows' /\ UnknownHasNoRuns' /\ SleepsEndByDeadline'
  BY DEF RowsAreTrue, LoopKnows, UnknownHasNoRuns, SleepsEndByDeadline, Deadline
<1>3. SleepIsLongEnough'
  BY DEF SleepIsLongEnough, TypeOK, Deadline
<1>4. VerdictMatchesServer' /\ GivesUpOnlyAtDeadline'
  BY DEF VerdictMatchesServer, GivesUpOnlyAtDeadline
<1> QED
  BY <1>1, <1>2, <1>3, <1>4

(* CI moves; the call does not.                                            *)
LEMMA WorldInv == AllInv /\ World => AllInv'
<1> SUFFICES ASSUME AllInv, World PROVE AllInv'
  OBVIOUS
<1> USE DEF AllInv, WaitInv
<1>1. UNCHANGED call
  BY DEF World, Push, RunAppears, RunCompletes, RunRestarts, RunVanishes, WorkflowsChange
<1>2. run' \in [1..MaxRuns -> RunStates] /\ known' \in BOOLEAN /\ ci' \in BOOLEAN
  <2>1. Conclusions \subseteq RunStates /\ {"in_flight", "deleted"} \subseteq RunStates
    BY DEF RunStates, Visible
  <2> QED
    BY <2>1 DEF World, Push, RunAppears, RunCompletes, RunRestarts, RunVanishes,
       WorkflowsChange, TypeOK
<1>3. UnknownHasNoRuns'
  <2>1. \A i \in 1..MaxRuns : run[i] \in Visible => known
    BY ConclusionsAreDistinct DEF UnknownHasNoRuns, Visible
  <2>2. {"in_flight"} \cup Conclusions \subseteq Visible
    BY DEF Visible
  <2> QED
    BY <2>1, <2>2 DEF World, Push, RunAppears, RunCompletes, RunRestarts, RunVanishes,
       WorkflowsChange, UnknownHasNoRuns
<1>4. TypeOK'
  BY <1>1, <1>2 DEF TypeOK, call
<1>5. RowsAreTrue' /\ LoopKnows' /\ SleepIsLongEnough' /\ SleepsEndByDeadline'
  BY <1>1 DEF RowsAreTrue, LoopKnows, SleepIsLongEnough, SleepsEndByDeadline, call, Deadline
<1>6. VerdictMatchesServer' /\ GivesUpOnlyAtDeadline'
  BY <1>1 DEF VerdictMatchesServer, GivesUpOnlyAtDeadline, call, Deadline
<1> QED
  BY <1>1, <1>3, <1>4, <1>5, <1>6 DEF call

LEMMA NextInv == AllInv /\ [Next]_vars => AllInv'
<1> SUFFICES ASSUME AllInv, [Next]_vars PROVE AllInv'
  OBVIOUS
<1>1. CASE Caller
  BY <1>1, ResolveInv, ListInv, CheckCIInv, RequestFailsInv, JudgeInv, ExpireInv, WakeInv
     DEF Caller
<1>2. CASE Tick
  BY <1>2, TickInv
<1>3. CASE World
  BY <1>3, WorldInv
<1>4. CASE UNCHANGED vars
  <2> USE <1>4 DEF vars, server, AllInv, WaitInv
  <2>1. TypeOK' /\ RowsAreTrue' /\ LoopKnows' /\ UnknownHasNoRuns' /\ SleepIsLongEnough'
    BY DEF TypeOK, RowsAreTrue, LoopKnows, UnknownHasNoRuns, SleepIsLongEnough, Deadline
  <2>2. VerdictMatchesServer' /\ GivesUpOnlyAtDeadline' /\ SleepsEndByDeadline'
    BY DEF VerdictMatchesServer, GivesUpOnlyAtDeadline, SleepsEndByDeadline, Deadline
  <2> QED
    BY <2>1, <2>2
<1> QED
  BY <1>1, <1>2, <1>3, <1>4 DEF Next

(* The inductive invariant holds in every behaviour.                       *)
THEOREM WaitIsSound == Spec => []AllInv
<1> QED
  BY InitInv, NextInv, PTL DEF Spec

(* The loop knows the commit, its rows are true of one instant, and it has *)
(* slept long enough before every poll but the first.                      *)
THEOREM WaitLoopTheorem == Spec => []WaitInv
<1>1. AllInv => WaitInv
  BY DEF AllInv
<1> QED
  BY <1>1, WaitIsSound, PTL

(* A result of wait_for_pipeline speaks for the commit's runs at one       *)
(* instant of its last poll (base.py:1971-1981, 2007-2018).                *)
THEOREM VerdictsAreTrue == Spec => []VerdictMatchesServer
<1>1. AllInv => VerdictMatchesServer
  BY DEF AllInv
<1> QED
  BY <1>1, WaitIsSound, PTL

(* Without a verdict the call lasts until its deadline, and no sleep it    *)
(* asks for goes beyond (base.py:2014-2019).                               *)
THEOREM WaitsUseTheirTimeout == Spec => []GivesUpOnlyAtDeadline /\ []SleepsEndByDeadline
<1>1. AllInv => GivesUpOnlyAtDeadline /\ SleepsEndByDeadline
  BY DEF AllInv
<1> QED
  BY <1>1, WaitIsSound, PTL

(* Polls keep the rate-limit floor, for every poll interval a caller asks  *)
(* for (base.py:2002).                                                     *)
THEOREM PollsArePaced == Spec => Paced
<1>1. AllInv /\ [Next]_vars =>
        [pc = "sleep" /\ pc' # "sleep" => clock >= began + Floor \/ clock >= Deadline]_vars
  <2> SUFFICES ASSUME AllInv, Next, pc = "sleep", pc' # "sleep"
               PROVE  clock >= began + Floor \/ clock >= Deadline
    OBVIOUS
  <2>1. Wake
    BY DEF Next, Caller, Resolve, List, CheckCI, RequestFails, Judge, Expire, Tick, World,
       Push, RunAppears, RunCompletes, RunRestarts, RunVanishes, WorkflowsChange, call
  <2> QED
    BY <2>1, BoundsAreNaturals DEF Wake, AllInv, WaitInv, SleepIsLongEnough, TypeOK, Deadline
<1> QED
  BY <1>1, WaitIsSound, PTL DEF Spec, Paced
=============================================================================
