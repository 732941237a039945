-------------------------- MODULE PullRequestProofs --------------------------
(***************************************************************************)
(* What updates, merges and reviews keep of a pull request, for all calls, *)
(* any number of people and acts of theirs, and all bounds.                *)
(***************************************************************************)
EXTENDS PullRequest, TLAPS, WellFoundedInduction, SequenceTheorems

-----------------------------------------------------------------------------
(* Lemmas about the operators.                                             *)

(* A nonempty set of positions has a last one.                             *)
LEMMA LastExists ==
    ASSUME NEW n \in Nat, NEW S \in SUBSET (1..n), S # {}
    PROVE  \E i \in S : \A j \in S : j <= i
<1> DEFINE T == {n - i : i \in S}
           R == OpToRel(<, Nat)
<1>1. T \subseteq Nat /\ T # {}
  <2>1. \A i \in S : n - i \in Nat
    OBVIOUS
  <2>2. \A x : x \in T <=> \E i \in S : x = n - i
    OBVIOUS
  <2> HIDE DEF T
  <2> QED
    BY <2>1, <2>2
<1>2. PICK x \in T : \A y \in T : ~(<<y, x>> \in R)
  <2> HIDE DEF T
  <2> QED
    BY <1>1, NatLessThanWellFounded, WFMin
<1>3. \A y \in T : ~(y < x)
  BY <1>1, <1>2 DEF OpToRel
<1>4. PICK i \in S : x = n - i
  BY <1>2
<1>5. \A j \in S : j \in Nat /\ n - j \in T
  OBVIOUS
<1>6. \A j \in S : ~(n - j < n - i)
  BY <1>3, <1>4, <1>5
<1> HIDE DEF T, R
<1>7. \A j \in S : j <= i
  BY <1>5, <1>6
<1> QED
  BY <1>7

LEMMA NewestIsLast ==
    ASSUME NEW n \in Nat, NEW S \in SUBSET (1..n), S # {}
    PROVE  Newest(S) \in S /\ \A j \in S : j <= Newest(S)
<1>1. \E i \in S : \A j \in S : j <= i
  BY LastExists
<1> QED
  BY <1>1 DEF Newest

LEMMA NewestIs ==
    ASSUME NEW n \in Nat, NEW S \in SUBSET (1..n), NEW i \in S, \A j \in S : j <= i
    PROVE  Newest(S) = i
<1>1. Newest(S) \in S /\ \A j \in S : j <= Newest(S)
  BY NewestIsLast
<1>2. ASSUME NEW m \in S, \A j \in S : j <= m
      PROVE  m = i
  <2>1. m <= i /\ i <= m
    BY <1>2
  <2>2. m \in Nat /\ i \in Nat
    OBVIOUS
  <2> QED
    BY <2>1, <2>2
<1> QED
  BY <1>1, <1>2

LEMMA NoteAppended ==
    ASSUME NEW ns \in Notes, NEW n \in [by : Users, state : Acts]
    PROVE  /\ Append(ns, n) \in Notes
           /\ DOMAIN ns = 1..Len(ns) /\ Len(ns) \in Nat
           /\ DOMAIN Append(ns, n) = 1..(Len(ns) + 1)
           /\ Len(Append(ns, n)) = Len(ns) + 1
           /\ Append(ns, n)[Len(ns) + 1] = n
           /\ \A i \in 1..Len(ns) : Append(ns, n)[i] = ns[i]
BY DEF Notes

-----------------------------------------------------------------------------
(* How a call ends.                                                        *)

LEMMA Raised ==
    ASSUME NEW e, Raise(e)
    PROVE  /\ call' = Idle /\ result'.op = call.op /\ ~result'.ok
           /\ result'.error = e
BY DEF Raise, End, NoResult

LEMMA Returned ==
    ASSUME NEW a, a = [NoResult EXCEPT !.status = a.status, !.merged = a.merged,
                                       !.ref = a.ref, !.review = a.review],
           Return(a)
    PROVE  /\ call' = Idle /\ result'.op = call.op /\ result'.arg = call.arg
           /\ result'.error = "none" /\ result'.ok
           /\ result'.merged = a.merged /\ result'.review = a.review
BY DEF Return, End, NoResult

LEMMA ReturnedFlag ==
    ASSUME NEW st, NEW merged,
           Return([NoResult EXCEPT !.status = st, !.merged = merged])
    PROVE  /\ call' = Idle /\ result'.op = call.op /\ result'.arg = call.arg
           /\ result'.error = "none" /\ result'.ok /\ result'.merged = merged
BY DEF Return, End, NoResult

LEMMA ReportedMerged ==
    ASSUME NEW p \in Pulls
    PROVE  /\ Reported(p) = [NoResult EXCEPT !.status = Reported(p).status,
                 !.merged = Reported(p).merged, !.ref = Reported(p).ref,
                 !.review = Reported(p).review]
           /\ Reported(p).merged = "yes" => p.st = "merged"
BY DEF Reported, MergedFlag, Status, NoResult

(* What a call reports of a merge.                                         *)
SaysMerged(r) ==
    r.op = "merge" /\ (r.error = AlreadyMerged \/ (r.ok /\ r.merged = "yes"))

-----------------------------------------------------------------------------
(* What the calls have in common.                                          *)

NatBounds == calls' \in Nat /\ events' \in Nat /\ faults' \in Nat

LEMMA BeginStep ==
    ASSUME TypeOK, NEW op, Begin(op)
    PROVE  /\ call = Idle
           /\ call'.op = op /\ call'.pc = "start"
           /\ call' \in Updating \cup Merging \cup Judging
           /\ result' = NoResult /\ alone' = TRUE
           /\ UNCHANGED <<provider, pr, notes, events, stance>>
           /\ NatBounds
<1>1. PICK r \in Requests : r.op = op /\ call' = [op |-> op, pc |-> "start", arg |-> r]
  BY DEF Begin
<1>2. CASE r \in UpdateCalls
  <2>1. r.op = "update"
    BY <1>2 DEF UpdateCalls
  <2>2. call' \in Updating
    BY <1>1, <1>2, <2>1 DEF Updating
  <2> QED
    BY <1>1, <2>2 DEF Begin, TypeOK, server, Idle, Updating, Merging, Judging, NatBounds
<1>3. CASE r \in MergeCalls
  <2>1. r.op = "merge"
    BY <1>3 DEF MergeCalls
  <2>2. call' \in Merging
    BY <1>1, <1>3, <2>1 DEF Merging
  <2> QED
    BY <1>1, <2>2 DEF Begin, TypeOK, server, Idle, Updating, Merging, Judging, NatBounds
<1>4. CASE r \in VerdictCalls
  <2>1. r.op = "verdict"
    BY <1>4 DEF VerdictCalls
  <2>2. call' \in Judging
    BY <1>1, <1>4, <2>1 DEF Judging
  <2> QED
    BY <1>1, <2>2 DEF Begin, TypeOK, server, Idle, Updating, Merging, Judging, NatBounds
<1> QED
  BY <1>2, <1>3, <1>4, RequestTypes

LEMMA LostStep ==
    ASSUME TypeOK, NEW P, Lost(P)
    PROVE  /\ pr' \in P /\ UNCHANGED <<provider, notes, stance, alone, events>>
           /\ call' = Idle /\ NatBounds
           /\ result'.op = call.op /\ ~result'.ok /\ result'.error = "transport"
BY Raised DEF Lost, history, TypeOK, NatBounds

-----------------------------------------------------------------------------
(* Merging.                                                                *)

MergeStep ==
    /\ call.op \in {"none", "merge"}
    /\ pr' \in Pulls /\ pr'.votes = pr.votes
    /\ pr.st = "merged" => pr'.st = "merged"
    /\ pr'.pending /\ ~pr.pending => pr.head = call.head /\ pr'.merging = call.head
    /\ UNCHANGED <<provider, notes, stance>>
    /\ call' \in {Idle} \cup Merging
    /\ NatBounds
    /\ \/ result' = NoResult /\ alone' = TRUE
       \/ /\ call.op = "merge" /\ alone' = alone
          /\ result' = result \/ (result'.op = "merge" /\ call' = Idle)
          /\ SaysMerged(result') => SaysMerged(result) \/ pr'.st = "merged"

LEMMA MergeBegins ==
    ASSUME TypeOK, Begin("merge") PROVE MergeStep
<1>1. /\ call = Idle /\ call'.op = "merge"
      /\ call' \in Updating \cup Merging \cup Judging
      /\ result' = NoResult /\ alone' = TRUE
      /\ UNCHANGED <<provider, pr, notes, stance>>
      /\ NatBounds
  BY BeginStep
<1>2. call.op = "none" /\ call' \in Merging
  BY <1>1 DEF Idle, Merging, Updating, Judging
<1> QED
  BY <1>1, <1>2 DEF MergeStep, TypeOK

(* A step that leaves the server alone and goes on.                        *)
LEMMA SilentMerge ==
    ASSUME TypeOK, call.op = "merge", Silent, call' \in {Idle} \cup Merging,
           result' = result
    PROVE  MergeStep
BY DEF MergeStep, TypeOK, NatBounds, Silent, server, bounds, history

(* One that leaves it alone and raises.                                    *)
LEMMA SilentRaise ==
    ASSUME TypeOK, call.op = "merge", Silent, NEW e, Raise(e),
           e = AlreadyMerged => pr.st = "merged"
    PROVE  MergeStep
<1>1. UNCHANGED <<provider, pr, notes, stance, alone, calls, events, faults>>
  BY DEF Silent, server, bounds, history
<1>2. call' = Idle /\ result'.op = "merge" /\ ~result'.ok /\ result'.error = e
  BY Raised
<1>3. SaysMerged(result') => pr.st = "merged"
  BY <1>2 DEF SaysMerged
<1> QED
  BY <1>1, <1>2, <1>3 DEF MergeStep, TypeOK, NatBounds

LEMMA LostMerge ==
    ASSUME TypeOK, call.op = "merge", NEW P, Lost(P),
           \A p \in P : /\ p \in Pulls /\ p.votes = pr.votes
                        /\ pr.st = "merged" => p.st = "merged"
                        /\ p.pending /\ ~pr.pending =>
                             pr.head = call.head /\ p.merging = call.head
    PROVE  MergeStep
<1>1. pr' \in P
  BY LostStep
<1> QED
  BY <1>1, LostStep DEF MergeStep, SaysMerged, AlreadyMerged

LEMMA Staying ==
    ASSUME TypeOK
    PROVE  \A p \in {pr} : /\ p \in Pulls /\ p.votes = pr.votes
                           /\ pr.st = "merged" => p.st = "merged"
                           /\ ~(p.pending /\ ~pr.pending)
BY DEF TypeOK

(* Moving on to another stage of the same call.                            *)
LEMMA MergeGoesOn ==
    ASSUME TypeOK, call.op = "merge", call.pc \in {"start", "preflight", "put"},
           NEW pc \in {"preflight", "put", "probe", "refetch", "handshake"}, Goto(pc)
    PROVE  call' \in Merging
<1>1. call \in [op : {"merge"}, arg : MergeCalls,
               pc : {"start", "preflight", "put", "probe", "refetch", "handshake"}]
  BY DEF TypeOK, Idle, Updating, Merging, Judging
<1> QED
  BY <1>1 DEF Goto, Merging

LEMMA MergeStarts ==
    ASSUME TypeOK, MergeStart PROVE MergeStep
<1>1. call.op = "merge" /\ call.pc = "start" /\ Silent
  BY DEF MergeStart, At
<1>2. CASE Raise("method")
  BY <1>1, <1>2, SilentRaise DEF AlreadyMerged
<1>3. CASE /\ UNCHANGED result
           /\ Goto(IF provider = "azure" THEN "handshake"
                   ELSE IF provider = "github" /\ ~call.arg.light
                        THEN "preflight" ELSE "put")
  <2>1. call' \in Merging
    BY <1>1, <1>3, MergeGoesOn
  <2> QED
    BY <1>1, <1>3, <2>1, SilentMerge
<1> QED
  BY <1>2, <1>3 DEF MergeStart

LEMMA PreflightStep ==
    ASSUME TypeOK, Preflight PROVE MergeStep
<1>1. call.op = "merge" /\ call.pc = "preflight"
  BY DEF Preflight, At
<1>2. CASE Lost({pr})
  BY <1>1, <1>2, Staying, LostMerge
<1>3. CASE pr.st = "merged" /\ Raise(AlreadyMerged) /\ Silent
  BY <1>1, <1>3, SilentRaise
<1>4. CASE Goto("put") /\ UNCHANGED result /\ Silent
  BY <1>1, <1>4, MergeGoesOn, SilentMerge
<1> QED
  BY <1>2, <1>3, <1>4 DEF Preflight

LEMMA MergedNowTyped ==
    ASSUME TypeOK
    PROVE  /\ MergedNow \in Pulls /\ MergedNow.votes = pr.votes
           /\ MergedNow.st = "merged" /\ MergedNow.pending = pr.pending
BY DEF TypeOK, Pulls, MergedNow

(* A return with what the pull request was at that moment.                 *)
LEMMA ReturnReported ==
    ASSUME TypeOK, call.op = "merge", NEW p \in Pulls, Return(Reported(p))
    PROVE  /\ call' = Idle /\ result'.op = "merge"
           /\ SaysMerged(result') => p.st = "merged"
<1>1. /\ call' = Idle /\ result'.op = call.op /\ result'.error = "none"
      /\ result'.merged = Reported(p).merged
  BY ReportedMerged, Returned
<1> QED
  BY <1>1, ReportedMerged DEF SaysMerged, AlreadyMerged

LEMMA MergePutStep ==
    ASSUME TypeOK, MergePut PROVE MergeStep
<1>1. call.op = "merge" /\ call.pc = "put"
  BY DEF MergePut, At
<1>2. ASSUME pr' = MergedNow, UNCHANGED <<provider, notes, bounds, history>>,
             \/ Return(Reported(pr'))
             \/ Goto("refetch") /\ UNCHANGED result
      PROVE  MergeStep
  <2>1. pr' \in Pulls /\ pr'.votes = pr.votes /\ pr'.st = "merged" /\ pr'.pending = pr.pending
    BY <1>2, MergedNowTyped
  <2>2. CASE Return(Reported(pr'))
    <3>1. call' = Idle /\ result'.op = "merge"
      BY <1>1, <2>1, <2>2, ReturnReported
    <3> QED
      BY <1>1, <1>2, <2>1, <3>1 DEF MergeStep, TypeOK, NatBounds, bounds, history
  <2>3. CASE Goto("refetch") /\ UNCHANGED result
    <3>1. call' \in Merging
      BY <1>1, <2>3, MergeGoesOn
    <3> QED
      BY <1>1, <1>2, <2>1, <2>3, <3>1 DEF MergeStep, TypeOK, NatBounds, bounds, history
  <2> QED
    BY <1>2, <2>2, <2>3
<1>3. CASE Lost({pr, MergedNow})
  BY <1>1, <1>3, Staying, MergedNowTyped, LostMerge
<1>4. CASE Goto("probe") /\ Quiet
  BY <1>1, <1>4, MergeGoesOn, SilentMerge DEF Quiet
<1>5. CASE Lost({pr})
  BY <1>1, <1>5, Staying, LostMerge
<1> QED
  BY <1>2, <1>3, <1>4, <1>5 DEF MergePut

LEMMA ProbeStep ==
    ASSUME TypeOK, Probe PROVE MergeStep
<1>1. call.op = "merge"
  BY DEF Probe, At
<1>2. CASE /\ Raise(IF pr.st = "merged" THEN AlreadyMerged ELSE "cannot be merged")
           /\ Silent
  BY <1>1, <1>2, SilentRaise DEF AlreadyMerged
<1>3. CASE Lost({pr})
  BY <1>1, <1>3, Staying, LostMerge
<1>4. CASE /\ faults' = faults + 1 /\ Raise("unknown reason")
           /\ UNCHANGED <<provider, server, calls, events, history>>
  <2>1. /\ call' = Idle /\ result'.op = "merge" /\ ~result'.ok
        /\ result'.error = "unknown reason"
    BY <1>1, <1>4, Raised
  <2>2. ~SaysMerged(result')
    BY <2>1 DEF SaysMerged, AlreadyMerged
  <2>3. UNCHANGED <<provider, pr, notes, calls, events, stance, alone>>
    BY <1>4 DEF server, history
  <2>4. faults' \in Nat
    <3>1. faults' = faults + 1
      BY <1>4
    <3>2. faults \in Nat
      BY DEF TypeOK
    <3> QED
      BY <3>1, <3>2
  <2> QED
    BY <1>1, <2>1, <2>2, <2>3, <2>4 DEF MergeStep, TypeOK, NatBounds
<1> QED
  BY <1>2, <1>3, <1>4 DEF Probe

LEMMA SilentReport ==
    ASSUME TypeOK, call.op = "merge", Silent, Return(Reported(pr))
    PROVE  MergeStep
<1>1. pr \in Pulls
  BY DEF TypeOK
<1>2. /\ call' = Idle /\ result'.op = "merge"
      /\ SaysMerged(result') => pr.st = "merged"
  BY <1>1, ReturnReported
<1> QED
  BY <1>2 DEF MergeStep, TypeOK, NatBounds, Silent, server, bounds, history

LEMMA RefetchStep ==
    ASSUME TypeOK, Refetch PROVE MergeStep
<1>1. call.op = "merge"
  BY DEF Refetch, At
<1> QED
  BY <1>1, SilentReport, Staying, LostMerge DEF Refetch

LEMMA HandshakeStep ==
    ASSUME TypeOK, Handshake PROVE MergeStep
<1>1. call.op = "merge" /\ call.pc = "handshake" /\ call.arg \in MergeCalls
  BY DEF Handshake, At, TypeOK, Idle, Updating, Merging, Judging
<1>2. CASE Completed(pr) /\ Raise(AlreadyMerged) /\ Silent
  BY <1>1, <1>2, SilentRaise DEF Completed
<1>3. CASE /\ call' = [op |-> "merge", pc |-> "patch", arg |-> call.arg, head |-> pr.head]
           /\ UNCHANGED result /\ Silent
  <2>1. call' \in Merging
    BY <1>1, <1>3 DEF Merging, TypeOK, Pulls
  <2> QED
    BY <1>1, <1>3, <2>1, SilentMerge
<1>4. CASE Lost({pr})
  BY <1>1, <1>4, Staying, LostMerge
<1> QED
  BY <1>2, <1>3, <1>4 DEF Handshake

LEMMA CompletionStep ==
    ASSUME TypeOK, CompletionPatch PROVE MergeStep
<1>1. /\ call.op = "merge" /\ call.pc = "patch" /\ call.arg \in MergeCalls
      /\ call.head \in Nat
  BY DEF CompletionPatch, At, TypeOK, Idle, Updating, Merging, Judging
<1>2. CASE Raise("refused") /\ Silent
  BY <1>1, <1>2, SilentRaise DEF AlreadyMerged
<1>3. ASSUME Accepts
      PROVE  /\ Accepted \in Pulls /\ Accepted.votes = pr.votes /\ Accepted.st = pr.st
             /\ Accepted.merging = call.head /\ pr.head = call.head
  BY <1>1, <1>3 DEF Accepts, Accepted, SentHead, TypeOK, Pulls
<1>4. CASE Accepts /\ Lost({pr, Accepted})
  BY <1>1, <1>3, <1>4, Staying, LostMerge
<1>5. CASE /\ Accepts /\ pr' = Accepted
           /\ call' = [op |-> "merge", arg |-> call.arg, polls |-> 0,
                       pc |-> IF call.arg.light THEN "status" ELSE "poll"]
           /\ UNCHANGED <<provider, notes, result, bounds, history>>
  <2>1. call' \in Merging
    BY <1>1, <1>5 DEF Merging
  <2> QED
    BY <1>1, <1>3, <1>5, <2>1 DEF MergeStep, TypeOK, NatBounds, bounds, history
<1> QED
  BY <1>2, <1>4, <1>5 DEF CompletionPatch

LEMMA OutcomeStep ==
    ASSUME TypeOK, call.op = "merge", Outcome(pr), Silent PROVE MergeStep
<1>1. ASSUME NEW e, e # AlreadyMerged, Raise(e) PROVE MergeStep
  BY <1>1, SilentRaise
<1>2. CASE pr.ms \in Failed
  BY <1>1, <1>2 DEF Outcome, Failed, AlreadyMerged
<1>3. CASE Return([NoResult EXCEPT !.status = pr.st,
                       !.merged = IF Completed(pr) THEN "yes" ELSE "unknown"])
  <2>0. /\ call' = Idle /\ result'.op = "merge" /\ result'.error = "none"
        /\ result'.merged = IF Completed(pr) THEN "yes" ELSE "unknown"
    BY <1>3, ReturnedFlag
  <2>1. /\ call' = Idle /\ result'.op = "merge"
        /\ SaysMerged(result') => pr.st = "merged"
    BY <2>0 DEF SaysMerged, AlreadyMerged, Completed
  <2> QED
    BY <2>1 DEF MergeStep, TypeOK, NatBounds, Silent, server, bounds, history
<1>4. CASE Raise("in progress")
  BY <1>1, <1>4 DEF AlreadyMerged
<1>5. CASE Return(Reported(pr))
  BY <1>5, SilentReport
<1> QED
  BY <1>2, <1>3, <1>4, <1>5 DEF Outcome

LEMMA PollStep ==
    ASSUME TypeOK, StatusRead \/ SettlePoll PROVE MergeStep
<1>1. call.op = "merge" /\ (SettlePoll => call.pc = "poll")
  BY DEF StatusRead, SettlePoll, At
<1>2. CASE Outcome(pr) /\ Silent
  BY <1>1, <1>2, OutcomeStep
<1>3. CASE SettlePoll /\ call' = [call EXCEPT !.polls = @ + 1] /\ UNCHANGED result /\ Silent
  <2>1. call \in [op : {"merge"}, pc : {"status", "poll"}, arg : MergeCalls, polls : Nat]
    BY <1>1, <1>3 DEF TypeOK, Idle, Updating, Merging, Judging
  <2>2. call' \in Merging
    BY <1>3, <2>1 DEF Merging
  <2> QED
    BY <1>1, <1>3, <2>2, SilentMerge
<1>4. CASE Lost({pr})
  BY <1>1, <1>4, Staying, LostMerge
<1> QED
  BY <1>2, <1>3, <1>4 DEF StatusRead, SettlePoll

LEMMA MergesStep ==
    ASSUME TypeOK, MergeNext PROVE MergeStep
BY MergeBegins, MergeStarts, PreflightStep, MergePutStep, ProbeStep, RefetchStep,
   HandshakeStep, CompletionStep, PollStep DEF MergeNext

-----------------------------------------------------------------------------
(* Everybody else.                                                         *)

OthersStep ==
    /\ UNCHANGED <<provider, call, result>> /\ NatBounds
    /\ pr' \in Pulls
    /\ pr.st = "merged" => pr'.st = "merged"
    /\ pr'.pending => pr.pending
    /\ \/ /\ pr'.votes = pr.votes /\ UNCHANGED <<notes, stance, alone>>
          /\ pr'.pending = pr.pending =>
                /\ pr'.title = pr.title /\ pr'.draft = pr.draft /\ pr'.st = pr.st
                /\ pr'.labels = pr.labels /\ pr'.reviewers = pr.reviewers
       \/ /\ events' # events /\ alone' = FALSE
          /\ (pr'.votes = pr.votes /\ UNCHANGED <<notes, stance>>) \/ Act

(* A change of the pull request that touches no vote and reopens nothing.  *)
LEMMA OtherChange ==
    ASSUME TypeOK, events' = events + 1, alone' = FALSE,
           UNCHANGED <<provider, call, result, calls, faults, notes, stance>>,
           pr' \in Pulls, pr'.votes = pr.votes, pr'.pending = pr.pending,
           pr.st = "merged" => pr'.st = "merged"
    PROVE  OthersStep
BY DEF OthersStep, TypeOK, NatBounds

LEMMA PushStep ==
    ASSUME TypeOK, Push PROVE OthersStep
<1>1. /\ events' = events + 1 /\ alone' = FALSE
      /\ UNCHANGED <<provider, call, result, calls, faults, notes, stance>>
      /\ pr' = [pr EXCEPT !.head = @ + 1]
  BY DEF Push, Other
<1>2. /\ pr' \in Pulls /\ pr'.votes = pr.votes /\ pr'.pending = pr.pending
      /\ pr'.st = pr.st
  BY <1>1 DEF TypeOK, Pulls
<1> QED
  BY <1>1, <1>2, OtherChange

LEMMA ToggleStep ==
    ASSUME TypeOK, Toggle PROVE OthersStep
<1>1. /\ events' = events + 1 /\ alone' = FALSE
      /\ UNCHANGED <<provider, call, result, calls, faults, notes, stance>>
      /\ pr' \in {[pr EXCEPT !.blocked = ~@], [pr EXCEPT !.draft = ~@]}
  BY DEF Toggle, Other
<1>2. /\ pr' \in Pulls /\ pr'.votes = pr.votes /\ pr'.pending = pr.pending
      /\ pr'.st = pr.st
  BY <1>1 DEF TypeOK, Pulls
<1> QED
  BY <1>1, <1>2, OtherChange

LEMMA RenameStep ==
    ASSUME TypeOK, Rename PROVE OthersStep
<1>1. /\ events' = events + 1 /\ alone' = FALSE
      /\ UNCHANGED <<provider, call, result, calls, faults, notes, stance>>
      /\ pr' \in {[pr EXCEPT !.title = "theirs"], [pr EXCEPT !.reviewers = @ \cup Others]}
  BY DEF Rename, Other
<1>2. CASE pr' = [pr EXCEPT !.title = "theirs"]
  <2>1. /\ pr' \in Pulls /\ pr'.votes = pr.votes /\ pr'.pending = pr.pending
        /\ pr'.st = pr.st
    <3>1. "theirs" \in Names /\ pr \in Pulls
      BY PullConstants DEF TypeOK
    <3>2. ASSUME NEW t \in Names, NEW p \in Pulls
          PROVE  LET q == [p EXCEPT !.title = t]
                 IN  q \in Pulls /\ q.votes = p.votes /\ q.pending = p.pending /\ q.st = p.st
      BY DEF Pulls
    <3> QED
      BY <1>2, <3>1, <3>2
  <2> QED
    BY <1>1, <2>1, OtherChange
<1>3. CASE pr' = [pr EXCEPT !.reviewers = @ \cup Others]
  <2>1. pr.reviewers \cup Others \in SUBSET Users
    BY DEF TypeOK, Pulls, Users
  <2>2. /\ pr' \in Pulls /\ pr'.votes = pr.votes /\ pr'.pending = pr.pending
        /\ pr'.st = pr.st
    BY <1>3, <2>1 DEF TypeOK, Pulls
  <2> QED
    BY <1>1, <2>2, OtherChange
<1> QED
  BY <1>1, <1>2, <1>3

LEMMA FinishStep ==
    ASSUME TypeOK, Finish PROVE OthersStep
<1>1. /\ events' = events + 1 /\ alone' = FALSE
      /\ UNCHANGED <<provider, call, result, calls, faults, notes, stance>>
      /\ pr.st = "open"
      /\ \E st \in {"merged", "closed"} :
           pr' = [pr EXCEPT !.st = st, !.merging = pr.head, !.ms = "succeeded"]
  BY DEF Finish, Other
<1>2. /\ pr' \in Pulls /\ pr'.votes = pr.votes /\ pr'.pending = pr.pending
  BY <1>1 DEF TypeOK, Pulls
<1> QED
  BY <1>1, <1>2, OtherChange

LEMMA SettleStep ==
    ASSUME TypeOK, Settle PROVE OthersStep
<1>1. /\ UNCHANGED <<provider, notes, call, result, calls, events, faults, stance, alone>>
      /\ pr.pending
  BY DEF Settle, bounds, history
<1>2. /\ pr' \in Pulls /\ pr'.votes = pr.votes
      /\ pr.st = "merged" => pr'.st = "merged"
      /\ pr'.pending = pr.pending =>
            /\ pr'.title = pr.title /\ pr'.draft = pr.draft /\ pr'.st = pr.st
            /\ pr'.labels = pr.labels /\ pr'.reviewers = pr.reviewers
  BY DEF Settle, TypeOK, Pulls
<1> QED
  BY <1>1, <1>2 DEF OthersStep, TypeOK, NatBounds

(* One review by somebody, with what it leaves on the server.              *)
ReviewBy(u, a) ==
    /\ u \in Users /\ a \in Votes \ {"asked"}
    /\ u = Me => call.op = "none"
    /\ stance' = [stance EXCEPT ![u] = a]
    /\ \/ /\ provider = "github" /\ a \in Acts /\ notes' = Note(u, a) /\ pr' = pr
       \/ /\ provider = "azure" /\ a \in Acts /\ pr' = Vote(u, a) /\ notes' = notes
       \/ /\ provider = "gitlab"
          /\ a = IF pr.votes[u] = "approve" THEN "absent" ELSE "approve"
          /\ pr' = Vote(u, a) /\ notes' = notes
       \/ /\ provider = "gitlab" /\ a = "request_changes" /\ u # Me
          /\ pr' = Vote(u, "absent") /\ notes' = Note(u, a)

LEMMA ActIsReview ==
    ASSUME TypeOK, Act
    PROVE  \E u, a : ReviewBy(u, a)
<1>1. PICK u \in Users, a \in Votes \ {"asked"} :
        /\ u = Me => call.op = "none"
        /\ stance' = [stance EXCEPT ![u] = a]
        /\ CASE provider = "github" ->
                   a \in Acts /\ notes' = Note(u, a) /\ UNCHANGED pr
             [] provider = "azure" ->
                   a \in Acts /\ pr' = Vote(u, a) /\ UNCHANGED notes
             [] provider = "gitlab" ->
                   \/ /\ a = IF pr.votes[u] = "approve" THEN "absent" ELSE "approve"
                      /\ pr' = Vote(u, a) /\ UNCHANGED notes
                   \/ /\ a = "request_changes" /\ u # Me
                      /\ pr' = Vote(u, "absent") /\ notes' = Note(u, a)
  BY DEF Act, Other
<1>2. provider \in {"github", "gitlab", "azure"}
  BY PullConstants DEF TypeOK
<1>3. ReviewBy(u, a)
  BY <1>1, <1>2 DEF ReviewBy
<1> QED
  BY <1>3

LEMMA VoteTyped ==
    ASSUME TypeOK, NEW u \in Users, NEW a \in Votes
    PROVE  /\ Vote(u, a) \in Pulls /\ Vote(u, a).st = pr.st
           /\ Vote(u, a).pending = pr.pending
           /\ Vote(u, a).votes = [pr.votes EXCEPT ![u] = a]
BY DEF TypeOK, Pulls, Vote

LEMMA ActStep ==
    ASSUME TypeOK, Act PROVE OthersStep
<1>1. /\ events' = events + 1 /\ alone' = FALSE
      /\ UNCHANGED <<provider, call, result, calls, faults>>
  BY DEF Act, Other
<1>2. PICK u, a : ReviewBy(u, a)
  BY ActIsReview
<1>3. pr' = pr \/ pr' = Vote(u, a) \/ pr' = Vote(u, "absent")
  BY <1>2 DEF ReviewBy
<1>4. u \in Users /\ a \in Votes /\ "absent" \in Votes
  BY <1>2 DEF ReviewBy, Votes
<1>5. pr' \in Pulls /\ pr'.st = pr.st /\ pr'.pending = pr.pending
  <2>1. CASE pr' = pr
    BY <2>1 DEF TypeOK
  <2>2. CASE pr' = Vote(u, a)
    BY <2>2, <1>4, VoteTyped
  <2>3. CASE pr' = Vote(u, "absent")
    BY <2>3, <1>4, VoteTyped
  <2> QED
    BY <1>3, <2>1, <2>2, <2>3
<1> QED
  BY <1>1, <1>5 DEF OthersStep, TypeOK, NatBounds

LEMMA OthersSteps ==
    ASSUME TypeOK, Environment PROVE OthersStep
BY PushStep, ToggleStep, RenameStep, FinishStep, ActStep, SettleStep DEF Environment

-----------------------------------------------------------------------------
(* Updating.                                                               *)

(* The fields an update may touch, as UpdateIsLocal has them.              *)
Local(p) ==
    /\ Arg.title # Keep \/ "title" \in Exposed \/ p.title = pr.title
    /\ Arg.draft # Keep \/ "draft" \in Exposed \/ p.draft = pr.draft
    /\ Arg.status # Keep \/ p.st = pr.st
    /\ "labels" \in Exposed \/ pr.labels \ p.labels \subseteq Arg.unlabel
    /\ "reviewers" \in Exposed \/ pr.reviewers \ p.reviewers \subseteq Arg.leave
    /\ \A u \in Users \ (Arg.join \cup Arg.leave) : p.votes[u] = pr.votes[u]

(* Only Azure DevOps loses votes, of reviewers it adds or removes.         *)
Unvoted(p) == \A u \in Users : \/ p.votes[u] = pr.votes[u]
                               \/ provider = "azure" /\ p.votes[u] \in {"asked", "absent"}

Change(p) ==
    /\ p \in Pulls /\ p.pending = pr.pending
    /\ pr.st = "merged" => p.st = "merged"
    /\ Unvoted(p) /\ Local(p)

LEMMA AskedTyped ==
    ASSUME NEW S, NEW old \in S, NEW value \in SUBSET S
    PROVE  Asked(old, value) \in S /\ (value = Keep => Asked(old, value) = old)
BY DEF Asked, Keep

LEMMA AskedState ==
    ASSUME NEW old \in {"open", "closed", "merged"},
           NEW value \in SUBSET {"open", "closed", "merged"}
    PROVE  /\ Asked(old, value) \in {"open", "closed", "merged"}
           /\ value = Keep => Asked(old, value) = old
<1> DEFINE S == {"open", "closed", "merged"}
<1>1. old \in S /\ value \in SUBSET S
  OBVIOUS
<1> HIDE DEF S
<1>2. Asked(old, value) \in S /\ (value = Keep => Asked(old, value) = old)
  BY <1>1, AskedTyped
<1> QED
  BY <1>2 DEF S

LEMMA UpdateCallTyped ==
    ASSUME TypeOK, call.op = "update"
    PROVE  /\ Arg \in UpdateCalls /\ pr \in Pulls
           /\ call.pc = "start" \/ Snap \in Pulls
           /\ call.pc = "write" =>
                call \in [op : {"update"}, pc : {"write"}, arg : UpdateCalls, snap : Pulls,
                          stamp : SUBSET {"mod"}, todo : Seq(Writes),
                          resp : {"none", "pull", "reviewer", "nothing"}]
<1>1. call \in Updating
  BY DEF TypeOK, Idle, Merging, Judging
<1> QED
  BY <1>1 DEF TypeOK, Updating, Arg, Snap

LEMMA NoChangeIsLocal ==
    ASSUME TypeOK PROVE Change(pr)
BY DEF TypeOK, Change, Local, Unvoted

LEMMA PatchIsLocal ==
    ASSUME TypeOK, call.op = "update", ~Refused("patch")
    PROVE  Change(Patch(pr))
<1>1. /\ pr.title \in Names /\ pr.st \in {"open", "closed", "merged"} /\ pr.draft \in BOOLEAN
      /\ Arg.title \in SUBSET Names /\ Arg.status \in SUBSET {"open", "closed", "merged"}
      /\ Arg.draft \in SUBSET BOOLEAN /\ pr \in Pulls
  BY UpdateCallTyped DEF UpdateCalls, Pulls
<1> DEFINE t == Asked(pr.title, Arg.title)
           s == Asked(pr.st, Arg.status)
           d == IF provider = "azure" THEN Asked(pr.draft, Arg.draft) ELSE pr.draft
<1>2. /\ t \in Names /\ s \in {"open", "closed", "merged"} /\ d \in BOOLEAN
      /\ Arg.title = Keep => t = pr.title
      /\ Arg.status = Keep => s = pr.st
      /\ Arg.draft = Keep => d = pr.draft
  <2>1. t \in Names /\ (Arg.title = Keep => t = pr.title)
    BY <1>1, AskedTyped
  <2>2. s \in {"open", "closed", "merged"} /\ (Arg.status = Keep => s = pr.st)
    BY <1>1, AskedState
  <2>3. d \in BOOLEAN /\ (Arg.draft = Keep => d = pr.draft)
    <3>1. /\ Asked(pr.draft, Arg.draft) \in BOOLEAN
          /\ Arg.draft = Keep => Asked(pr.draft, Arg.draft) = pr.draft
      BY <1>1, AskedTyped
    <3> QED
      BY <1>1, <3>1
  <2> QED
    BY <2>1, <2>2, <2>3
<1>3. Patch(pr) = [pr EXCEPT !.title = t, !.st = s, !.draft = d]
  BY DEF Patch
<1>4. pr.st = "merged" => s = pr.st
  BY <1>2 DEF Refused
<1> HIDE DEF t, s, d
<1> DEFINE q == [pr EXCEPT !.title = t, !.st = s, !.draft = d]
<1>5. /\ q \in Pulls /\ q.pending = pr.pending /\ q.votes = pr.votes
      /\ q.title = t /\ q.st = s /\ q.draft = d
      /\ q.labels = pr.labels /\ q.reviewers = pr.reviewers
  BY <1>1, <1>2 DEF Pulls
<1> HIDE DEF q
<1>6. Change(q)
  BY <1>2, <1>4, <1>5 DEF Change, Local, Unvoted
<1> QED
  BY <1>3, <1>6 DEF q

LEMMA PutIsLocal ==
    ASSUME TypeOK, call.op = "update", call.pc = "write", provider = "gitlab", ~Refused("put")
    PROVE  Change(Put(pr))
<1>1. /\ pr.title \in Names /\ pr.st \in {"open", "closed", "merged"} /\ pr.draft \in BOOLEAN
      /\ Arg.title \in SUBSET Names /\ Arg.status \in SUBSET {"open", "closed", "merged"}
      /\ Arg.draft \in SUBSET BOOLEAN /\ pr \in Pulls /\ Snap \in Pulls
      /\ Snap.title \in Names /\ Snap.reviewers \in SUBSET Users
      /\ Arg.labels \in SUBSET Names /\ Arg.join \in SUBSET Users
      /\ pr.labels \in SUBSET Names /\ pr.reviewers \in SUBSET Users
  BY UpdateCallTyped DEF UpdateCalls, Pulls
<1> DEFINE t == IF Arg.draft = Keep THEN Asked(pr.title, Arg.title)
                                  ELSE Asked(Snap.title, Arg.title)
           d == Asked(IF Arg.title = Keep THEN pr.draft ELSE FALSE, Arg.draft)
           s == Asked(pr.st, Arg.status)
           l == (pr.labels \cup Arg.labels \cup Stamp) \ Arg.unlabel
           r == IF Arg.join \cup Arg.leave = {} THEN pr.reviewers
                ELSE (Snap.reviewers \cup Arg.join) \ Arg.leave
<1>2. /\ t \in Names /\ d \in BOOLEAN /\ s \in {"open", "closed", "merged"}
      /\ Arg.status = Keep => s = pr.st
  <2>1. Asked(pr.title, Arg.title) \in Names /\ Asked(Snap.title, Arg.title) \in Names
    BY <1>1, AskedTyped
  <2>2. s \in {"open", "closed", "merged"} /\ (Arg.status = Keep => s = pr.st)
    BY <1>1, AskedState
  <2>3. d \in BOOLEAN
    <3>1. (IF Arg.title = Keep THEN pr.draft ELSE FALSE) \in BOOLEAN
      BY <1>1
    <3> QED
      BY <1>1, <3>1, AskedTyped
  <2> QED
    BY <2>1, <2>2, <2>3
<1>3. /\ l \in SUBSET Names /\ r \in SUBSET Users
      /\ pr.labels \ l \subseteq Arg.unlabel
  BY <1>1, PullConstants DEF Stamp
<1>4. Put(pr) = [pr EXCEPT !.title = t, !.draft = d, !.st = s, !.labels = l,
                           !.reviewers = r]
  BY DEF Put
<1>5. pr.st = "merged" => s = pr.st
  BY <1>2 DEF Refused
<1> HIDE DEF t, d, s, l, r
<1> DEFINE q == [pr EXCEPT !.title = t, !.draft = d, !.st = s, !.labels = l,
                           !.reviewers = r]
<1>6. /\ q \in Pulls /\ q.pending = pr.pending /\ q.votes = pr.votes
      /\ q.st = s /\ q.labels = l
  BY <1>1, <1>2, <1>3 DEF Pulls
<1>7. {"title", "draft", "reviewers"} \subseteq Exposed
  BY DEF Exposed
<1> HIDE DEF q
<1>8. Change(q)
  BY <1>2, <1>3, <1>5, <1>6, <1>7 DEF Change, Local, Unvoted
<1> QED
  BY <1>4, <1>8 DEF q

(* New labels, which only GitHub may set as a whole.                       *)
LEMMA LabelsLocal ==
    ASSUME TypeOK, NEW l \in SUBSET Names,
           "labels" \in Exposed \/ pr.labels \ l \subseteq Arg.unlabel
    PROVE  Change([pr EXCEPT !.labels = l])
<1> DEFINE q == [pr EXCEPT !.labels = l]
<1>1. /\ q \in Pulls /\ q.pending = pr.pending /\ q.votes = pr.votes
      /\ q.title = pr.title /\ q.st = pr.st /\ q.draft = pr.draft
      /\ q.labels = l /\ q.reviewers = pr.reviewers
  BY DEF TypeOK, Pulls
<1> HIDE DEF q
<1>2. Change(q)
  BY <1>1 DEF Change, Local, Unvoted
<1> QED
  BY <1>2 DEF q

LEMMA ReviewersLocal ==
    ASSUME TypeOK, NEW r \in SUBSET Users, pr.reviewers \ r \subseteq Arg.leave
    PROVE  Change([pr EXCEPT !.reviewers = r])
<1> DEFINE q == [pr EXCEPT !.reviewers = r]
<1>1. /\ q \in Pulls /\ q.pending = pr.pending /\ q.votes = pr.votes
      /\ q.title = pr.title /\ q.st = pr.st /\ q.draft = pr.draft
      /\ q.labels = pr.labels /\ q.reviewers = r
  BY DEF TypeOK, Pulls
<1> HIDE DEF q
<1>2. Change(q)
  BY <1>1 DEF Change, Local, Unvoted
<1> QED
  BY <1>2 DEF q

(* The votes of an Azure DevOps pull request, taken back from some.        *)
LEMMA VotesLocal ==
    ASSUME TypeOK, provider = "azure", NEW A \in SUBSET (Arg.join \cup Arg.leave),
           NEW v \in {"asked", "absent"}
    PROVE  Change([pr EXCEPT !.votes = [u \in Users |-> IF u \in A THEN v
                                                                  ELSE pr.votes[u]]])
<1> DEFINE vs == [u \in Users |-> IF u \in A THEN v ELSE pr.votes[u]]
<1>1. vs \in [Users -> Votes]
  <2>1. v \in Votes /\ \A u \in Users : pr.votes[u] \in Votes
    BY DEF TypeOK, Pulls, Votes
  <2> QED
    BY <2>1
<1>2. /\ \A u \in Users : vs[u] = pr.votes[u] \/ vs[u] \in {"asked", "absent"}
      /\ \A u \in Users \ (Arg.join \cup Arg.leave) : vs[u] = pr.votes[u]
  OBVIOUS
<1> HIDE DEF vs
<1> DEFINE q == [pr EXCEPT !.votes = vs]
<1>3. /\ q \in Pulls /\ q.pending = pr.pending /\ q.votes = vs
      /\ q.title = pr.title /\ q.st = pr.st /\ q.draft = pr.draft
      /\ q.labels = pr.labels /\ q.reviewers = pr.reviewers
  BY <1>1 DEF TypeOK, Pulls
<1> HIDE DEF q
<1>4. Change(q)
  BY <1>2, <1>3 DEF Change, Local, Unvoted
<1> QED
  BY <1>4 DEF q, vs

LEMMA DraftLocal ==
    ASSUME TypeOK, call.op = "update"
    PROVE  Change([pr EXCEPT !.draft = Asked(@, Arg.draft)])
<1>1. pr.draft \in BOOLEAN /\ Arg.draft \in SUBSET BOOLEAN
  BY UpdateCallTyped DEF UpdateCalls, Pulls
<1> DEFINE d == Asked(pr.draft, Arg.draft)
           q == [pr EXCEPT !.draft = d]
<1>2. d \in BOOLEAN /\ (Arg.draft = Keep => d = pr.draft)
  BY <1>1, AskedTyped
<1> HIDE DEF d
<1>3. /\ q \in Pulls /\ q.pending = pr.pending /\ q.votes = pr.votes
      /\ q.title = pr.title /\ q.st = pr.st /\ q.draft = d
      /\ q.labels = pr.labels /\ q.reviewers = pr.reviewers
  BY <1>2 DEF TypeOK, Pulls
<1> HIDE DEF q
<1>4. Change(q)
  BY <1>2, <1>3 DEF Change, Local, Unvoted
<1> QED
  BY <1>4 DEF q, d

LEMMA EffectIsLocal ==
    ASSUME TypeOK, call.op = "update", call.pc = "write", NEW w \in Writes, ~Refused(w)
    PROVE  Change(Effect(w))
<1>1. /\ Arg.labels \in SUBSET Names /\ Arg.unlabel \in SUBSET Names
      /\ Arg.join \in SUBSET Users /\ Arg.leave \in SUBSET Users
      /\ pr.labels \in SUBSET Names /\ pr.reviewers \in SUBSET Users
      /\ Snap.labels \in SUBSET Names /\ call.stamp \in SUBSET Names
  BY UpdateCallTyped, PullConstants DEF UpdateCalls, Pulls
<1>2. CASE w = "patch"
  BY <1>2, PatchIsLocal DEF Effect
<1>3. CASE w = "put"
  <2>1. provider = "gitlab"
    BY <1>3, PullConstants DEF Writes, TypeOK
  <2> QED
    BY <1>3, <2>1, PutIsLocal DEF Effect
<1>4. CASE w = "labels"
  <2> DEFINE l == IF provider = "github" THEN Labelled(Snap.labels, call.stamp)
                                         ELSE pr.labels \cup Arg.labels
  <2>1. l \in SUBSET Names
    BY <1>1 DEF Labelled
  <2>2. "labels" \in Exposed \/ pr.labels \ l \subseteq Arg.unlabel
    BY DEF Exposed
  <2>3. Effect(w) = [pr EXCEPT !.labels = l]
    BY <1>4 DEF Effect
  <2> QED
    BY <2>1, <2>2, <2>3, LabelsLocal
<1>5. CASE w = "unlabel"
  BY <1>1, <1>5, LabelsLocal DEF Effect
<1>6. CASE w = "stamp"
  BY <1>1, <1>6, PullConstants, LabelsLocal DEF Effect
<1>7. CASE w = "draft"
  BY <1>7, DraftLocal DEF Effect
<1>8. CASE w = "reload"
  BY <1>8, NoChangeIsLocal DEF Effect
<1>9. CASE w \in {"join", "leave"}
  <2>1. CASE provider = "github"
    BY <1>1, <1>9, <2>1, ReviewersLocal DEF Effect, Join, Leave
  <2>2. CASE provider = "azure"
    BY <1>9, <2>2, VotesLocal DEF Effect, Join, Leave
  <2> QED
    BY <1>9, <2>1, <2>2, PullConstants DEF Writes, TypeOK
<1> QED
  BY <1>2, <1>3, <1>4, <1>5, <1>6, <1>7, <1>8, <1>9, PullConstants DEF Writes, TypeOK

(* The plans are made of the provider's requests.                          *)
LEMMA Joined ==
    ASSUME NEW S, NEW s \in Seq(S), NEW t \in Seq(S)
    PROVE  s \o t \in Seq(S)
OBVIOUS

LEMMA Optional ==
    ASSUME NEW S, NEW w \in S, NEW c
    PROVE  (IF c THEN <<>> ELSE <<w>>) \in Seq(S) /\ (IF c THEN <<w>> ELSE <<>>) \in Seq(S)
OBVIOUS

LEMMA GitHubPlanTyped ==
    ASSUME TypeOK, provider = "github", NEW stamp PROVE GitHubPlan(stamp) \in Seq(Writes)
<1> DEFINE W == {"patch", "labels", "join", "leave", "draft", "reload"}
           R == IF Arg.light THEN <<>> ELSE <<"reload">>
           P == IF Patches(Arg) THEN <<"patch">> ELSE <<>>
           L == IF Labelled(Snap.labels, stamp) = Snap.labels THEN <<>> ELSE <<"labels">>
           J == IF Arg.join \cup Arg.leave = {} THEN <<>> ELSE <<"join", "leave">> \o R
           D == IF Arg.draft = Keep THEN <<>> ELSE <<"draft">> \o R
<1>1. Writes = W
  BY DEF Writes
<1>2. {"patch", "labels", "join", "leave", "draft", "reload"} \subseteq W
  OBVIOUS
<1>3. GitHubPlan(stamp) = ((P \o L) \o J) \o D
  BY DEF GitHubPlan
<1> HIDE DEF W
<1>4. R \in Seq(W) /\ P \in Seq(W) /\ L \in Seq(W)
  BY <1>2
<1> HIDE DEF R, P, L
<1>5. <<"join", "leave">> \in Seq(W) /\ <<"draft">> \in Seq(W) /\ <<>> \in Seq(W)
  BY <1>2
<1>6. J \in Seq(W) /\ D \in Seq(W)
  BY <1>4, <1>5, Joined
<1> HIDE DEF J, D
<1> QED
  BY <1>1, <1>3, <1>4, <1>6, Joined

LEMMA GitLabPlanTyped ==
    ASSUME TypeOK, provider = "gitlab" PROVE GitLabPlan \in Seq(Writes)
<1>1. "put" \in Writes
  BY DEF Writes
<1>2. GitLabPlan = <<"put">> \/ GitLabPlan = <<>>
  BY DEF GitLabPlan
<1>3. <<"put">> \in Seq(Writes) /\ <<>> \in Seq(Writes)
  BY <1>1
<1> QED
  BY <1>2, <1>3

LEMMA AzurePlanTyped ==
    ASSUME TypeOK, provider = "azure" PROVE AzurePlan \in Seq(Writes)
<1> DEFINE W == {"patch", "stamp", "labels", "unlabel", "join", "leave", "reload"}
           P == IF Patches(Arg) THEN <<"patch">> ELSE <<>>
           S == IF Stamp \ (Arg.labels \cup Arg.unlabel) = {} THEN <<>> ELSE <<"stamp">>
           L == IF Arg.labels = {} THEN <<>> ELSE <<"labels">>
           U == IF Arg.unlabel = {} THEN <<>> ELSE <<"unlabel">>
           J == IF Arg.join = {} THEN <<>> ELSE <<"join">>
           V == IF Arg.leave = {} THEN <<>> ELSE <<"leave">>
           R == IF Arg.light THEN <<>> ELSE <<"reload">>
<1>1. Writes = W
  BY DEF Writes
<1>2. {"patch", "stamp", "labels", "unlabel", "join", "leave", "reload"} \subseteq W
  OBVIOUS
<1>3. AzurePlan = (((((P \o S) \o L) \o U) \o J) \o V) \o R
  BY DEF AzurePlan
<1> HIDE DEF W
<1>4. /\ P \in Seq(W) /\ S \in Seq(W) /\ L \in Seq(W) /\ U \in Seq(W)
      /\ J \in Seq(W) /\ V \in Seq(W) /\ R \in Seq(W)
  BY <1>2
<1> HIDE DEF P, S, L, U, J, V, R
<1>5. /\ P \o S \in Seq(W) /\ (P \o S) \o L \in Seq(W)
      /\ ((P \o S) \o L) \o U \in Seq(W)
  BY <1>4, Joined
<1> DEFINE F == ((P \o S) \o L) \o U
<1> HIDE DEF F
<1>6. F \in Seq(W) /\ (F \o J) \o V \in Seq(W) /\ ((F \o J) \o V) \o R \in Seq(W)
  BY <1>4, <1>5, Joined DEF F
<1> QED
  BY <1>1, <1>3, <1>6 DEF F

UpdateStep ==
    /\ call.op \in {"none", "update"}
    /\ pr' \in Pulls /\ pr'.pending = pr.pending /\ Unvoted(pr')
    /\ pr.st = "merged" => pr'.st = "merged"
    /\ call.op = "update" => Local(pr')
    /\ UNCHANGED <<provider, notes>>
    /\ (stance' = stance /\ pr'.votes = pr.votes) \/ TakesBack
    /\ call' \in {Idle} \cup Updating
    /\ NatBounds
    /\ \/ result' = NoResult /\ alone' = TRUE
       \/ /\ call.op = "update" /\ alone' = alone
          /\ result' = result \/ (result'.op = "update" /\ call' = Idle)

LEMMA UpdateBegins ==
    ASSUME TypeOK, Begin("update") PROVE UpdateStep
<1>1. /\ call = Idle /\ call'.op = "update"
      /\ call' \in Updating \cup Merging \cup Judging
      /\ result' = NoResult /\ alone' = TRUE
      /\ UNCHANGED <<provider, pr, notes, stance>>
      /\ NatBounds
  BY BeginStep
<1>2. call.op = "none" /\ call' \in Updating
  BY <1>1 DEF Idle, Merging, Updating, Judging
<1> QED
  BY <1>1, <1>2 DEF UpdateStep, TypeOK, Unvoted

(* A step that writes nothing: it goes on, or it ends the call.            *)
LEMMA QuietUpdate ==
    ASSUME TypeOK, call.op = "update", UNCHANGED <<provider, pr, notes, stance, alone>>,
           NatBounds, call' \in {Idle} \cup Updating,
           result' = result \/ (result'.op = "update" /\ call' = Idle)
    PROVE  UpdateStep
<1>1. pr' = pr /\ Change(pr)
  BY NoChangeIsLocal
<1>2. pr' \in Pulls /\ pr'.pending = pr.pending /\ Unvoted(pr') /\ Local(pr')
  BY <1>1 DEF Change
<1> QED
  BY <1>1, <1>2 DEF UpdateStep

LEMMA LostUpdate ==
    ASSUME TypeOK, call.op = "update", Lost({pr}) PROVE UpdateStep
<1>1. /\ pr' \in {pr} /\ UNCHANGED <<provider, notes, stance, alone>>
      /\ call' = Idle /\ NatBounds /\ result'.op = call.op
  BY LostStep
<1> QED
  BY <1>1, QuietUpdate

LEMMA SilentBounds ==
    ASSUME TypeOK, UNCHANGED <<provider, server, bounds, history>>
    PROVE  UNCHANGED <<provider, pr, notes, stance, alone, calls, events, faults>> /\ NatBounds
BY DEF TypeOK, server, bounds, history, NatBounds

LEMMA UpdateReads ==
    ASSUME TypeOK, UpdateRead PROVE UpdateStep
<1>1. call.op = "update"
  BY DEF UpdateRead, At
<1>2. CASE Lost({pr})
  BY <1>1, <1>2, LostUpdate
<1>3. CASE /\ call' = [op |-> "update", pc |-> "plan", arg |-> Arg, snap |-> pr]
           /\ UNCHANGED <<provider, server, result, bounds, history>>
  <2>1. call' \in Updating
    BY <1>1, <1>3, UpdateCallTyped DEF Updating
  <2>2. UNCHANGED <<provider, pr, notes, stance, alone>> /\ NatBounds
    BY <1>3, SilentBounds
  <2> QED
    BY <1>1, <1>3, <2>1, <2>2, QuietUpdate
<1> QED
  BY <1>2, <1>3 DEF UpdateRead

LEMMA UpdatePlans ==
    ASSUME TypeOK, UpdatePlan PROVE UpdateStep
<1>1. call.op = "update" /\ call.pc = "plan"
  BY DEF UpdatePlan, At
<1>2. UNCHANGED <<provider, pr, notes, stance, alone>> /\ NatBounds
  BY SilentBounds DEF UpdatePlan
<1>3. CASE Raise("unknown label")
  BY <1>1, <1>2, <1>3, Raised, QuietUpdate
<1>4. ASSUME NEW stamp \in {{}, Stamp},
             call' = [op |-> "update", pc |-> "write", arg |-> Arg,
                      snap |-> Snap, stamp |-> stamp, resp |-> "none",
                      todo |-> CASE provider = "github" -> GitHubPlan(stamp)
                                 [] provider = "gitlab" -> GitLabPlan
                                 [] provider = "azure"  -> AzurePlan],
             UNCHANGED result
      PROVE  UpdateStep
  <2> DEFINE todo == CASE provider = "github" -> GitHubPlan(stamp)
                       [] provider = "gitlab" -> GitLabPlan
                       [] provider = "azure"  -> AzurePlan
  <2>1. todo \in Seq(Writes)
    <3>1. CASE provider = "github"
      BY <3>1, GitHubPlanTyped
    <3>2. CASE provider = "gitlab"
      BY <3>2, GitLabPlanTyped
    <3>3. CASE provider = "azure"
      BY <3>3, AzurePlanTyped
    <3> QED
      BY <3>1, <3>2, <3>3, PullConstants DEF TypeOK
  <2>2. stamp \in SUBSET {"mod"}
    BY DEF Stamp
  <2>3. Arg \in UpdateCalls /\ Snap \in Pulls
    BY <1>1, UpdateCallTyped
  <2>4. call' = [op |-> "update", pc |-> "write", arg |-> Arg, snap |-> Snap,
                 stamp |-> stamp, resp |-> "none", todo |-> todo]
    BY <1>4
  <2> HIDE DEF todo
  <2>5. call' \in Updating
    BY <2>1, <2>2, <2>3, <2>4 DEF Updating
  <2> QED
    BY <1>1, <1>2, <1>4, <2>5, QuietUpdate
<1> QED
  BY <1>3, <1>4 DEF UpdatePlan

LEMMA WrittenTyped ==
    ASSUME TypeOK, call.op = "update", call.pc = "write", call.todo # <<>>,
           NEW w, NEW p \in Pulls, Written(w, p)
    PROVE  call' \in Updating
<1>1. call \in [op : {"update"}, pc : {"write"}, arg : UpdateCalls, snap : Pulls,
                stamp : SUBSET {"mod"}, todo : Seq(Writes),
                resp : {"none", "pull", "reviewer", "nothing"}]
  BY UpdateCallTyped
<1>2. Tail(call.todo) \in Seq(Writes)
  BY <1>1
<1>3. Known(w, p) \in Pulls
  <2>1. Snap \in Pulls /\ p.labels \in SUBSET Names
    BY <1>1 DEF Snap, Pulls
  <2>2. [Snap EXCEPT !.labels = p.labels] \in Pulls
    BY <2>1 DEF Pulls
  <2> QED
    BY <2>1, <2>2 DEF Known
<1>4. Kind(w) \in {"none", "pull", "reviewer", "nothing"}
  BY <1>1 DEF Kind
<1>5. call' = [call EXCEPT !.todo = Tail(call.todo), !.snap = Known(w, p), !.resp = Kind(w)]
  BY DEF Written
<1> QED
  BY <1>1, <1>2, <1>3, <1>4, <1>5 DEF Updating

LEMMA UpdateWrites ==
    ASSUME TypeOK, UpdateWrite PROVE UpdateStep
<1>1. call.op = "update" /\ call.pc = "write" /\ call.todo # <<>> /\ pr \in Pulls
  BY UpdateCallTyped DEF UpdateWrite, At
<1> DEFINE w == Head(call.todo)
<1>2. w \in Writes
  <2>1. call.todo \in Seq(Writes)
    BY <1>1, UpdateCallTyped
  <2> QED
    BY <1>1, <2>1
<1> HIDE DEF w
<1>3. CASE Raise("refused") /\ UNCHANGED <<provider, server, bounds, history>>
  BY <1>1, <1>3, Raised, SilentBounds, QuietUpdate
<1>4. CASE /\ Written(w, pr) /\ UNCHANGED result
           /\ UNCHANGED <<provider, server, bounds, history>>
  BY <1>1, <1>4, WrittenTyped, SilentBounds, QuietUpdate
<1>5. ASSUME ~Refused(w), pr' = Effect(w)
      PROVE  /\ pr' \in Pulls /\ pr'.pending = pr.pending /\ Unvoted(pr')
             /\ pr.st = "merged" => pr'.st = "merged"
             /\ Local(pr')
  BY <1>1, <1>2, <1>5, EffectIsLocal DEF Change
<1>6. CASE /\ ~Refused(w) /\ pr' = Effect(w) /\ Written(w, pr') /\ TakesBack
           /\ UNCHANGED <<provider, notes, result, bounds, alone>>
  <2>1. call' \in Updating
    BY <1>1, <1>5, <1>6, WrittenTyped
  <2>2. NatBounds
    BY <1>6 DEF NatBounds, TypeOK, bounds
  <2> QED
    BY <1>1, <1>5, <1>6, <2>1, <2>2 DEF UpdateStep
<1>7. CASE /\ ~Refused(w)
           /\ faults' = faults + 1
           /\ \/ UNCHANGED <<pr, stance>>
              \/ pr' = Effect(w) /\ TakesBack
           /\ Raise("transport")
           /\ UNCHANGED <<provider, notes, calls, events, alone>>
  <2>1. call' = Idle /\ result'.op = "update"
    BY <1>1, <1>7, Raised
  <2>2. NatBounds
    BY <1>7 DEF NatBounds, TypeOK
  <2>3. CASE UNCHANGED <<pr, stance>>
    BY <1>1, <1>7, <2>1, <2>2, <2>3, QuietUpdate
  <2>4. CASE pr' = Effect(w) /\ TakesBack
    BY <1>1, <1>5, <1>7, <2>1, <2>2, <2>4 DEF UpdateStep
  <2> QED
    BY <1>7, <2>3, <2>4
<1> QED
  BY <1>3, <1>4, <1>6, <1>7 DEF UpdateWrite, w

LEMMA UpdateEnds ==
    ASSUME TypeOK, UpdateEnd PROVE UpdateStep
<1>1. call.op = "update" /\ call.pc = "write"
  BY DEF UpdateEnd, At
<1>2. UNCHANGED <<provider, pr, notes, stance, alone>> /\ NatBounds
  BY SilentBounds DEF UpdateEnd
<1>3. call' = Idle /\ result'.op = "update"
  BY <1>1 DEF UpdateEnd, Raise, Return, End, NoResult, Reported
<1> QED
  BY <1>1, <1>2, <1>3, QuietUpdate

LEMMA UpdatesStep ==
    ASSUME TypeOK, UpdateNext PROVE UpdateStep
BY UpdateBegins, UpdateReads, UpdatePlans, UpdateWrites, UpdateEnds DEF UpdateNext

-----------------------------------------------------------------------------
(* What people said, and what the server has of it.                        *)

(* On GitHub the newest review of a person is the last act.                *)
SaidOnGitHub(u) ==
    /\ pr.votes[u] = "absent"
    /\ stance[u] = IF Latest(u) = NoBody THEN "absent" ELSE notes[Latest(u)].state

(* On Azure DevOps it is the vote.                                         *)
SaidOnAzure(u) == stance[u] = IF pr.votes[u] \in Acts THEN pr.votes[u] ELSE "absent"

(* On GitLab an approval is, and so is a marked note of one who does not   *)
(* approve, but an approve note may outlive the approval it came with.     *)
SaidOnGitLab(u) ==
    /\ pr.votes[u] \in {"absent", "approve"}
    /\ pr.votes[u] = "approve" => stance[u] = "approve"
    /\ stance[u] = "request_changes" => Marked(u) = "request_changes"

Said == \A u \in Users : /\ provider = "github" => SaidOnGitHub(u)
                         /\ provider = "azure"  => SaidOnAzure(u)
                         /\ provider = "gitlab" => SaidOnGitLab(u)

(* A new note is its author's newest, and nobody else's.                   *)
LEMMA NoteAdds ==
    ASSUME notes \in Notes, NEW u \in Users, NEW a \in Acts, notes' = Note(u, a)
    PROVE  /\ Latest(u)' = Len(notes) + 1
           /\ DOMAIN notes' = 1..(Len(notes) + 1) /\ Len(notes) \in Nat
           /\ notes'[Len(notes) + 1] = [by |-> u, state |-> a]
           /\ \A v \in Users \ {u} : By(v)' = By(v) /\ Latest(v)' = Latest(v)
           /\ \A v \in Users : \A i \in By(v) : notes'[i] = notes[i]
<1> DEFINE n == Len(notes) + 1
<1>1. /\ DOMAIN notes = 1..Len(notes) /\ Len(notes) \in Nat
      /\ DOMAIN notes' = 1..n
      /\ notes'[n] = [by |-> u, state |-> a]
      /\ \A i \in 1..Len(notes) : notes'[i] = notes[i]
  BY NoteAppended DEF Note
<1>2. n \in Nat /\ n \notin 1..Len(notes) /\ 1..n = (1..Len(notes)) \cup {n}
  BY <1>1
<1> HIDE DEF n
<1>3. \A v \in Users \ {u} : By(v)' = By(v)
  BY <1>1, <1>2 DEF By
<1>4. /\ By(u)' \in SUBSET (1..n) /\ n \in By(u)' /\ \A j \in By(u)' : j <= n
  BY <1>1, <1>2 DEF By, n
<1>5. Latest(u)' = n
  <2>1. Newest(By(u)') = n
    BY <1>2, <1>4, NewestIs
  <2> QED
    BY <2>1 DEF Latest
<1>6. \A v \in Users \ {u} : Latest(v)' = Latest(v)
  BY <1>3 DEF Latest
<1> QED
  BY <1>1, <1>3, <1>5, <1>6 DEF By, n

LEMMA LatestIs ==
    ASSUME notes \in Notes, NEW u \in Users
    PROVE  /\ Latest(u) = NoBody <=> By(u) = {}
           /\ Latest(u) # NoBody => Latest(u) \in By(u)
<1>1. By(u) \in SUBSET (1..Len(notes)) /\ Len(notes) \in Nat
  BY DEF By, Notes
<1>2. ASSUME By(u) # {} PROVE Latest(u) \in By(u) /\ Latest(u) # NoBody
  <2>1. Newest(By(u)) \in By(u)
    BY <1>1, <1>2, NewestIsLast
  <2> QED
    BY <1>1, <2>1 DEF Latest, NoBody
<1>3. ASSUME By(u) = {} PROVE Latest(u) = NoBody
  BY <1>3 DEF Latest, Newest
<1> QED
  BY <1>2, <1>3

(* A marked stance is its author's last, a comment is none.                *)
LEMMA NoteMarks ==
    ASSUME notes \in Notes, NEW u \in Users, NEW a \in Acts, notes' = Note(u, a)
    PROVE  /\ \A v \in Users \ {u} : Marked(v)' = Marked(v)
           /\ a = "comment" => Marked(u)' = Marked(u)
           /\ a # "comment" => Marked(u)' = a
<1> DEFINE n == Len(notes) + 1
<1>1. /\ DOMAIN notes = 1..Len(notes) /\ Len(notes) \in Nat
      /\ DOMAIN notes' = 1..n
      /\ notes'[n] = [by |-> u, state |-> a]
      /\ \A i \in 1..Len(notes) : notes'[i] = notes[i]
  BY NoteAppended DEF Note
<1>2. n \in Nat /\ n \notin 1..Len(notes) /\ 1..n = (1..Len(notes)) \cup {n}
  BY <1>1
<1>3. \A v \in Users : Stances(v) \in SUBSET (1..Len(notes))
  BY <1>1 DEF Stances, MarkedNotes
<1> HIDE DEF n
<1>4. ASSUME NEW v \in Users, v # u \/ a = "comment" PROVE Marked(v)' = Marked(v)
  <2>1. Stances(v)' = Stances(v)
    BY <1>1, <1>2, <1>4 DEF Stances, MarkedNotes
  <2>2. CASE Stances(v) = {}
    BY <2>1, <2>2 DEF Marked
  <2>3. CASE Stances(v) # {}
    <3>1. Newest(Stances(v)) \in 1..Len(notes)
      BY <1>1, <1>3, <2>3, NewestIsLast
    <3>2. notes'[Newest(Stances(v))] = notes[Newest(Stances(v))]
      BY <1>1, <3>1
    <3>3. Marked(v)' = notes'[Newest(Stances(v)')].state
      BY <2>1, <2>3 DEF Marked
    <3> QED
      BY <2>1, <2>3, <3>2, <3>3 DEF Marked
  <2> QED
    BY <2>2, <2>3
<1>5. ASSUME a # "comment" PROVE Marked(u)' = a
  <2>1. /\ Stances(u)' \in SUBSET (1..n) /\ n \in Stances(u)'
        /\ \A j \in Stances(u)' : j <= n
    BY <1>1, <1>2, <1>5 DEF Stances, MarkedNotes, Acts, n
  <2>2. Newest(Stances(u)') = n
    BY <1>2, <2>1, NewestIs
  <2> QED
    BY <1>1, <2>1, <2>2 DEF Marked
<1> QED
  BY <1>4, <1>5

(* The decision follows from what people said last.                        *)
LEMMA DecisionIsSaid ==
    ASSUME TypeOK, Said
    PROVE  RequestedChangesShow /\ ApprovalsAreCurrent
<1>1. provider \in {"github", "gitlab", "azure"}
  BY PullConstants DEF TypeOK
<1>2. CASE provider = "github"
  <2>1. ASSUME NEW u \in Users, stance[u] = "request_changes"
        PROVE  "request_changes" \in GitHubStates
    BY <1>2, <2>1 DEF Said, SaidOnGitHub, GitHubStates
  <2>2. ASSUME "approve" \in GitHubStates
        PROVE  \E u \in Users : stance[u] = "approve"
    BY <1>2, <2>2 DEF Said, SaidOnGitHub, GitHubStates
  <2>3. \A gate : Decision(gate) = ReviewDecision(GitHubStates)
    BY <1>2 DEF Decision, GitHubDecision
  <2> QED
    BY <2>1, <2>2, <2>3 DEF RequestedChangesShow, ApprovalsAreCurrent, ReviewDecision
<1>3. CASE provider = "azure"
  <2> DEFINE S == {VoteState(u) : u \in Reviewers}
  <2>1. ASSUME NEW u \in Users, stance[u] = "request_changes"
        PROVE  "request_changes" \in S
    <3>1. pr.votes[u] = "request_changes"
      BY <1>3, <2>1 DEF Said, SaidOnAzure
    <3>2. VoteState(u) = "request_changes"
      BY <3>1 DEF VoteState
    <3> QED
      BY <3>1, <3>2 DEF Reviewers
  <2>2. ASSUME "approve" \in S
        PROVE  \E u \in Users : stance[u] = "approve"
    <3>1. PICK u \in Reviewers : VoteState(u) = "approve"
      BY <2>2
    <3>2. u \in Users /\ pr.votes[u] = "approve"
      BY <3>1 DEF Reviewers, VoteState
    <3>3. stance[u] = "approve"
      BY <1>3, <3>2 DEF Said, SaidOnAzure, Acts
    <3> QED
      BY <3>2, <3>3
  <2>3. \A gate : Decision(gate) = ReviewDecision(S)
    BY <1>3 DEF Decision, AzureDecision
  <2> HIDE DEF S
  <2> QED
    BY <2>1, <2>2, <2>3 DEF RequestedChangesShow, ApprovalsAreCurrent, ReviewDecision
<1>4. CASE provider = "gitlab"
  <2>1. ASSUME NEW u \in Users, stance[u] = "request_changes"
        PROVE  u \in Users \ Approvers /\ Marked(u) = "request_changes"
    BY <1>4, <2>1 DEF Said, SaidOnGitLab, Approvers
  <2>2. ASSUME Approvers # {}
        PROVE  \E u \in Users : stance[u] = "approve"
    BY <1>4, <2>2 DEF Said, SaidOnGitLab, Approvers
  <2>3. \A gate : Decision(gate) = GitLabDecision(gate)
    BY <1>4 DEF Decision
  <2>4. RequestedChangesShow
    BY <1>4, <2>1, <2>3 DEF RequestedChangesShow, GitLabDecision, Blind
  <2>5. ASSUME NEW gate \in Gates, Decision(gate) = "APPROVED"
        PROVE  Approvers # {}
    BY <2>3, <2>5 DEF GitLabDecision, GateDecision, Gates
  <2> QED
    BY <2>2, <2>4, <2>5 DEF ApprovalsAreCurrent
<1> QED
  BY <1>1, <1>2, <1>3, <1>4

(* Reading the same server gives the same.                                 *)
LEMMA SameServer ==
    ASSUME provider' = provider, notes' = notes, pr'.votes = pr.votes
    PROVE  /\ \A gate : Reviews(gate)' = Reviews(gate)
           /\ Gates' = Gates
           /\ \A u \in Users : Latest(u)' = Latest(u) /\ Marked(u)' = Marked(u)
BY DEF Reviews, GitLabReviews, AzureReviews, Approvers, Reviewers, VoteState, NewestThread,
       Gates, Latest, By, Marked, Stances, MarkedNotes

LEMMA StanceKept ==
    ASSUME Said, provider' = provider, notes' = notes, pr'.votes = pr.votes, stance' = stance
    PROVE  Said'
BY SameServer DEF Said, SaidOnGitHub, SaidOnAzure, SaidOnGitLab

(* Adding and removing reviewers.                                          *)
LEMMA UpdateKeepsSaid ==
    ASSUME TypeOK, Said, UpdateStep PROVE Said' /\ stance' \in [Users -> Votes]
<1>1. provider' = provider /\ notes' = notes /\ stance \in [Users -> Votes] /\ Unvoted(pr')
  BY DEF UpdateStep, TypeOK
<1>2. CASE stance' = stance /\ pr'.votes = pr.votes
  BY <1>1, <1>2, StanceKept
<1>3. CASE TakesBack
  <2>1. stance' \in [Users -> Votes]
    BY <1>1, <1>3 DEF TakesBack, Votes
  <2>2. \A u \in Users : Latest(u)' = Latest(u) /\ Marked(u)' = Marked(u)
    BY <1>1 DEF Latest, By, Marked, Stances, MarkedNotes
  <2>3. ASSUME NEW u \in Users, provider = "github" PROVE SaidOnGitHub(u)'
    <3>1. pr'.votes[u] = "absent" /\ pr.votes[u] = "absent"
      BY <1>1, <2>3 DEF Unvoted, Said, SaidOnGitHub
    <3>2. stance'[u] = stance[u]
      BY <1>3, <3>1 DEF TakesBack
    <3> QED
      BY <1>1, <2>2, <2>3, <3>1, <3>2 DEF Said, SaidOnGitHub
  <2>4. ASSUME NEW u \in Users, provider = "azure" PROVE SaidOnAzure(u)'
    <3>1. stance[u] = IF pr.votes[u] \in Acts THEN pr.votes[u] ELSE "absent"
      BY <2>4 DEF Said, SaidOnAzure
    <3>2. stance'[u] = IF pr.votes[u] # "absent" /\ pr'.votes[u] \in {"asked", "absent"}
                       THEN "absent" ELSE stance[u]
      BY <1>3 DEF TakesBack
    <3>3. pr'.votes[u] = pr.votes[u] \/ pr'.votes[u] \in {"asked", "absent"}
      BY <1>1 DEF Unvoted
    <3>4. pr.votes[u] \in Votes
      BY DEF TypeOK, Pulls
    <3> QED
      BY <3>1, <3>2, <3>3, <3>4 DEF SaidOnAzure, Acts, Votes
  <2>5. ASSUME NEW u \in Users, provider = "gitlab" PROVE SaidOnGitLab(u)'
    <3>1. pr'.votes[u] = pr.votes[u] /\ pr.votes[u] \in {"absent", "approve"}
      BY <1>1, <2>5 DEF Unvoted, Said, SaidOnGitLab
    <3>2. stance'[u] = stance[u]
      BY <1>3, <3>1 DEF TakesBack
    <3> QED
      BY <2>2, <2>5, <3>1, <3>2 DEF Said, SaidOnGitLab
  <2> QED
    BY <1>1, <2>1, <2>3, <2>4, <2>5 DEF Said
<1> QED
  BY <1>1, <1>2, <1>3 DEF UpdateStep

(* A review by somebody else, or by this account between two calls.        *)
LEMMA ReviewKeepsSaid ==
    ASSUME TypeOK, Said, NEW u, NEW a, ReviewBy(u, a), provider' = provider
    PROVE  /\ Said' /\ stance' \in [Users -> Votes] /\ notes' \in Notes
           /\ \A v \in Users \ {u} : pr'.votes[v] = pr.votes[v]
<1>1. /\ u \in Users /\ a \in Votes \ {"asked"} /\ stance' = [stance EXCEPT ![u] = a]
      /\ stance \in [Users -> Votes] /\ notes \in Notes /\ pr.votes \in [Users -> Votes]
  BY DEF ReviewBy, TypeOK, Pulls
<1>2. stance'[u] = a /\ \A v \in Users \ {u} : stance'[v] = stance[v]
  BY <1>1
<1>3. stance' \in [Users -> Votes]
  BY <1>1
<1>4. CASE provider = "github"
  <2>1. a \in Acts /\ notes' = Note(u, a) /\ pr' = pr
    BY <1>4 DEF ReviewBy
  <2>2. notes' \in Notes
    BY <1>1, <2>1, NoteAppended DEF Note
  <2>3. SaidOnGitHub(u)'
    <3>1. /\ Latest(u)' = Len(notes) + 1 /\ Len(notes) \in Nat
          /\ notes'[Len(notes) + 1] = [by |-> u, state |-> a]
      BY <1>1, <2>1, NoteAdds
    <3>2. Len(notes) + 1 # NoBody
      BY <3>1 DEF NoBody
    <3> QED
      BY <1>1, <1>2, <1>4, <2>1, <3>1, <3>2 DEF Said, SaidOnGitHub
  <2>4. ASSUME NEW v \in Users \ {u} PROVE SaidOnGitHub(v)'
    <3>1. Latest(v)' = Latest(v)
      BY <1>1, <2>1, NoteAdds
    <3>2. Latest(v) # NoBody => notes'[Latest(v)] = notes[Latest(v)]
      BY <1>1, <2>1, NoteAdds, LatestIs
    <3> QED
      BY <1>2, <1>4, <2>1, <3>1, <3>2 DEF Said, SaidOnGitHub
  <2> QED
    BY <1>3, <1>4, <2>1, <2>2, <2>3, <2>4 DEF Said
<1>5. CASE provider = "azure"
  <2>1. a \in Acts /\ pr' = Vote(u, a) /\ notes' = notes
    BY <1>5 DEF ReviewBy
  <2>2. pr'.votes = [pr.votes EXCEPT ![u] = a]
    BY <1>1, <2>1, VoteTyped
  <2>3. pr'.votes[u] = a /\ \A v \in Users \ {u} : pr'.votes[v] = pr.votes[v]
    BY <1>1, <2>2
  <2>4. \A v \in Users : SaidOnAzure(v)'
    BY <1>2, <1>5, <2>1, <2>3 DEF Said, SaidOnAzure
  <2> QED
    BY <1>1, <1>3, <1>5, <2>1, <2>3, <2>4 DEF Said
<1>6. CASE provider = "gitlab" /\ pr' = Vote(u, a) /\ notes' = notes
           /\ a = IF pr.votes[u] = "approve" THEN "absent" ELSE "approve"
  <2>1. pr'.votes = [pr.votes EXCEPT ![u] = a]
    BY <1>1, <1>6, VoteTyped
  <2>2. pr'.votes[u] = a /\ \A v \in Users \ {u} : pr'.votes[v] = pr.votes[v]
    BY <1>1, <2>1
  <2>3. \A v \in Users : Marked(v)' = Marked(v)
    BY <1>6 DEF Marked, Stances, MarkedNotes
  <2>4. SaidOnGitLab(u)'
    BY <1>2, <1>6, <2>2 DEF SaidOnGitLab
  <2>5. \A v \in Users \ {u} : SaidOnGitLab(v)'
    BY <1>2, <1>6, <2>2, <2>3 DEF Said, SaidOnGitLab
  <2> QED
    BY <1>1, <1>3, <1>6, <2>2, <2>4, <2>5 DEF Said
<1>7. CASE provider = "gitlab" /\ a = "request_changes" /\ pr' = Vote(u, "absent")
           /\ notes' = Note(u, a)
  <2>1. pr'.votes = [pr.votes EXCEPT ![u] = "absent"]
    BY <1>1, <1>7, VoteTyped DEF Votes
  <2>2. pr'.votes[u] = "absent" /\ \A v \in Users \ {u} : pr'.votes[v] = pr.votes[v]
    BY <1>1, <2>1
  <2>3. a \in Acts
    BY <1>7 DEF Acts
  <2>4. notes' \in Notes
    BY <1>1, <1>7, <2>3, NoteAppended DEF Note
  <2>5. Marked(u)' = "request_changes" /\ \A v \in Users \ {u} : Marked(v)' = Marked(v)
    BY <1>1, <1>7, <2>3, NoteMarks
  <2>6. \A v \in Users : SaidOnGitLab(v)'
    BY <1>2, <1>7, <2>2, <2>5 DEF Said, SaidOnGitLab
  <2> QED
    BY <1>3, <1>7, <2>2, <2>4, <2>6 DEF Said
<1> QED
  BY <1>4, <1>5, <1>6, <1>7 DEF ReviewBy

-----------------------------------------------------------------------------
(* Reviewing.                                                              *)

(* While a call is in flight nothing is returned yet.                      *)
InFlight == call.op # "none" => result = NoResult

(* What a review call on its way has done so far.  No update can take the  *)
(* vote back meanwhile: this library makes one call at a time.             *)
OnItsWay ==
    call.op = "verdict" =>
        /\ provider \in {"gitlab", "azure"}
        /\ provider = "gitlab" =>
              /\ call.pc = "vote" => State # "comment"
              /\ call.pc # "start" /\ State # "approve" => HasBody
              /\ call.pc = "note" /\ State = "request_changes" => pr.votes[Me] # "approve"
        /\ call.pc = "whoami" =>
              /\ provider = "gitlab" /\ State = "approve" /\ ~HasBody
              /\ pr.votes[Me] = "approve"
        /\ provider = "azure" /\ call.pc = "note" => pr.votes[Me] = State

VerdictStep ==
    /\ call.op \in {"none", "verdict"}
    /\ pr' \in Pulls /\ notes' \in Notes
    /\ pr'.st = pr.st /\ pr'.pending = pr.pending
    /\ provider' = provider
    /\ call' \in {Idle} \cup Judging
    /\ NatBounds
    /\ Said' /\ stance' \in [Users -> Votes]
    /\ OnItsWay'
    /\ \/ result' = NoResult /\ alone' = TRUE
       \/ /\ call.op = "verdict" /\ alone' = alone
          /\ \/ result' = result
             \/ result'.op = "verdict" /\ call' = Idle /\ ReadsBackWithBody'

LEMMA VerdictTyped ==
    ASSUME TypeOK, call.op = "verdict"
    PROVE  /\ call \in Judging /\ call.arg \in VerdictCalls
           /\ State \in Acts /\ HasBody \in BOOLEAN
           /\ Me \in Users
<1>1. call \in Judging
  BY DEF TypeOK, Idle, Updating, Merging
<1> QED
  BY <1>1 DEF Judging, VerdictCalls, State, HasBody, Users

LEMMA GoesOn ==
    ASSUME TypeOK, call.op = "verdict", NEW pc \in {"vote", "note", "whoami"}, Goto(pc)
    PROVE  /\ call' \in Judging /\ call'.op = "verdict" /\ call'.pc = pc
           /\ State' = State /\ HasBody' = HasBody
<1>1. call \in Judging
  BY VerdictTyped
<1> QED
  BY <1>1 DEF Goto, Judging, State, HasBody

(* A step that changes no review.                                          *)
LEMMA QuietVerdict ==
    ASSUME TypeOK, Said, call.op = "verdict",
           UNCHANGED <<provider, notes, stance, alone, pr>>, NatBounds,
           call' \in {Idle} \cup Judging, OnItsWay',
           \/ result' = result
           \/ result'.op = "verdict" /\ call' = Idle /\ ReadsBackWithBody'
    PROVE  VerdictStep
BY StanceKept DEF VerdictStep, TypeOK

(* One that raises.                                                        *)
LEMMA Refusing ==
    ASSUME call.op = "verdict", NEW e, Raise(e)
    PROVE  /\ call' = Idle /\ result'.op = "verdict" /\ ReadsBackWithBody' /\ OnItsWay'
<1>1. call' = Idle /\ result'.op = "verdict" /\ ~result'.ok
  BY Raised
<1> QED
  BY <1>1 DEF ReadsBackWithBody, OnItsWay, Idle

LEMMA LostVerdict ==
    ASSUME TypeOK, Said, call.op = "verdict", Lost({pr}) PROVE VerdictStep
<1>1. pr' \in {pr} /\ UNCHANGED <<provider, notes, stance, alone>> /\ NatBounds
  BY LostStep
<1>2. Raise("transport")
  BY DEF Lost
<1> QED
  BY <1>1, <1>2, Refusing, QuietVerdict

LEMMA VerdictBegins ==
    ASSUME TypeOK, Said, provider # "github", Begin("verdict") PROVE VerdictStep
<1>1. /\ call = Idle /\ call'.op = "verdict" /\ call'.pc = "start"
      /\ call' \in Updating \cup Merging \cup Judging
      /\ result' = NoResult /\ alone' = TRUE
      /\ UNCHANGED <<provider, pr, notes, stance>>
      /\ NatBounds
  BY BeginStep
<1>2. call.op = "none" /\ call' \in Judging
  BY <1>1 DEF Idle, Merging, Updating, Judging
<1>3. OnItsWay'
  BY <1>1, PullConstants DEF OnItsWay, TypeOK
<1>4. Said'
  BY <1>1, StanceKept
<1> QED
  BY <1>1, <1>2, <1>3, <1>4 DEF VerdictStep, TypeOK

LEMMA VerdictStarts ==
    ASSUME TypeOK, Said, OnItsWay, VerdictStart PROVE VerdictStep
<1>1. call.op = "verdict" /\ call.pc = "start" /\ provider \in {"gitlab", "azure"}
  BY DEF VerdictStart, At, OnItsWay
<1>2. CASE Lost({pr})
  BY <1>1, <1>2, LostVerdict
<1>3. CASE Raise("body") /\ UNCHANGED <<provider, server, bounds, history>>
  BY <1>1, <1>3, Refusing, SilentBounds, QuietVerdict
<1>4. CASE /\ ~(provider = "gitlab" /\ State # "approve" /\ ~HasBody)
           /\ UNCHANGED result
           /\ Goto(IF provider = "gitlab" /\ State = "comment" THEN "note" ELSE "vote")
           /\ UNCHANGED <<provider, server, bounds, history>>
  <2> DEFINE pc == IF provider = "gitlab" /\ State = "comment" THEN "note" ELSE "vote"
  <2>1. /\ call' \in Judging /\ call'.op = "verdict" /\ call'.pc = pc
        /\ State' = State /\ HasBody' = HasBody
    BY <1>1, <1>4, GoesOn
  <2>2. UNCHANGED <<provider, pr, notes, stance, alone>> /\ NatBounds
    BY <1>4, SilentBounds
  <2>3. OnItsWay'
    BY <1>1, <1>4, <2>1, <2>2 DEF OnItsWay
  <2> QED
    BY <1>1, <1>4, <2>1, <2>2, <2>3, QuietVerdict
<1> QED
  BY <1>2, <1>3, <1>4 DEF VerdictStart

(* The vote is the stance.                                                 *)
LEMMA VotedKeepsSaid ==
    ASSUME TypeOK, Said, OnItsWay, call.op = "verdict", call.pc = "vote",
           pr' = Voted, Judged(NewVote), notes' = notes, provider' = provider
    PROVE  /\ pr' \in Pulls /\ pr'.st = pr.st /\ pr'.pending = pr.pending
           /\ pr'.votes[Me] = NewVote
           /\ Said' /\ stance' \in [Users -> Votes]
<1>1. /\ Me \in Users /\ State \in Acts /\ NewVote \in Votes
      /\ provider \in {"gitlab", "azure"}
      /\ provider = "gitlab" => NewVote \in {"absent", "approve"}
      /\ provider = "azure" => NewVote = State
  BY VerdictTyped DEF NewVote, Acts, Votes, OnItsWay
<1>2. pr' = Vote(Me, NewVote)
  BY DEF Voted, Vote
<1>3. /\ pr' \in Pulls /\ pr'.st = pr.st /\ pr'.pending = pr.pending
      /\ pr'.votes = [pr.votes EXCEPT ![Me] = NewVote]
  BY <1>1, <1>2, VoteTyped
<1>4. /\ pr'.votes[Me] = NewVote
      /\ \A v \in Users \ {Me} : pr'.votes[v] = pr.votes[v]
  BY <1>1, <1>3 DEF TypeOK, Pulls
<1>5. /\ stance' \in [Users -> Votes] /\ stance'[Me] = NewVote
      /\ \A v \in Users \ {Me} : stance'[v] = stance[v]
  BY <1>1 DEF Judged, TypeOK
<1>6. \A v \in Users : Marked(v)' = Marked(v)
  BY DEF Marked, Stances, MarkedNotes
<1>7. CASE provider = "azure"
  BY <1>1, <1>4, <1>5, <1>7, <1>3 DEF Said, SaidOnAzure
<1>8. CASE provider = "gitlab"
  <2>1. SaidOnGitLab(Me)'
    BY <1>1, <1>4, <1>5, <1>8 DEF SaidOnGitLab
  <2>2. \A v \in Users \ {Me} : SaidOnGitLab(v)'
    BY <1>4, <1>5, <1>6, <1>8 DEF Said, SaidOnGitLab
  <2> QED
    BY <1>3, <1>4, <1>5, <1>8, <2>1, <2>2 DEF Said
<1> QED
  BY <1>1, <1>7, <1>8

LEMMA VoteIsCast ==
    ASSUME TypeOK, Said, OnItsWay, CastVote PROVE VerdictStep
<1>1. /\ call.op = "verdict" /\ call.pc = "vote" /\ provider \in {"gitlab", "azure"}
      /\ State \in Acts
  BY VerdictTyped DEF CastVote, At, OnItsWay
<1>2. CASE Raise("completed") /\ UNCHANGED <<provider, server, bounds, history>>
  BY <1>1, <1>2, Refusing, SilentBounds, QuietVerdict
<1>3. ASSUME pr' = Voted, Judged(NewVote), UNCHANGED <<provider, notes, alone>>,
             NatBounds, call' \in {Idle} \cup Judging, OnItsWay',
             \/ result' = result
             \/ result'.op = "verdict" /\ call' = Idle /\ ReadsBackWithBody'
      PROVE  VerdictStep
  BY <1>1, <1>3, VotedKeepsSaid DEF VerdictStep, TypeOK
<1>4. ASSUME pr' = Voted, Judged(NewVote), UNCHANGED <<provider, notes, bounds, alone>>,
             \/ HasBody /\ Goto("note") /\ UNCHANGED result
             \/ ~HasBody /\ provider = "gitlab" /\ Goto("whoami") /\ UNCHANGED result
      PROVE  VerdictStep
  <2>1. PICK pc \in {"note", "whoami"} :
          /\ Goto(pc) /\ UNCHANGED result
          /\ pc = "note" => HasBody
          /\ pc = "whoami" => ~HasBody /\ provider = "gitlab"
    BY <1>4
  <2>2. /\ call' \in Judging /\ call'.op = "verdict" /\ call'.pc = pc
        /\ State' = State /\ HasBody' = HasBody
    BY <1>1, <2>1, GoesOn
  <2>3. pr'.votes[Me] = NewVote
    BY <1>1, <1>4, VotedKeepsSaid
  <2>4. OnItsWay'
    BY <1>1, <1>4, <2>1, <2>2, <2>3 DEF OnItsWay, NewVote, Acts
  <2>5. NatBounds
    BY <1>4 DEF NatBounds, bounds, TypeOK
  <2> QED
    BY <1>3, <1>4, <2>1, <2>2, <2>4, <2>5
<1>5. ASSUME pr' = Voted, Judged(NewVote), UNCHANGED <<provider, notes, bounds, alone>>,
             ~HasBody, provider # "gitlab",
             Return([NoResult EXCEPT !.review =
                       Review(ReviewId(Me, State, NoBody), State, Me, NoBody)])
      PROVE  VerdictStep
  <2>1. call' = Idle /\ result'.op = "verdict" /\ result'.arg = call.arg
    BY <1>1, <1>5 DEF Return, End, NoResult
  <2>2. provider' = "azure" /\ ~result'.arg.body
    BY <1>1, <1>5, <2>1 DEF HasBody
  <2>3. ReadsBackWithBody' /\ OnItsWay'
    BY <2>1, <2>2 DEF ReadsBackWithBody, OnItsWay, Idle
  <2>4. NatBounds
    BY <1>5 DEF NatBounds, bounds, TypeOK
  <2> QED
    BY <1>3, <1>5, <2>1, <2>3, <2>4
<1>6. CASE /\ faults' = faults + 1
           /\ UNCHANGED <<pr, stance>> \/ (pr' = Voted /\ Judged(NewVote))
           /\ Raise("transport")
           /\ UNCHANGED <<provider, notes, calls, events, alone>>
  <2>1. call' = Idle /\ result'.op = "verdict" /\ ReadsBackWithBody' /\ OnItsWay'
    BY <1>1, <1>6, Refusing
  <2>2. NatBounds
    BY <1>6 DEF NatBounds, TypeOK
  <2>3. CASE UNCHANGED <<pr, stance>>
    BY <1>1, <1>6, <2>1, <2>2, <2>3, QuietVerdict
  <2>4. CASE pr' = Voted /\ Judged(NewVote)
    BY <1>3, <1>6, <2>1, <2>2, <2>4
  <2> QED
    BY <1>6, <2>3, <2>4
<1> QED
  BY <1>2, <1>4, <1>5, <1>6 DEF CastVote

LEMMA ReviewReturned ==
    ASSUME NEW r, Return([NoResult EXCEPT !.review = r])
    PROVE  /\ call' = Idle /\ result'.op = call.op /\ result'.review = r
           /\ OnItsWay'
<1>1. call' = Idle /\ result'.op = call.op /\ result'.review = r
  BY DEF Return, End, NoResult
<1> QED
  BY <1>1 DEF OnItsWay, Idle

(* An approval is in the list under its account's id.                      *)
LEMMA WhoAmIAnswers ==
    ASSUME TypeOK, Said, OnItsWay, WhoAmI PROVE VerdictStep
<1>1. /\ call.op = "verdict" /\ provider = "gitlab" /\ pr.votes[Me] = "approve"
      /\ Me \in Users
  BY VerdictTyped DEF WhoAmI, At, OnItsWay
<1>2. CASE Lost({pr})
  BY <1>1, <1>2, LostVerdict
<1>3. CASE /\ Return([NoResult EXCEPT !.review = Review(UserId(Me), "approve", Me, NoBody)])
           /\ UNCHANGED <<provider, server, bounds, history>>
  <2> DEFINE r == Review(UserId(Me), "approve", Me, NoBody)
  <2>1. UNCHANGED <<provider, pr, notes, stance, alone>> /\ NatBounds
    BY <1>3, SilentBounds
  <2>2. \A gate : r \in Reviews(gate) \/ gate = "unreadable"
    BY <1>1 DEF Reviews, GitLabReviews, Approvers
  <2> HIDE DEF r
  <2>3. call' = Idle /\ result'.op = "verdict" /\ result'.review = r /\ OnItsWay'
    BY <1>1, <1>3, ReviewReturned DEF r
  <2>4. /\ provider' = "gitlab"
        /\ \A gate : Reviews(gate)' = Reviews(gate)
    BY <1>1, <2>1, SameServer
  <2>5. ~call.arg.body /\ result'.arg = call.arg
    <3>1. ~call.arg.body
      BY <1>1 DEF OnItsWay, HasBody, WhoAmI, At
    <3>2. result' = [[[NoResult EXCEPT !.review = r] EXCEPT !.ok = TRUE]
                        EXCEPT !.op = call.op, !.arg = call.arg]
      BY <1>3 DEF Return, End, r
    <3> QED
      BY <3>1, <3>2 DEF NoResult
  <2>6. ReadsBackWithBody'
    BY <2>2, <2>3, <2>4, <2>5 DEF ReadsBackWithBody, Blind
  <2> QED
    BY <1>1, <2>1, <2>3, <2>6, QuietVerdict
<1> QED
  BY <1>2, <1>3 DEF WhoAmI

(* The note that goes with a stance taken before.                          *)
LEMMA PostedKeepsSaid ==
    ASSUME TypeOK, Said, OnItsWay, call.op = "verdict", call.pc = "note",
           notes' = Posted, IF State = "comment" THEN UNCHANGED stance ELSE Judged(State),
           pr' = pr, provider' = provider
    PROVE  Said' /\ stance' \in [Users -> Votes] /\ notes' \in Notes
<1>1. /\ Me \in Users /\ State \in Acts /\ provider \in {"gitlab", "azure"}
      /\ notes' = Note(Me, State) /\ notes \in Notes
  BY VerdictTyped DEF OnItsWay, Posted, Note, TypeOK
<1>2. /\ stance' \in [Users -> Votes]
      /\ State # "comment" => stance'[Me] = State
      /\ State = "comment" => stance'[Me] = stance[Me]
      /\ \A v \in Users \ {Me} : stance'[v] = stance[v]
  BY <1>1 DEF Judged, TypeOK, Votes
<1>3. notes' \in Notes
  BY <1>1, NoteAppended DEF Note
<1>4. CASE provider = "azure"
  <2>1. pr.votes[Me] = State
    BY <1>4 DEF OnItsWay
  <2>2. \A v \in Users : SaidOnAzure(v)'
    BY <1>1, <1>2, <1>4, <2>1 DEF Said, SaidOnAzure
  <2> QED
    BY <1>2, <1>3, <1>4, <2>2 DEF Said
<1>5. CASE provider = "gitlab"
  <2>1. /\ \A v \in Users \ {Me} : Marked(v)' = Marked(v)
        /\ State = "comment" => Marked(Me)' = Marked(Me)
        /\ State # "comment" => Marked(Me)' = State
    BY <1>1, NoteMarks
  <2>2. State = "request_changes" => pr.votes[Me] # "approve"
    BY <1>5 DEF OnItsWay
  <2>3. SaidOnGitLab(Me)
    BY <1>1, <1>5 DEF Said
  <2>4. SaidOnGitLab(Me)'
    BY <1>1, <1>2, <2>1, <2>2, <2>3 DEF SaidOnGitLab, Acts
  <2>5. \A v \in Users \ {Me} : SaidOnGitLab(v)'
    BY <1>2, <1>5, <2>1 DEF Said, SaidOnGitLab
  <2> QED
    BY <1>2, <1>3, <1>5, <2>4, <2>5 DEF Said
<1> QED
  BY <1>1, <1>4, <1>5

(* The note is in the list; so is the vote, with the note as its body.     *)
LEMMA PostedReadsBack ==
    ASSUME TypeOK, OnItsWay, call.op = "verdict", call.pc = "note",
           notes' = Posted, pr' = pr, provider' = provider, Return(Given(Len(Posted)))
    PROVE  call' = Idle /\ result'.op = "verdict" /\ ReadsBackWithBody' /\ OnItsWay'
<1>1. /\ Me \in Users /\ State \in Acts /\ provider \in {"gitlab", "azure"}
      /\ notes' = Note(Me, State) /\ notes \in Notes
  BY VerdictTyped DEF OnItsWay, Posted, Note, TypeOK
<1> DEFINE k == Len(notes) + 1
           r == IF provider = "gitlab" THEN Review(NoteId(k), State, Me, k)
                ELSE Review(ReviewId(Me, State, k), State, Me, k)
<1>2. Len(Posted) = k
  BY <1>1, NoteAppended DEF Posted
<1>3. /\ Latest(Me)' = k /\ DOMAIN notes' = 1..k /\ Len(notes) \in Nat
      /\ notes'[k] = [by |-> Me, state |-> State]
  BY <1>1, NoteAdds
<1>4. k \in 1..k /\ k # NoBody
  BY <1>3 DEF NoBody
<1> HIDE DEF k
<1>5. ASSUME NEW gate
      PROVE  r \in Reviews(gate)'
  <2>1. CASE provider = "gitlab"
    <3>1. Reviews(gate)' = GitLabReviews(gate)'
      BY <2>1 DEF Reviews
    <3>2. r = Review(NoteId(k), notes'[k].state, notes'[k].by, k)
      BY <1>3, <2>1
    <3>3. k \in MarkedNotes'
      BY <1>3, <1>4 DEF MarkedNotes
    <3>4. r \in {Review(NoteId(i), notes'[i].state, notes'[i].by, i) : i \in MarkedNotes'}
      BY <3>2, <3>3
    <3> QED
      BY <3>1, <3>4 DEF GitLabReviews, Review, NoteId
  <2>2. CASE provider = "azure"
    <3>1. pr'.votes[Me] = State
      BY <2>2 DEF OnItsWay
    <3>2. NewestThread(Me)' = k
      BY <1>3 DEF NewestThread
    <3>3. VoteState(Me)' = State
      BY <1>1, <1>4, <3>1, <3>2 DEF VoteState, Acts
    <3>4. Me \in Reviewers'
      BY <1>1, <3>1, <3>3 DEF Reviewers, Acts
    <3>5. r = Review(ReviewId(Me, pr'.votes[Me], NewestThread(Me)'), VoteState(Me)', Me,
                     NewestThread(Me)')
      BY <2>2, <3>1, <3>2, <3>3
    <3>6. r \in AzureReviews'
      BY <3>4, <3>5 DEF AzureReviews, Review, ReviewId
    <3> QED
      BY <2>2, <3>6 DEF Reviews
  <2> QED
    BY <1>1, <2>1, <2>2
<1>6. Return([NoResult EXCEPT !.review = r])
  BY <1>2 DEF Given
<1> HIDE DEF r
<1>7. call' = Idle /\ result'.op = "verdict" /\ result'.review = r /\ OnItsWay'
  BY <1>6, ReviewReturned
<1> QED
  BY <1>5, <1>7 DEF ReadsBackWithBody

LEMMA NoteIsPosted ==
    ASSUME TypeOK, Said, OnItsWay, PostNote PROVE VerdictStep
<1>1. call.op = "verdict" /\ call.pc = "note"
  BY DEF PostNote, At
<1>2. ASSUME notes' = Posted,
             IF State = "comment" THEN UNCHANGED stance ELSE Judged(State),
             UNCHANGED <<provider, pr, alone>>, NatBounds,
             call' = Idle, OnItsWay', result'.op = "verdict", ReadsBackWithBody'
      PROVE  VerdictStep
  BY <1>1, <1>2, PostedKeepsSaid DEF VerdictStep, TypeOK
<1>3. CASE /\ notes' = Posted
           /\ IF State = "comment" THEN UNCHANGED stance ELSE Judged(State)
           /\ Return(Given(Len(Posted)))
           /\ UNCHANGED <<provider, pr, bounds, alone>>
  <2>1. NatBounds
    BY <1>3 DEF NatBounds, bounds, TypeOK
  <2> QED
    BY <1>1, <1>2, <1>3, <2>1, PostedReadsBack
<1>4. CASE /\ faults' = faults + 1
           /\ \/ UNCHANGED <<notes, stance>>
              \/ /\ notes' = Posted
                 /\ IF State = "comment" THEN UNCHANGED stance ELSE Judged(State)
           /\ Raise("transport")
           /\ UNCHANGED <<provider, pr, calls, events, alone>>
  <2>1. call' = Idle /\ result'.op = "verdict" /\ ReadsBackWithBody' /\ OnItsWay'
    BY <1>1, <1>4, Refusing
  <2>2. NatBounds
    BY <1>4 DEF NatBounds, TypeOK
  <2>3. CASE UNCHANGED <<notes, stance>>
    BY <1>1, <1>4, <2>1, <2>2, <2>3, QuietVerdict
  <2>4. CASE /\ notes' = Posted
             /\ IF State = "comment" THEN UNCHANGED stance ELSE Judged(State)
    BY <1>2, <1>4, <2>1, <2>2, <2>4
  <2> QED
    BY <1>4, <2>3, <2>4
<1> QED
  BY <1>3, <1>4 DEF PostNote

LEMMA VerdictsStep ==
    ASSUME TypeOK, Said, OnItsWay, VerdictNext PROVE VerdictStep
BY VerdictBegins, VerdictStarts, VoteIsCast, WhoAmIAnswers, NoteIsPosted DEF VerdictNext

-----------------------------------------------------------------------------
(* The inductive invariant.                                                *)

Inv ==
    /\ TypeOK
    /\ InFlight /\ OnItsWay /\ Said
    /\ ReportedMergesHappened /\ ReadsBackWithBody

LEMMA InitInv == Init => Inv
<1> SUFFICES ASSUME Init PROVE Inv
  OBVIOUS
<1>1. pr \in Pulls /\ \A u \in Users : pr.votes[u] = "absent"
  <2> DEFINE votes == [u \in Users |-> "absent"]
  <2>1. votes \in [Users -> Votes] /\ \A u \in Users : votes[u] = "absent"
    BY DEF Votes
  <2> HIDE DEF votes
  <2>2. "old" \in Names
    BY PullConstants
  <2>3. pr = [st |-> "open", draft |-> FALSE, title |-> "old", head |-> 0,
              blocked |-> FALSE, reviewers |-> {}, labels |-> {},
              votes |-> votes, ms |-> "succeeded", pending |-> FALSE, merging |-> 0]
    BY DEF Init, NewPull, votes
  <2>4. pr \in Pulls
    BY <2>1, <2>2, <2>3 DEF Pulls
  <2> QED
    BY <2>1, <2>3, <2>4
<1>2. stance \in [Users -> Votes] /\ \A u \in Users : stance[u] = "absent"
  BY DEF Init, Votes
<1>3. notes \in Notes /\ \A u \in Users : By(u) = {}
  <2>1. notes = <<>>
    BY DEF Init
  <2> QED
    BY <2>1 DEF Notes, By
<1>4. \A u \in Users : Latest(u) = NoBody
  BY <1>3 DEF Latest, Newest
<1>5. TypeOK
  BY <1>1, <1>2, <1>3 DEF TypeOK, Init
<1>6. Said
  BY <1>1, <1>2, <1>4 DEF Said, SaidOnGitHub, SaidOnAzure, SaidOnGitLab, Acts
<1>7. call = Idle /\ result = NoResult
  BY DEF Init
<1>8. InFlight /\ OnItsWay /\ ReportedMergesHappened /\ ReadsBackWithBody
  BY <1>7 DEF InFlight, OnItsWay, ReportedMergesHappened, ReadsBackWithBody,
              Idle, NoResult, AlreadyMerged
<1> QED
  BY <1>5, <1>6, <1>8 DEF Inv

LEMMA SaysIsReport == ReportedMergesHappened <=> (SaysMerged(result) => pr.st = "merged")
BY DEF ReportedMergesHappened, SaysMerged

(* A call with nothing to return, or of another kind.                      *)
LEMMA NotAReview ==
    ASSUME result' = NoResult \/ (result'.op \in {"update", "merge"})
    PROVE  ReadsBackWithBody'
BY DEF ReadsBackWithBody, NoResult

(* The stages a call may be in depend on the provider alone.               *)
LEMMA SameCalls == provider' = provider => Updating' = Updating
BY DEF Updating, Writes

LEMMA UpdateKeepsInv ==
    ASSUME Inv, UpdateStep PROVE Inv'
<1>1. TypeOK /\ InFlight /\ Said /\ ReportedMergesHappened /\ ReadsBackWithBody
  BY DEF Inv
<1>2. Said' /\ stance' \in [Users -> Votes]
  BY <1>1, UpdateKeepsSaid
<1>3. TypeOK'
  BY <1>1, <1>2, SameCalls DEF TypeOK, UpdateStep, NatBounds
<1>4. OnItsWay'
  <2>1. call'.op # "verdict"
    BY DEF UpdateStep, Idle, Updating
  <2> QED
    BY <2>1 DEF OnItsWay
<1>5. result' = NoResult \/ (result'.op = "update" /\ call' = Idle)
  BY <1>1 DEF InFlight, UpdateStep
<1>6. InFlight'
  BY <1>5 DEF InFlight, Idle
<1>7. ReadsBackWithBody'
  BY <1>5, NotAReview
<1>8. ReportedMergesHappened'
  BY <1>5 DEF ReportedMergesHappened, NoResult
<1> QED
  BY <1>2, <1>3, <1>4, <1>6, <1>7, <1>8 DEF Inv

LEMMA MergeKeepsInv ==
    ASSUME Inv, MergeStep PROVE Inv'
<1>1. TypeOK /\ InFlight /\ Said /\ ReportedMergesHappened
  BY DEF Inv
<1>2. Said'
  BY <1>1, StanceKept DEF MergeStep
<1>3. TypeOK'
  BY <1>1 DEF TypeOK, MergeStep, NatBounds
<1>4. OnItsWay'
  <2>1. call'.op # "verdict"
    BY DEF MergeStep, Idle, Merging
  <2> QED
    BY <2>1 DEF OnItsWay
<1>5. result' = NoResult \/ (result'.op = "merge" /\ call' = Idle)
  BY <1>1 DEF InFlight, MergeStep
<1>6. InFlight'
  BY <1>5 DEF InFlight, Idle
<1>7. ReadsBackWithBody'
  BY <1>5, NotAReview
<1>8. ReportedMergesHappened'
  <2>1. ~SaysMerged(NoResult)
    BY DEF SaysMerged, NoResult
  <2>2. SaysMerged(result') => pr'.st = "merged"
    BY <1>1, <2>1 DEF MergeStep, InFlight
  <2> QED
    BY <2>2 DEF SaysMerged, ReportedMergesHappened
<1> QED
  BY <1>2, <1>3, <1>4, <1>6, <1>7, <1>8 DEF Inv

LEMMA VerdictKeepsInv ==
    ASSUME Inv, VerdictStep PROVE Inv'
<1>1. TypeOK /\ InFlight
  BY DEF Inv
<1>2. Said' /\ OnItsWay'
  BY DEF VerdictStep
<1>3. TypeOK'
  BY <1>1 DEF TypeOK, VerdictStep, NatBounds
<1>4. \/ result' = NoResult
      \/ result'.op = "verdict" /\ call' = Idle /\ ReadsBackWithBody'
  BY <1>1 DEF InFlight, VerdictStep
<1>5. InFlight'
  BY <1>4 DEF InFlight, Idle
<1>6. ReadsBackWithBody'
  BY <1>4, NotAReview
<1>7. ReportedMergesHappened'
  BY <1>4 DEF ReportedMergesHappened, NoResult
<1> QED
  BY <1>2, <1>3, <1>5, <1>6, <1>7 DEF Inv

(* Others disturb neither the call nor what it has returned: its review is *)
(* still in the list, or they have acted.                                  *)
LEMMA OthersKeepInv ==
    ASSUME Inv, OthersStep PROVE Inv'
<1>1. /\ TypeOK /\ InFlight /\ OnItsWay /\ Said
      /\ ReportedMergesHappened /\ ReadsBackWithBody
  BY DEF Inv
<1>2. /\ UNCHANGED <<provider, call, result>> /\ NatBounds
      /\ pr' \in Pulls
      /\ pr.st = "merged" => pr'.st = "merged"
  BY DEF OthersStep
<1>3. InFlight'
  BY <1>1, <1>2 DEF InFlight
<1>4. ReportedMergesHappened'
  BY <1>1, <1>2 DEF ReportedMergesHappened
<1>5. CASE Act
  <2>1. PICK u, a : ReviewBy(u, a)
    BY <1>1, <1>5, ActIsReview
  <2>2. /\ Said' /\ stance' \in [Users -> Votes] /\ notes' \in Notes
        /\ \A v \in Users \ {u} : pr'.votes[v] = pr.votes[v]
    BY <1>1, <1>2, <2>1, ReviewKeepsSaid
  <2>3. alone' = FALSE
    BY <1>5 DEF Act, Other
  <2>4. TypeOK'
    BY <1>1, <1>2, <2>2, <2>3, SameCalls DEF TypeOK, NatBounds
  <2>5. call.op = "verdict" => pr'.votes[Me] = pr.votes[Me]
    BY <2>1, <2>2 DEF ReviewBy, Users
  <2>6. OnItsWay'
    BY <1>1, <1>2, <2>5 DEF OnItsWay, State, HasBody
  <2>7. ReadsBackWithBody'
    BY <2>3 DEF ReadsBackWithBody
  <2> QED
    BY <1>3, <1>4, <2>2, <2>4, <2>6, <2>7 DEF Inv
<1>6. CASE pr'.votes = pr.votes /\ UNCHANGED <<notes, stance>> /\ (alone' = alone \/ alone' = FALSE)
  <2>1. Said'
    BY <1>1, <1>2, <1>6, StanceKept
  <2>2. TypeOK'
    BY <1>1, <1>2, <1>6, SameCalls DEF TypeOK, NatBounds
  <2>3. OnItsWay'
    BY <1>1, <1>2, <1>6 DEF OnItsWay, State, HasBody
  <2>4. Gates' = Gates /\ \A gate : Reviews(gate)' = Reviews(gate)
    BY <1>2, <1>6, SameServer
  <2>5. ReadsBackWithBody'
    BY <1>1, <1>2, <1>6, <2>4 DEF ReadsBackWithBody, Blind
  <2> QED
    BY <1>3, <1>4, <2>1, <2>2, <2>3, <2>5 DEF Inv
<1> QED
  BY <1>5, <1>6 DEF OthersStep

LEMMA NextSteps ==
    ASSUME Inv, [Next]_vars
    PROVE  UpdateStep \/ MergeStep \/ VerdictStep \/ OthersStep
<1>1. TypeOK /\ Said /\ OnItsWay
  BY DEF Inv
<1>2. CASE UNCHANGED vars
  <2>1. UNCHANGED <<provider, pr, notes, call, result, calls, events, faults, stance, alone>>
    BY <1>2 DEF vars, server, bounds, history
  <2> QED
    BY <1>1, <2>1 DEF OthersStep, TypeOK, NatBounds
<1>3. CASE Next
  BY <1>1, <1>3, UpdatesStep, MergesStep, VerdictsStep, OthersSteps DEF Next
<1> QED
  BY <1>2, <1>3

LEMMA InvStep == Inv /\ [Next]_vars => Inv'
BY NextSteps, UpdateKeepsInv, MergeKeepsInv, VerdictKeepsInv, OthersKeepInv

(* No call and nobody else leaves the states the types allow.              *)
THEOREM PullRequestIsTyped == Spec => []TypeOK
<1>1. Spec => []Inv
  BY InitInv, InvStep, PTL DEF Spec
<1>2. Inv => TypeOK
  BY DEF Inv
<1> QED
  BY <1>1, <1>2, PTL

(* merge_pr never reports a merge that has not happened, nor refuses one   *)
(* as done that is not, whoever else merges, closes or pushes meanwhile.   *)
THEOREM ReportedMergesAreReal == Spec => []ReportedMergesHappened
<1>1. Spec => []Inv
  BY InitInv, InvStep, PTL DEF Spec
<1>2. Inv => ReportedMergesHappened
  BY DEF Inv
<1> QED
  BY <1>1, <1>2, PTL

(* While somebody's last act is to request changes, the decision read back *)
(* says so to whoever may read the approvals, whatever approvals are       *)
(* required and whatever calls of submit_pr_review stopped half way.       *)
THEOREM ChangeRequestsShow == Spec => []RequestedChangesShow
<1>1. Spec => []Inv
  BY InitInv, InvStep, PTL DEF Spec
<1>2. Inv => RequestedChangesShow
  BY DecisionIsSaid DEF Inv
<1> QED
  BY <1>1, <1>2, PTL

(* The decision is an approval only while somebody's last act is one.      *)
THEOREM ApprovalsShownAreCurrent == Spec => []ApprovalsAreCurrent
<1>1. Spec => []Inv
  BY InitInv, InvStep, PTL DEF Spec
<1>2. Inv => ApprovalsAreCurrent
  BY DecisionIsSaid DEF Inv
<1> QED
  BY <1>1, <1>2, PTL

(* The review submit_pr_review returns is the one list_pr_reviews gives,   *)
(* but for a bare vote of Azure DevOps and for a bare approval of GitLab   *)
(* where approvals cannot be read.                                         *)
THEOREM ReviewsReadBack == Spec => []ReadsBackWithBody
<1>1. Spec => []Inv
  BY InitInv, InvStep, PTL DEF Spec
<1>2. Inv => ReadsBackWithBody
  BY DEF Inv
<1> QED
  BY <1>1, <1>2, PTL

(* An Azure DevOps completion merges the commit the call has read.         *)
THEOREM MergesOnlyWhatItRead == Spec => MergesWhatItRead
<1>1. Spec => []Inv
  BY InitInv, InvStep, PTL DEF Spec
<1>2. Inv /\ [Next]_vars =>
        [provider = "azure" /\ pr'.pending /\ ~pr.pending =>
            pr.head = call.head /\ pr'.merging = call.head]_vars
  BY NextSteps DEF UpdateStep, MergeStep, VerdictStep, OthersStep
<1> QED
  BY <1>1, <1>2, PTL DEF Spec, MergesWhatItRead

(* update_pr leaves alone what it does not name, but for what the provider *)
(* has it send as a whole.                                                 *)
THEOREM UpdatesAreLocal == Spec => UpdateIsLocal
<1>1. Spec => []Inv
  BY InitInv, InvStep, PTL DEF Spec
<1>2. ASSUME Inv, [Next]_vars, call.op = "update", events' = events,
             pr.pending = pr'.pending
      PROVE  Local(pr')
  <2>1. CASE UpdateStep
    BY <1>2, <2>1 DEF UpdateStep
  <2>2. CASE OthersStep
    BY <1>2, <2>2 DEF OthersStep, Local
  <2>3. ~MergeStep /\ ~VerdictStep
    BY <1>2 DEF MergeStep, VerdictStep
  <2> QED
    BY <1>2, <2>1, <2>2, <2>3, NextSteps
<1>3. Inv /\ [Next]_vars =>
        [(call.op = "update" /\ events' = events /\ pr.pending = pr'.pending) =>
            /\ Arg.title # Keep \/ "title" \in Exposed \/ pr'.title = pr.title
            /\ Arg.draft # Keep \/ "draft" \in Exposed \/ pr'.draft = pr.draft
            /\ Arg.status # Keep \/ pr'.st = pr.st
            /\ "labels" \in Exposed \/ pr.labels \ pr'.labels \subseteq Arg.unlabel
            /\ "reviewers" \in Exposed \/ pr.reviewers \ pr'.reviewers \subseteq Arg.leave
            /\ \A u \in Users \ (Arg.join \cup Arg.leave) :
                  pr'.votes[u] = pr.votes[u]]_vars
  BY <1>2 DEF Local
<1> QED
  BY <1>1, <1>3, PTL DEF Spec, UpdateIsLocal
=============================================================================
