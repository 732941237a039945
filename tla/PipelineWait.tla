---------------------------- MODULE PipelineWait ----------------------------
(***************************************************************************)
(* wait_for_pipeline (providers/base.py): one blocking call that polls the *)
(* runs of a commit until they amount to a verdict or a timeout expires,   *)
(* over the provider's list_runs_for_commit, and a CI system that moves    *)
(* while the call polls and sleeps.                                        *)
(*                                                                         *)
(* A poll is up to three requests, each answered from the server's state   *)
(* of its own instant: does the commit exist, which runs has it, and, only *)
(* for an empty listing, is CI configured at all.  GitHub and GitLab       *)
(* resolve the commit first, Azure DevOps lists first.                     *)
(***************************************************************************)
EXTENDS Integers, FiniteSets

CONSTANTS
    MaxRuns,        \* bound on the runs the commit ever gets
    Page,           \* limit=50: how many runs a poll looks at
    Timeout,        \* timeout_s
    PollInterval,   \* poll_interval_s
    Floor,          \* _MIN_POLL_INTERVAL_S
    Red,            \* _RED_CONCLUSIONS
    Inconclusive,   \* other conclusions than success: cancelled, skipped
    MaxClock        \* bound on the clock

VARIABLES
    clock,      \* the injected now()
    run,        \* server: [1..MaxRuns -> state], in order of creation
    known,      \* server: the commit has been pushed
    ci,         \* server: the project has workflows
    order,      \* which request the provider's poll starts with
    pc,         \* where the call is
    rows,       \* states of the runs the last listing returned
    noci,       \* resolved_refs of the last poll holds NO_CI_SENTINEL
    wake,       \* when the sleep ends
    out,        \* the result: a PipelineWaitState, or "raised"
    began,      \* history: when the last poll began
    truth       \* history: the server's runs when the last poll read them

server == <<run, known, ci>>
vars == <<clock, server, order, pc, rows, noci, wake, out, began, truth>>

Conclusions == {"success"} \cup Red \cup Inconclusive
Visible     == {"in_flight"} \cup Conclusions
RunStates   == Visible \cup {"absent", "deleted"}
PCs         == {"resolve", "list", "ci", "classify", "expire", "sleep", "done"}
Verdicts    == {"success", "failure", "pending", "no_verdict", "no_runs"}

ASSUME BoundsAreNaturals ==
    /\ MaxRuns \in Nat /\ Page \in Nat \ {0}
    /\ Timeout \in Nat /\ PollInterval \in Nat /\ Floor \in Nat \ {0}
    /\ MaxClock \in Nat

ASSUME ConclusionsAreDistinct ==
    /\ "success" \notin Red \cup Inconclusive
    /\ Red \cap Inconclusive = {}
    /\ {"in_flight", "absent", "deleted"} \cap Conclusions = {}

(* max(poll_interval_s, _MIN_POLL_INTERVAL_S)                              *)
Interval_AsGiven == PollInterval
Interval == IF PollInterval > Floor THEN PollInterval ELSE Floor

(* The call starts at instant 0.                                           *)
Deadline == Timeout

-----------------------------------------------------------------------------
(* The server's side.                                                      *)
Listed == {i \in 1..MaxRuns : run[i] \in Visible}

(* The newest runs come first; a poll sees a page of them.                 *)
InPage(i) == i \in Listed /\ Cardinality({j \in Listed : j > i}) < Page

PageNow  == {run[i] : i \in {j \in 1..MaxRuns : InPage(j)}}
TruthNow == [states |-> {run[i] : i \in Listed},
             whole  |-> \A i \in Listed : InPage(i)]

Nothing == [states |-> {}, whole |-> TRUE]

First == IF order = "commit_first" THEN "resolve" ELSE "list"

Init ==
    /\ clock = 0
    /\ known \in BOOLEAN
    /\ run = [i \in 1..MaxRuns |-> "absent"]
    /\ ci \in BOOLEAN
    /\ order \in {"commit_first", "runs_first"}
    /\ pc = First
    /\ rows = {}
    /\ noci = FALSE
    /\ wake = 0
    /\ out = "none"
    /\ began = 0
    /\ truth = Nothing

-----------------------------------------------------------------------------
(* list_runs_for_commit, request by request.                               *)

(* A commit the server does not know has no runs: ([], []).                *)
Resolve ==
    /\ pc = "resolve"
    /\ IF ~known
       THEN /\ pc' = "classify"
            /\ rows' = {}
            /\ truth' = IF order = "commit_first" THEN TruthNow ELSE truth
       ELSE /\ pc' = IF order = "commit_first" THEN "list" ELSE "ci"
            /\ UNCHANGED <<rows, truth>>
    /\ noci' = FALSE
    /\ UNCHANGED <<clock, server, order, wake, out, began>>

List ==
    /\ pc = "list"
    /\ rows' = PageNow
    /\ truth' = TruthNow
    /\ pc' = CASE PageNow # {} -> "classify"
               [] PageNow = {} /\ order = "commit_first" -> "ci"
               [] PageNow = {} /\ order = "runs_first" -> "resolve"
    /\ noci' = FALSE
    /\ UNCHANGED <<clock, server, order, wake, out, began>>

(* _has_workflows / is_ci_configured                                       *)
CheckCI ==
    /\ pc = "ci"
    /\ noci' = ~ci
    /\ pc' = "classify"
    /\ UNCHANGED <<clock, server, order, rows, wake, out, began, truth>>

(* Any of the three may raise: nothing is retried.                         *)
RequestFails ==
    /\ pc \in {"resolve", "list", "ci"}
    /\ out' = "raised"
    /\ pc' = "done"
    /\ UNCHANGED <<clock, server, order, rows, noci, wake, began, truth>>

-----------------------------------------------------------------------------
(* The loop of wait_for_pipeline.                                          *)

Classify_IgnoringInFlight(rs) ==
    CASE rs \cap Red # {} -> "failure"
      [] rs \cap Red = {} /\ rs \cap Conclusions = {"success"} -> "success"
      [] rs \cap Red = {} /\ rs \cap Conclusions = {} -> "pending"
      [] OTHER -> "no_verdict"

(* _classify_runs: red wins at once, the rest waits for every run.         *)
Classify(rs) ==
    CASE rs \cap Red # {} -> "failure"
      [] rs \cap Red = {} /\ "in_flight" \in rs -> "pending"
      [] rs = {"success"} -> "success"
      [] OTHER -> "no_verdict"

Return(v) ==
    /\ out' = v
    /\ pc' = "done"

(* An empty listing is retried without a look at the clock.                *)
Judge_RetriesAtOnce ==
    /\ pc = "classify"
    /\ \/ rows # {} /\ Classify(rows) # "pending" /\ Return(Classify(rows))
       \/ rows = {} /\ noci /\ Return("no_runs")
       \/ rows = {} /\ ~noci /\ pc' = First /\ UNCHANGED out
       \/ Classify(rows) = "pending" /\ pc' = "expire" /\ UNCHANGED out
    /\ UNCHANGED <<clock, server, order, rows, noci, wake, began, truth>>

Judge ==
    /\ pc = "classify"
    /\ \/ rows # {} /\ Classify(rows) # "pending" /\ Return(Classify(rows))
       \/ rows = {} /\ noci /\ Return("no_runs")
       \/ /\ IF rows = {} THEN ~noci ELSE Classify(rows) = "pending"
          /\ pc' = "expire"
          /\ UNCHANGED out
    /\ UNCHANGED <<clock, server, order, rows, noci, wake, began, truth>>

Expired_OneIntervalEarly == clock + Interval > Deadline
Expired == clock >= Deadline

WakeTime == IF clock + Interval < Deadline THEN clock + Interval ELSE Deadline

Expire ==
    /\ pc = "expire"
    /\ IF Expired
       THEN Return(IF rows # {} THEN "pending" ELSE "no_runs") /\ UNCHANGED wake
       ELSE pc' = "sleep" /\ wake' = WakeTime /\ UNCHANGED out
    /\ UNCHANGED <<clock, server, order, rows, noci, began, truth>>

(* The next poll begins no earlier than the sleep asked for, and with      *)
(* nothing known: the loop reads no result of an earlier poll.             *)
Wake_AnyTime ==
    /\ pc = "sleep"
    /\ pc' = First
    /\ began' = clock
    /\ rows' = {} /\ truth' = Nothing /\ noci' = FALSE /\ wake' = 0
    /\ UNCHANGED <<clock, server, order, out>>

Wake ==
    /\ pc = "sleep"
    /\ clock >= wake
    /\ pc' = First
    /\ began' = clock
    /\ rows' = {} /\ truth' = Nothing /\ noci' = FALSE /\ wake' = 0
    /\ UNCHANGED <<clock, server, order, out>>

-----------------------------------------------------------------------------
(* External: time, the push, and the CI system, as long as the call runs.  *)
Tick ==
    /\ pc # "done"
    /\ clock < MaxClock
    /\ clock' = clock + 1
    /\ UNCHANGED <<server, order, pc, rows, noci, wake, out, began, truth>>

call == <<clock, order, pc, rows, noci, wake, out, began, truth>>

Push ==
    /\ ~known
    /\ known' = TRUE
    /\ UNCHANGED <<run, ci, call>>

(* A run is created: the newest of the commit.                             *)
RunAppears ==
    /\ known /\ ci
    /\ \E i \in 1..MaxRuns :
          /\ run[i] = "absent"
          /\ \A j \in 1..MaxRuns : j < i => run[j] # "absent"
          /\ run' = [run EXCEPT ![i] = "in_flight"]
    /\ UNCHANGED <<known, ci, call>>

RunCompletes(i, c) ==
    /\ run[i] = "in_flight"
    /\ run' = [run EXCEPT ![i] = c]
    /\ UNCHANGED <<known, ci, call>>

RunRestarts(i) ==
    /\ run[i] \in Conclusions
    /\ run' = [run EXCEPT ![i] = "in_flight"]
    /\ UNCHANGED <<known, ci, call>>

(* Deleted, or pushed out of the 200 newest builds Azure DevOps lists.     *)
RunVanishes(i) ==
    /\ run[i] \in Visible
    /\ run' = [run EXCEPT ![i] = "deleted"]
    /\ UNCHANGED <<known, ci, call>>

WorkflowsChange ==
    /\ ci' = ~ci
    /\ UNCHANGED <<run, known, call>>

Caller == Resolve \/ List \/ CheckCI \/ RequestFails \/ Judge \/ Expire \/ Wake

World ==
    /\ pc # "done"
    /\ \/ Push
       \/ RunAppears
       \/ \E i \in 1..MaxRuns, c \in Conclusions : RunCompletes(i, c)
       \/ \E i \in 1..MaxRuns : RunRestarts(i)
       \/ \E i \in 1..MaxRuns : RunVanishes(i)
       \/ WorkflowsChange

Next == Caller \/ Tick \/ World

(* The caller's thread is scheduled and time passes; CI owes nothing.      *)
Spec == Init /\ [][Next]_vars /\ WF_vars(Caller) /\ WF_vars(Tick)
-----------------------------------------------------------------------------
TypeOK ==
    /\ clock \in Nat
    /\ run \in [1..MaxRuns -> RunStates]
    /\ known \in BOOLEAN /\ ci \in BOOLEAN
    /\ order \in {"commit_first", "runs_first"}
    /\ pc \in PCs
    /\ rows \in SUBSET Visible
    /\ noci \in BOOLEAN
    /\ wake \in Nat
    /\ out \in Verdicts \cup {"none", "raised"}
    /\ began \in Nat
    /\ truth \in [states : SUBSET Visible, whole : BOOLEAN]

(* A result speaks for the CI system as it was at one instant of the last  *)
(* poll (base.py:1971-1981, 2007-2018, README.md:328-337): failure only if *)
(* a run was red, success only if the commit had runs and, as far as one   *)
(* page reaches, every one was green, no_verdict only if all had finished  *)
(* and none was red, pending only if one was in flight, no_runs only if    *)
(* there were none.                                                        *)
VerdictMatchesServer ==
    /\ out = "failure" => truth.states \cap Red # {}
    /\ out = "success" =>
          "success" \in truth.states /\ (truth.whole => truth.states = {"success"})
    /\ out = "no_verdict" =>
          /\ truth.states \cap Inconclusive # {}
          /\ truth.whole => truth.states \cap ({"in_flight"} \cup Red) = {}
    /\ out = "pending" => "in_flight" \in truth.states
    /\ out = "no_runs" => truth.states = {}

(* The call gives up, with runs in flight or without any run, only when    *)
(* the whole timeout has passed; the one exception is a project whose last *)
(* poll found neither a run nor CI (test_no_runs_only_after_full_timeout). *)
GivesUpOnlyAtDeadline ==
    /\ out = "pending" => clock >= Deadline
    /\ out = "no_runs" /\ ~noci => clock >= Deadline

(* The rate-limit floor: whatever interval the caller asks for, a poll     *)
(* begins at least Floor after the one before, except that a sleep is cut  *)
(* to the deadline (base.py:2002, 2019); a call is at most                 *)
(* Timeout \div Floor + 2 polls long.                                      *)
Paced ==
    [][pc = "sleep" /\ pc' # "sleep" =>
          clock >= began + Floor \/ clock >= Deadline]_vars

(* No sleep is asked for that ends after the deadline (base.py:2019).      *)
SleepsEndByDeadline == wake <= Deadline

(* The call always returns: the timeout ends every wait, whatever CI does. *)
Returns == <>(pc = "done")
-----------------------------------------------------------------------------
(* Why these hold: rows is a page of the truth, and a sleep lasts an       *)
(* interval or ends at the deadline.                                       *)
RowsAreTrue ==
    pc \in {"classify", "expire", "sleep", "done"} /\ out # "raised" =>
        /\ rows \subseteq truth.states
        /\ rows = {} => truth.states = {}
        /\ truth.whole => rows = truth.states

LoopKnows ==
    /\ pc = "ci" => rows = {} /\ truth.states = {}
    /\ pc = "resolve" /\ order = "runs_first" => rows = {} /\ truth.states = {}
    /\ pc = "expire" /\ rows # {} => "in_flight" \in rows

UnknownHasNoRuns == ~known => \A i \in 1..MaxRuns : run[i] = "absent"

SleepIsLongEnough ==
    /\ began <= clock
    /\ pc = "sleep" => wake >= began + Floor \/ wake = Deadline

WaitInv ==
    /\ TypeOK
    /\ RowsAreTrue /\ LoopKnows /\ UnknownHasNoRuns
    /\ SleepIsLongEnough
    /\ (out = "none") <=> (pc # "done")
=============================================================================
