----------------------------- MODULE RunTrigger -----------------------------
(***************************************************************************)
(* trigger_pipeline and wait_for_run on GitHub (providers/github.py): the  *)
(* dispatch endpoint answers without a run id, so the call takes the time  *)
(* before its POST, floored to the second, and polls the recent runs of    *)
(* the workflow for the oldest workflow_dispatch run on its ref created at *)
(* or after that second.  Several callers trigger the same workflow, runs  *)
(* appear some time after their dispatch, other people start runs too, and *)
(* the server's clock may be off.                                          *)
(***************************************************************************)
EXTENDS Integers, Sequences, FiniteSets

CONSTANTS
    Callers,
    Refs,       \* branches and tags the callers dispatch on
    Others,     \* [ref, event] of the runs other people start
    Page,       \* limit=50
    Timeout,    \* timeout, in ticks
    Backoffs,   \* _TRIGGER_POLL_BACKOFFS, in ticks
    Second,     \* ticks of a second: the precision of created_at
    Skews,      \* seconds the server's clock may be ahead (or behind)
    MaxRuns,    \* bound on the runs the workflow ever gets
    LastCall,   \* bound: no call begins or posts after this tick
    MaxClock,   \* bound on the clock, in ticks
    None

VARIABLES
    clock,      \* now_utc() and time.monotonic(), in ticks
    skew,       \* server's clock minus ours, in seconds
    runs,       \* server: the workflow's runs, oldest first
    accepted,   \* server: [Callers -> ref or None], a dispatch without a run yet
    strays,     \* server: refs of dispatches nobody waits for any more
    pc, ref, since, deadline, attempt, wake,
    rows,       \* indices of the runs the last poll is left with
    out,        \* what the last call came to
    missed      \* history: the last poll could not see the caller's own run

(* A run records the second it was born in, by our clock, and the caller   *)
(* whose current call it belongs to (None: nobody's).                      *)
server == <<runs, accepted, strays>>
vars == <<clock, skew, server, pc, ref, since, deadline, attempt, wake,
          rows, out, missed>>

ASSUME TriggerBounds ==
    /\ Page \in Nat \ {0} /\ Timeout \in Nat /\ Second \in Nat \ {0}
    /\ Skews \subseteq Int /\ MaxRuns \in Nat
    /\ LastCall \in Nat /\ MaxClock \in Nat
    /\ Backoffs \in Seq(Nat) /\ Backoffs # <<>>
    /\ None \notin Refs \cup Callers

(* normalize_timestamp drops the fraction of a second                      *)
Sec_Rounded(t) == (t + Second - 1) \div Second
Sec(t) == t \div Second

CreatedAt(i) == runs[i].born + skew

(* The server's and the client's filters agree: this workflow (the URL),   *)
(* the event, created at or after since.                                   *)
Matches_AnyTime(i, c) == runs[i].event = "workflow_dispatch"
Matches(i, c) ==
    /\ runs[i].event = "workflow_dispatch"
    /\ CreatedAt(i) >= since[c]

Matching(c) == {i \in DOMAIN runs : Matches(i, c)}

(* The newest Page of them, whatever their ref; then run_matches_ref.      *)
Rows(c) ==
    {i \in Matching(c) :
        /\ Cardinality({j \in Matching(c) : j > i}) < Page
        /\ runs[i].ref = ref[c]}

(* min() by created_at over a listing that has the newest first: of the    *)
(* runs of the oldest second, the first one listed.                        *)
Oldest_TakesNewest(S) == CHOOSE i \in S : \A j \in S : j <= i
Oldest(S) ==
    CHOOSE i \in S : \A j \in S :
        \/ CreatedAt(j) > CreatedAt(i)
        \/ CreatedAt(j) = CreatedAt(i) /\ j <= i

Init ==
    /\ clock = 0
    /\ skew \in Skews
    /\ runs = <<>>
    /\ accepted = [c \in Callers |-> None]
    /\ strays = {}
    /\ pc = [c \in Callers |-> "idle"]
    /\ ref = [c \in Callers |-> None]
    /\ since = [c \in Callers |-> 0]
    /\ deadline = [c \in Callers |-> 0]
    /\ attempt = [c \in Callers |-> 1]
    /\ wake = [c \in Callers |-> 0]
    /\ rows = [c \in Callers |-> {}]
    /\ out = [c \in Callers |-> [kind |-> "none", run |-> 0]]
    /\ missed = [c \in Callers |-> TRUE]

Leave(c, kind, i) ==
    /\ pc' = [pc EXCEPT ![c] = "idle"]
    /\ out' = [out EXCEPT ![c] = [kind |-> kind, run |-> i]]

(* t0 is taken before the POST.  What an earlier call of the caller left   *)
(* behind, a run or a dispatch, is nobody's now.                           *)
Trigger(c, r) ==
    /\ pc[c] = "idle"
    /\ clock <= LastCall
    /\ pc' = [pc EXCEPT ![c] = "post"]
    /\ ref' = [ref EXCEPT ![c] = r]
    /\ since' = [since EXCEPT ![c] = Sec(clock)]
    /\ deadline' = [deadline EXCEPT ![c] = 0]
    /\ attempt' = [attempt EXCEPT ![c] = 1]
    /\ wake' = [wake EXCEPT ![c] = 0]
    /\ rows' = [rows EXCEPT ![c] = {}]
    /\ out' = [out EXCEPT ![c] = [kind |-> "none", run |-> 0]]
    /\ missed' = [missed EXCEPT ![c] = TRUE]
    /\ runs' = [i \in DOMAIN runs |->
                  IF runs[i].by = c THEN [runs[i] EXCEPT !.by = None] ELSE runs[i]]
    /\ strays' = strays \cup ({accepted[c]} \ {None})
    /\ accepted' = [accepted EXCEPT ![c] = None]
    /\ UNCHANGED <<clock, skew>>

(* 204: the dispatch is accepted, and the wait begins, unless wait=False.  *)
Post(c) ==
    /\ pc[c] = "post"
    /\ clock <= LastCall
    /\ Len(runs) + Cardinality({d \in Callers : accepted[d] # None}) < MaxRuns
    /\ accepted' = [accepted EXCEPT ![c] = ref[c]]
    /\ \/ /\ pc' = [pc EXCEPT ![c] = "poll"]
          /\ deadline' = [deadline EXCEPT ![c] = clock + Timeout]
          /\ UNCHANGED out
       \/ /\ Leave(c, "nowait", 0)
          /\ UNCHANGED deadline
    /\ UNCHANGED <<clock, skew, runs, strays, ref, since, attempt, wake, rows, missed>>

(* Refused or never arrived; or the answer was lost and the run will come. *)
PostFails(c) ==
    /\ pc[c] = "post"
    /\ Leave(c, "raised", 0)
    /\ \/ strays' = strays \cup {ref[c]}
       \/ strays' = strays
    /\ UNCHANGED <<clock, skew, runs, accepted, ref, since, deadline, attempt,
                   wake, rows, missed>>

Poll(c) ==
    /\ pc[c] = "poll"
    /\ rows' = [rows EXCEPT ![c] = Rows(c)]
    /\ missed' = [missed EXCEPT ![c] = ~\E i \in DOMAIN runs : runs[i].by = c]
    /\ pc' = [pc EXCEPT ![c] = "decide"]
    /\ UNCHANGED <<clock, skew, server, ref, since, deadline, attempt, wake, out>>

PollFails(c) ==
    /\ pc[c] = "poll"
    /\ Leave(c, "raised", 0)
    /\ UNCHANGED <<clock, skew, server, ref, since, deadline, attempt, wake,
                   rows, missed>>

Expired_DeadlineSlides(c) == clock >= clock + Timeout
Expired(c) == clock >= deadline[c]

NextAttempt(c) == IF attempt[c] < Len(Backoffs) THEN attempt[c] + 1 ELSE attempt[c]

Decide(c) ==
    /\ pc[c] = "decide"
    /\ \/ /\ rows[c] # {}
          /\ Leave(c, "run", Oldest(rows[c]))
          /\ UNCHANGED <<wake, attempt>>
       \/ /\ rows[c] = {} /\ Expired(c)
          /\ Leave(c, "timeout", 0)
          /\ UNCHANGED <<wake, attempt>>
       \/ /\ rows[c] = {} /\ ~Expired(c)
          /\ pc' = [pc EXCEPT ![c] = "sleep"]
          /\ wake' = [wake EXCEPT ![c] = clock + Backoffs[attempt[c]]]
          /\ attempt' = [attempt EXCEPT ![c] = NextAttempt(c)]
          /\ UNCHANGED out
    /\ UNCHANGED <<clock, skew, server, ref, since, deadline, rows, missed>>

Wake(c) ==
    /\ pc[c] = "sleep"
    /\ clock >= wake[c]
    /\ pc' = [pc EXCEPT ![c] = "poll"]
    /\ wake' = [wake EXCEPT ![c] = 0]
    /\ UNCHANGED <<clock, skew, server, ref, since, deadline, attempt, rows,
                   out, missed>>

(* External.  A dispatch becomes a run; other people's pushes and          *)
(* dispatches start runs of the workflow as well.                          *)
NewRun(r, e, c) == Append(runs, [ref |-> r, event |-> e, born |-> clock \div Second, by |-> c])

rest == <<clock, skew, pc, ref, since, deadline, attempt, wake, rows, out, missed>>

RunStarts(c) ==
    /\ accepted[c] # None
    /\ Len(runs) < MaxRuns
    /\ runs' = NewRun(accepted[c], "workflow_dispatch", c)
    /\ accepted' = [accepted EXCEPT ![c] = None]
    /\ UNCHANGED <<strays, rest>>

StrayStarts(r) ==
    /\ r \in strays
    /\ Len(runs) < MaxRuns
    /\ runs' = NewRun(r, "workflow_dispatch", None)
    /\ strays' = strays \ {r}
    /\ UNCHANGED <<accepted, rest>>

OtherRun(o) ==
    /\ Len(runs) < MaxRuns
    /\ runs' = NewRun(o.ref, o.event, None)
    /\ UNCHANGED <<accepted, strays, rest>>

Tick ==
    /\ clock < MaxClock
    /\ clock' = clock + 1
    /\ UNCHANGED <<skew, server, pc, ref, since, deadline, attempt, wake,
                   rows, out, missed>>

Proceed(c) == Post(c) \/ PostFails(c) \/ Poll(c) \/ PollFails(c) \/ Decide(c) \/ Wake(c)

Next ==
    \/ \E c \in Callers, r \in Refs : Trigger(c, r)
    \/ \E c \in Callers : Proceed(c)
    \/ \E c \in Callers : RunStarts(c)
    \/ \E r \in Refs : StrayStarts(r)
    \/ \E o \in Others : OtherRun(o)
    \/ Tick

(* A caller in a call is scheduled, and time passes.                       *)
Spec ==
    /\ Init /\ [][Next]_vars
    /\ \A c \in Callers : WF_vars(Proceed(c))
    /\ WF_vars(Tick)
-----------------------------------------------------------------------------

Resolved(c) == out[c].kind = "run"

(* Of the runs that could be the caller's, on its ref, dispatched, in the  *)
(* second of its t0 or later, none is ever older, by created_at, than the  *)
(* one it resolved, as long as one page reaches all of them                *)
(* (github.py:6945-6982: "the oldest run at/after since").              *)
OldestOfWindow ==
    \A c \in Callers : Resolved(c) /\ Cardinality(Matching(c)) <= Page =>
        \A i \in Matching(c) :
            runs[i].ref = ref[c] => CreatedAt(i) >= CreatedAt(out[c].run)

(* A run that existed before the second of the call is never resolved,     *)
(* unless the server's clock is ahead (github.py:6958-6959: "an unbounded  *)
(* wait would happily return a pre-existing run").                         *)
NeverPreexisting ==
    \A c \in Callers : Resolved(c) =>
        /\ runs[out[c].run].ref = ref[c]
        /\ skew <= 0 => runs[out[c].run].born >= since[c]

(* None is a genuine timeout: the time is over and, with a clock that is   *)
(* not behind and a page that reaches all candidates, the caller's run had *)
(* not appeared when the last poll looked, so flooring t0 loses no run     *)
(* (github.py:6890-6893).                                                  *)
TimeoutIsGenuine ==
    \A c \in Callers : out[c].kind = "timeout" =>
        /\ clock >= deadline[c]
        /\ skew >= 0 /\ Cardinality(Matching(c)) <= Page => missed[c]

(* Every call ends.                                                        *)
CallsEnd == \A c \in Callers : pc[c] # "idle" ~> pc[c] = "idle"
=============================================================================
