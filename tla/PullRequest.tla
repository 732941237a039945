---------------------------- MODULE PullRequest ----------------------------
(***************************************************************************)
(* The life of a pull request under this library: updates, merges and      *)
(* reviews, one call after the other, among other people's changes.        *)
(***************************************************************************)
EXTENDS UpdatePull, MergePull, Verdict

ASSUME RequestTypes == Requests \subseteq UpdateCalls \cup MergeCalls \cup VerdictCalls

TypeOK ==
    /\ provider \in Providers
    /\ pr \in Pulls /\ notes \in Notes
    /\ call \in {Idle} \cup Updating \cup Merging \cup Judging
    /\ stance \in [Users -> Votes] /\ alone \in BOOLEAN
    /\ calls \in Nat /\ events \in Nat /\ faults \in Nat

Next == UpdateNext \/ MergeNext \/ VerdictNext \/ Environment

Spec == Init /\ [][Next]_vars
=============================================================================
