----------------------------- MODULE GitHubLinks -----------------------------
(***************************************************************************)
(* add_relation and remove_relation of GitHub: sub-issues, dependencies,   *)
(* and duplicates, which exist only as a line of the body.                 *)
(***************************************************************************)
EXTENDS LinkState

GitHubKinds == {"parent", "child", "blocks", "blocked_by", "duplicate_of"}

(* "parent" makes the ticket the parent of its target: the ticket's reader *)
(* lists a child.  GitLab means the opposite, Azure DevOps the same.       *)
Stored_AsNamed(k) == k
Stored(k) == CASE k = "parent" -> "child"
               [] k = "child"  -> "parent"
               [] OTHER        -> k
Existing_AsNamed(k) == Linked(k, To)
Existing(k) == Linked(Stored(k), To)

(* Before a write the code reads one page of GitHub's default size; a      *)
(* relation beyond it is not seen.  Sub-issues and what blocks are read    *)
(* from the ticket's own list, the inverse kinds from the target's.        *)
OwnList(k)   == {r \in ToSet(rels) : r.kind = Stored(k)}
Long(k)      == IF k \in {"parent", "blocked_by"}
                THEN Cardinality(OwnList(k)) > DefaultPage ELSE To \in Crowded
SeenOnPage(k) == {Existing(k)} \cup (IF Long(k) THEN {FALSE} ELSE {})

GH(op, pc) == provider = "github" /\ At(op, pc)

GitHubStart ==
    /\ provider = "github" /\ call.pc = "start"
    /\ IF Arg.kind \notin GitHubKinds THEN Raise("unsupported")
       ELSE IF call.op = "add" /\ To = Self THEN Raise("self")
       ELSE Goto("target")
    /\ Silent

(* The internal ids: the target's, and the ticket's own where it travels.  *)
GitHubTarget ==
    /\ provider = "github" /\ call.pc = "target"
    /\ Read(IF To \in Missing
            THEN Raise(IF call.op = "add" THEN "unknown" ELSE "not found")
            ELSE Goto(IF Arg.kind = "duplicate_of" THEN "body"
                      ELSE IF call.op = "add" \/ Arg.kind \in Links THEN "check"
                      ELSE "write"))

GitHubAddCheck ==
    /\ GH("add", "check")
    /\ \E seen \in SeenOnPage(Arg.kind) :
           Read(IF seen THEN Raise("exists") ELSE Goto("write"))

GitHubPost ==
    /\ GH("add", "write")
    /\ IF Allowed(Stored(Arg.kind), To)
       THEN Write(SetRels(Added(Stored(Arg.kind), To)), Return)
       ELSE Read(Raise(IF Existing(Arg.kind) THEN "exists" ELSE "refused"))

(* DELETE of a dependency succeeds whether or not there is one, so the     *)
(* list is read first; DELETE of a sub-issue tells.                        *)
GitHubRemoveCheck ==
    /\ GH("remove", "check")
    /\ \E seen \in SeenOnPage(Arg.kind) :
           Read(IF seen THEN Goto("write") ELSE Raise("not found"))

GitHubDelete ==
    /\ GH("remove", "write")
    /\ IF Arg.kind \in Hierarchy /\ ~Existing(Arg.kind)
       THEN Read(Raise("not found"))
       ELSE Write(SetRels(Drop(Rel(Stored(Arg.kind), To))), Return)

(* The body is read, edited and written back whole, with the state.        *)
GitHubBody ==
    /\ provider = "github" /\ call.pc = "body"
    /\ Read(IF call.op = "add"
            THEN /\ call' = [call EXCEPT !.pc = "patch", !.body = MarkedBody(To)]
                 /\ UNCHANGED result
            ELSE IF To \notin {body[i].to : i \in Own} THEN Raise("not found")
            ELSE /\ call' = [call EXCEPT !.pc = "patch", !.body = StrippedBody(To)]
                 /\ UNCHANGED result)

GitHubPatch ==
    /\ provider = "github" /\ call.pc = "patch"
    /\ Write(SetBody(call.body, IF call.op = "add" THEN "closed" ELSE "open"), Return)

GitHubNext == \/ GitHubStart \/ GitHubTarget \/ GitHubAddCheck \/ GitHubPost
              \/ GitHubRemoveCheck \/ GitHubDelete \/ GitHubBody \/ GitHubPatch
=============================================================================
