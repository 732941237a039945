----------------------------- MODULE GitLabLinks -----------------------------
(***************************************************************************)
(* add_relation and remove_relation of GitLab: the parent of a work item,  *)
(* issue links, of which a pair of issues has one, and duplicates as a     *)
(* link, a line of the body and a closed state, in that order.             *)
(***************************************************************************)
EXTENDS LinkState

GitLabKinds == {"relates_to", "duplicate_of", "parent", "child"}

(* A duplicate is linked before the ticket says and shows that it is one.  *)
Marking_LinkLast == <<"body", "put", "link">>
Marking == <<"body", "link", "put">>
Step(pc)  == CHOOSE i \in DOMAIN Marking : Marking[i] = pc
Later(pc) == IF Step(pc) < Len(Marking) THEN Marking[Step(pc) + 1] ELSE "reread"
After(pc) == IF Step(pc) < Len(Marking) THEN Goto(Later(pc)) ELSE Return

GitLabStart ==
    /\ provider = "gitlab" /\ call.pc = "start"
    /\ IF Arg.kind \notin GitLabKinds THEN Raise("unsupported")
       ELSE IF call.op = "add" /\ To = Self THEN Raise("self")
       ELSE Goto(IF Arg.kind \in Hierarchy THEN "subject"
                 ELSE IF call.op = "add" /\ Arg.kind = "relates_to" THEN "link"
                 ELSE "body")
    /\ Silent

(* The work item whose parent is set: the ticket, or the target of child.  *)
HasParent == Linked(Arg.kind, To)

Subject ==
    /\ provider = "gitlab" /\ call.pc = "subject"
    /\ Read(IF To \in Missing
            THEN Raise(IF call.op = "add" THEN "unknown" ELSE "not found")
            ELSE IF call.op = "add" /\ HasParent THEN Raise("exists")
            ELSE IF call.op = "remove" /\ ~HasParent THEN Raise("not found")
            ELSE Goto("parent"))

(* workItemUpdate sets the parent, or clears whatever parent there is.     *)
SetParent ==
    /\ provider = "gitlab" /\ call.pc = "parent"
    /\ IF call.op = "remove"
       THEN Write(SetRels(IF Arg.kind = "parent" THEN DropParents
                          ELSE Drop(Rel("child", To))), Return)
       ELSE IF Allowed(Arg.kind, To)
       THEN Write(SetRels(Added(Arg.kind, To)), Return)
       ELSE IF Linked(Arg.kind, To) THEN Read(Return)
       ELSE Read(Raise("refused"))

(* The body that the rest of the call goes by.  Only a ticket that says so *)
(* is a duplicate, and a link to such a target is no relates_to.           *)
CallsItDuplicate == To \in Names

GitLabBody ==
    /\ provider = "gitlab" /\ call.pc = "body"
    /\ Read(IF call.op = "add"
            THEN /\ call' = [call EXCEPT !.pc = Later("body"),
                                         !.body = MarkedBody(To)]
                 /\ UNCHANGED result
            ELSE IF CallsItDuplicate # (Arg.kind = "duplicate_of")
            THEN Raise("not found")
            ELSE /\ call' = [call EXCEPT !.pc = "find", !.body = StrippedBody(To)]
                 /\ UNCHANGED result)

(* POST links.  A duplicate goes on when the pair is linked already.       *)
LinkRefusal == IF To \in Missing THEN "unknown" ELSE "exists"
Tolerated(error) == Arg.kind = "duplicate_of" /\ error = "exists"

PostLink ==
    /\ provider = "gitlab" /\ call.pc = "link"
    /\ LET next == IF Arg.kind = "duplicate_of" THEN After("link") ELSE Return
       IN  IF Allowed("relates_to", To)
           THEN Write(SetRels(Added("relates_to", To)), next)
           ELSE Read(IF ~Tolerated(LinkRefusal) THEN Raise(LinkRefusal)
                     ELSE /\ call' = [call EXCEPT !.pc = Later("link"),
                                                  !.link = "relates_to"]
                          /\ UNCHANGED result)

(* The link of the pair, whatever its type; deleted by its id.  The end of *)
(* a duplicate goes on without it, and whatever the server refuses.        *)
FindLink ==
    /\ provider = "gitlab" /\ call.pc = "find"
    /\ LET found == \E k \in Paired(To) :
                       /\ call' = [call EXCEPT !.pc = "unlink", !.link = k]
                       /\ UNCHANGED result
       IN  IF Arg.kind = "duplicate_of" THEN Answered(found \/ Goto("put"))
           ELSE Read(IF Paired(To) = {} THEN Raise("not found") ELSE found)

DeleteLink ==
    /\ provider = "gitlab" /\ call.pc = "unlink"
    /\ LET unlink == SetRels(Drop(Rel(call.link, To)))
       IN  IF Arg.kind = "duplicate_of"
           THEN \/ Linked(call.link, To) /\ Taken(unlink, Goto("put"))
                \/ Answered(Goto("put"))
           ELSE IF Linked(call.link, To) THEN Write(unlink, Return)
           ELSE Read(Raise("gone"))

(* When the pair was linked already, the answer is made of one more read.  *)
PutBody ==
    /\ provider = "gitlab" /\ call.pc = "put"
    /\ IF call.op = "remove" THEN Write(SetBody(call.body, "open"), Return)
       ELSE Write(SetBody(call.body, "closed"),
                  IF call.link = "none" THEN After("put") ELSE Goto("reread"))

Reread ==
    /\ provider = "gitlab" /\ call.pc = "reread"
    /\ Read(Return)

GitLabNext == \/ GitLabStart \/ Subject \/ SetParent \/ GitLabBody
              \/ PostLink \/ FindLink \/ DeleteLink \/ PutBody \/ Reread
=============================================================================
