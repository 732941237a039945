----------------------------- MODULE AzureLinks -----------------------------
(***************************************************************************)
(* add_relation and remove_relation of Azure DevOps: entries of the work   *)
(* item's relations array, removed by their index, and for a duplicate a   *)
(* line of the description and a closed state on top.                      *)
(***************************************************************************)
EXTENDS LinkState

AzureStored(k) == CASE k = "parent" -> "child"
                    [] k = "child"  -> "parent"
                    [] OTHER        -> k

(* A relation is recognised by its type and a part of its URL.             *)
Matches_AnyType(r) == StartsWith(r.to, To)
Matches(r) == r.kind = AzureStored(Arg.kind) /\ StartsWith(r.to, To)
Matching   == {i \in DOMAIN rels : Matches(rels[i])}
FirstMatch == CHOOSE i \in Matching : \A j \in Matching : i <= j

AzureStart ==
    /\ provider = "azure" /\ call.pc = "start"
    /\ IF call.op = "add" /\ To = Self THEN Raise("self")
       ELSE Goto(IF call.op = "add" THEN "preflight" ELSE "find")
    /\ Silent

Preflight ==
    /\ provider = "azure" /\ call.pc = "preflight"
    /\ Read(IF Matching # {} THEN Raise("exists") ELSE Goto("link"))

AddLink ==
    /\ provider = "azure" /\ call.pc = "link"
    /\ LET k == AzureStored(Arg.kind)
       IN  IF Allowed(k, To)
           THEN Write(SetRels(Added(k, To)),
                      IF k = "duplicate_of" THEN Goto("describe") ELSE Return)
           ELSE Read(Raise("refused"))

Describe ==
    /\ provider = "azure" /\ call.pc = "describe"
    /\ Read(/\ call' = [call EXCEPT !.pc = "fields", !.body = MarkedBody(To)]
            /\ UNCHANGED result)

(* The index and the description both come from this one read.             *)
FindIndex ==
    /\ provider = "azure" /\ call.pc = "find"
    /\ Read(IF Matching = {} THEN Raise("not found")
            ELSE /\ call' = [call EXCEPT !.pc = "remove", !.index = FirstMatch,
                                         !.body = StrippedBody(To)]
                 /\ UNCHANGED result)

RemoveIndex ==
    /\ provider = "azure" /\ call.pc = "remove"
    /\ IF call.index \in DOMAIN rels
       THEN Write(SetRels(Drop(rels[call.index])),
                  IF Arg.kind = "duplicate_of" THEN Goto("fields") ELSE Return)
       ELSE Read(Raise("refused"))

(* The state is one of the category the type's states have, or a fallback. *)
NewState == IF call.op = "add" THEN "closed" ELSE "open"

PatchFields ==
    /\ provider = "azure" /\ call.pc = "fields"
    /\ Write(SetBody(call.body, NewState), Return)

AzureNext == \/ AzureStart \/ Preflight \/ AddLink \/ Describe
             \/ FindIndex \/ RemoveIndex \/ PatchFields
=============================================================================
