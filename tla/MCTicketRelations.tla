------------------------- MODULE MCTicketRelations -------------------------
(* Two calls, two other acts, one lost request; t12 starts like t1, and    *)
(* GitHub sends one row of a list when no page size is asked.              *)
EXTENDS TicketRelations

MCLonger == {<<"t1", "t12">>}
MCRequests ==
    {Request(op, k, "t1") : op \in {"add", "remove"}, k \in Kinds}
    \cup {Request("add", "parent", "t12"), Request("add", "duplicate_of", "t12"),
          Request("add", "blocks", "t12"), Request("remove", "blocks", "t12"),
          Request("add", "duplicate_of", "gone"), Request("remove", "duplicate_of", "gone"),
          Request("add", "relates_to", "self")}
=============================================================================
