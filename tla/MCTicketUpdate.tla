-------------------------- MODULE MCTicketUpdate --------------------------
(* One ticket, the three providers, and argument lists whose parts can get *)
(* into each other's way.                                                  *)
EXTENDS TicketUpdate

Plain == [NoRequest EXCEPT !.times = 1]
Column(k) == <<"column", k>>

MCLabels   == {"gen", "mod", "bug"}
MCOnMove   == [k \in {"todo", "done"} |-> IF k = "done" THEN {"bug"} ELSE {}]
MCStarts   == {{}, {"gen", "bug"}}
MCRequests ==
    { [Plain EXCEPT !.title = TRUE, !.join = {"ann"}, !.milestone = "cleared",
                    !.fields = <<<<"iteration", "backlog">>>>],
      [Plain EXCEPT !.remove = {"bug"}, !.body = TRUE],
      [Plain EXCEPT !.status = "open", !.fields = <<Column("done")>>,
                    !.light = TRUE],
      [Plain EXCEPT !.status = "open", !.leave = {"ann"},
                    !.milestone = "sprint"],
      [Plain EXCEPT !.add = {"bug"}, !.remove = {"bug"}],
      [Plain EXCEPT !.add = {"bug"}, !.times = 2] }
=============================================================================
