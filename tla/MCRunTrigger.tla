---------------------------- MODULE MCRunTrigger ----------------------------
(* A second of two ticks, a server whose clock is right, one second behind  *)
(* or one ahead; polls after one tick, then every two.                      *)
EXTENDS RunTrigger

CONSTANTS c1, c2

MCBackoffs == <<1, 2>>
MCOthers ==
    {[ref |-> "main", event |-> "workflow_dispatch"],
     [ref |-> "tag", event |-> "workflow_dispatch"],
     [ref |-> "main", event |-> "push"]}
MCSkews == {-1, 0, 1}
=============================================================================
