--------------------------- MODULE MCPipelineWait ---------------------------
(* One call with a poll interval below the floor, three runs of one commit  *)
(* of which a poll sees the newest two.                                     *)
EXTENDS PipelineWait
=============================================================================
