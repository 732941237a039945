----------------------------- MODULE MCETagCache -----------------------------
(* Two threads with different tokens on one resource: "guest" cannot tell   *)
(* the states "draft" and "final" apart, "member" can; the representation   *)
(* of "gone" comes without a validator.                                     *)
EXTENDS ETagCache, TLC

CONSTANTS t1, t2

MCAccount == t1 :> "member" @@ t2 :> "guest"
MCBody ==
    [member |-> [draft |-> "b1", final |-> "b2", gone |-> "b0"],
     guest  |-> [draft |-> "b1", final |-> "b1", gone |-> "b0"]]
MCTag == [b0 |-> None, b1 |-> "e1", b2 |-> "e2"]
MCStates == {"draft", "final", "gone"}
MCBodies == {"b0", "b1", "b2"}
MCLinks == {"last=1", "last=2"}
MCResources == {"ticket"}
=============================================================================
