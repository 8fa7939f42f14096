---------------------------- MODULE EventProtocol ----------------------------
(***************************************************************************)
(* What a client of the event iterator may rely on, whatever the input:    *)
(* a stream start, then documents (a start, one node, an end), then either *)
(* the stream end or one error, and nothing after either.  The node's own  *)
(* events are one step here.                                               *)
(***************************************************************************)
VARIABLE phase

Phases == {"new", "between", "opened", "rooted", "ended", "failed"}

Init == phase = "new"

StreamStart   == phase = "new"     /\ phase' = "between"
DocumentStart == phase = "between" /\ phase' = "opened"
Node          == phase = "opened"  /\ phase' = "rooted"
DocumentEnd   == phase = "rooted"  /\ phase' = "between"
StreamEnd     == phase = "between" /\ phase' = "ended"
Error         == phase \in {"between", "opened", "rooted"} /\ phase' = "failed"

Next == StreamStart \/ DocumentStart \/ Node \/ DocumentEnd \/ StreamEnd \/ Error

Spec == Init /\ [][Next]_phase
=============================================================================
