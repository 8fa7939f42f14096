------------------------------ MODULE SeenKeys -------------------------------
(***************************************************************************)
(* What the duplicate-key check promises: the keys of each mapping are     *)
(* reported one by one; a new key is remembered with its position, and the *)
(* first repetition is refused with the position of the key's first        *)
(* occurrence.  There is no other answer to a report.                      *)
(***************************************************************************)
EXTENDS Naturals, Sequences

CONSTANT Keys   (* key identities *)

VARIABLES
  reported,  (* the keys of the mapping that have been reported, in order *)
  seen,      (* the position of every key, a function on the keys met     *)
  verdict    (* 0, or the position of the key that was repeated           *)

vars == <<reported, seen, verdict>>

Empty == [k \in {} |-> 0]

Init == reported = <<>> /\ seen = Empty /\ verdict = 0

Accept(k) ==
  /\ k \notin DOMAIN seen
  /\ seen' = [x \in DOMAIN seen \union {k} |-> IF x = k THEN Len(reported) + 1 ELSE seen[x]]
  /\ UNCHANGED verdict

Refuse(k) ==
  /\ k \in DOMAIN seen
  /\ verdict' = seen[k]
  /\ UNCHANGED seen

(* Every report is answered, and by what was reported before. *)
Report(k) ==
  /\ verdict = 0
  /\ reported' = Append(reported, k)
  /\ Accept(k) \/ Refuse(k)

(* The next mapping. *)
Forget ==
  /\ verdict = 0
  /\ reported' = <<>> /\ seen' = Empty
  /\ UNCHANGED verdict

Next == Forget \/ \E k \in Keys : Report(k)

Spec == Init /\ [][Next]_vars
=============================================================================
