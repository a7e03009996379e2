-------------------------- MODULE ProposalLifecycle --------------------------
(***************************************************************************)
(* What tools/proposals.py promises about external write proposals: each   *)
(* is queued once, at most one is claimed at a time, only a claimed one is *)
(* executed, a claim can only be finished, and an outcome never changes    *)
(* until it is forgotten.                                                  *)
(***************************************************************************)
CONSTANT Ids

VARIABLE fate

Withdrawn == {"failed", "denied", "expired", "cancelled"}

\* Whether a proposal may go from one state to the other.
CanMove(from, to) ==
    \/ from = "none"     /\ to = "pending"
    \/ from = "pending"  /\ to \in {"approved", "gone"} \union Withdrawn
    \/ from = "approved" /\ to \in {"executed", "failed"}
    \/ from \in {"executed"} \union Withdrawn /\ to = "gone"

Init == fate = [p \in Ids |-> "none"]

Claimed == {p \in Ids : fate[p] # "approved" /\ fate'[p] = "approved"}

Next ==
    /\ \A p \in Ids : fate'[p] = fate[p] \/ CanMove(fate[p], fate'[p])
    /\ \A p, q \in Claimed : p = q

Spec == Init /\ [][Next]_fate
=============================================================================
