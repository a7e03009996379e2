---------------------------- MODULE ApprovedWrite ----------------------------
(***************************************************************************)
(* What the write perimeter promises, with no dialogs, locks or epochs: an *)
(* approved write holds the cluster it was approved on until it ends, it   *)
(* is recorded before it mutates, and it mutates that cluster only, once.  *)
(***************************************************************************)
CONSTANTS Clusters, Writes, None

VARIABLES
    cluster,  \* the cluster korvid's client reaches
    stage,    \* "none", "approved" or "recorded", per write
    place,    \* the cluster a live write was approved on
    reached   \* the cluster its mutation reached, if it did

vars == <<cluster, stage, place, reached>>

Init ==
    /\ cluster \in Clusters
    /\ stage = [w \in Writes |-> "none"]
    /\ place = [w \in Writes |-> None]
    /\ reached = [w \in Writes |-> None]

Approve(w) ==
    /\ stage[w] = "none"
    /\ stage' = [stage EXCEPT ![w] = "approved"]
    /\ place' = [place EXCEPT ![w] = cluster]
    /\ UNCHANGED <<cluster, reached>>

Record(w) ==
    /\ stage[w] = "approved"
    /\ stage' = [stage EXCEPT ![w] = "recorded"]
    /\ UNCHANGED <<cluster, place, reached>>

Mutate(w) ==
    /\ stage[w] = "recorded" /\ reached[w] = None
    /\ place[w] = cluster
    /\ reached' = [reached EXCEPT ![w] = cluster]
    /\ UNCHANGED <<cluster, stage, place>>

End(w) ==
    /\ stage[w] # "none"
    /\ stage' = [stage EXCEPT ![w] = "none"]
    /\ place' = [place EXCEPT ![w] = None]
    /\ reached' = [reached EXCEPT ![w] = None]
    /\ UNCHANGED cluster

Retarget(c) ==
    /\ \A w \in Writes : stage[w] = "none"
    /\ cluster' = c
    /\ UNCHANGED <<stage, place, reached>>

Next ==
    \/ \E w \in Writes : Approve(w) \/ Record(w) \/ Mutate(w) \/ End(w)
    \/ \E c \in Clusters : Retarget(c)

Spec == Init /\ [][Next]_vars
=============================================================================
