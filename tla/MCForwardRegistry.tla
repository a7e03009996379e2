-------------------------- MODULE MCForwardRegistry --------------------------
(***************************************************************************)
(* An instance of the registry, or one of what a write turned out to do.   *)
(* They share nothing but the cluster behind them, which neither models    *)
(* for the other: a run takes either, and the other rests.                 *)
(***************************************************************************)
EXTENDS ForwardRegistry, TLC

CONSTANT MaxGeneration

VARIABLES part, spec, templates, sets, pods, reported, write, tracker, read, held

D == INSTANCE DeploymentOutcome WITH status <- reported

outcome == <<spec, templates, sets, pods, reported, write, tracker, read, held>>

MCInit == part \in {"forwards", "outcome"} /\ Init /\ D!Init

\* The cluster comes to rest after the verdict; the registry never does, unless it is stuck.
MCNext ==
    \/ part = "forwards" /\ Next /\ UNCHANGED <<part, outcome>>
    \/ part = "outcome" /\ (D!Next \/ UNCHANGED outcome) /\ UNCHANGED <<part, vars>>
MCSpec == MCInit /\ [][MCNext]_<<part, vars, outcome>>

VerdictIsTrue == D!VerdictIsTrue

\* The threads of the pool are interchangeable.
WorkerSymmetry == Permutations(Workers)
=============================================================================
