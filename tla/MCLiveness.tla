------------------------------ MODULE MCLiveness ------------------------------
(***************************************************************************)
(* What must happen in the end, component by component: a run takes one    *)
(* of the write perimeter, the port-forward registry and the outcome       *)
(* trackers, and the others rest.  Each is scheduled as its FairSpec says. *)
(***************************************************************************)
EXTENDS OutcomeTrackers

CONSTANTS Clusters, Plain, Guarded, Interactive, Agent, None, MaxEpoch, SwapFailsAfter, TeardownRaises
CONSTANTS Workers, Ports, Contexts, MaxChildren, MaxTeardowns

VARIABLE part
VARIABLES switching, era, identity, client, sw, goal, stranded, record, navLock, overlay, pc, seen,
          target, inflight, intent, landed
VARIABLES child, signal, where, said, reader, spawned, listed, proc, status, version, reaping,
          claimed, closed, generation, context, op, loop, closer

P == INSTANCE WritePerimeter WITH epoch <- era, session <- identity
F == INSTANCE ForwardRegistry WITH count <- spawned

perimeter == <<switching, era, identity, client, sw, goal, stranded, record, navLock, overlay, pc,
               seen, target, inflight, intent, landed>>
forwards  == <<child, signal, where, said, reader, spawned, listed, proc, status, version,
               reaping, claimed, closed, generation, context, op, loop, closer>>

Perimeter == part = "perimeter"
Forwards  == part = "forwards"
Outcomes  == part = "outcomes"

\* The clusters are interchangeable: the session may as well start on this one.
MCInit ==
    /\ part \in {"perimeter", "forwards", "outcomes"}
    /\ Init /\ F!Init
    /\ P!Init /\ identity = CHOOSE c \in Clusters : TRUE
MCNext ==
    \/ Perimeter /\ P!Next /\ UNCHANGED <<part, forwards, vars>>
    \/ Forwards /\ F!Next /\ UNCHANGED <<part, perimeter, vars>>
    \/ Outcomes /\ Next /\ UNCHANGED <<part, perimeter, forwards>>

MCFairness ==
    /\ SF_perimeter(Perimeter /\ P!Lock)
    /\ WF_perimeter(Perimeter /\ P!SwitchStep) /\ WF_perimeter(Perimeter /\ P!OtherDropsLock)
    /\ \A f \in P!Flows :
         /\ WF_perimeter(Perimeter /\ P!StartWrite(f)) /\ WF_perimeter(Perimeter /\ P!AuditIntent(f))
         /\ WF_perimeter(Perimeter /\ P!OpReturns(f)) /\ WF_perimeter(Perimeter /\ P!AuditOutcome(f))
    /\ WF_forwards(Forwards /\ F!Refresh(reaping))
    /\ \A w \in Workers : WF_forwards(Forwards /\ F!Step(w))
    /\ WF_forwards(Forwards /\ (F!Signal \/ F!Enter))
    /\ WF_forwards(Forwards /\ (F!TerminateAll \/ F!KillAll \/ F!Return))
    /\ WF_forwards(Forwards /\ F!Dies)
    /\ WF_vars(Outcomes /\ Works) /\ WF_vars(Outcomes /\ Time)
    /\ WF_vars(Outcomes /\ Unmount)

MCSpec == MCInit /\ [][MCNext]_<<part, perimeter, forwards, vars>> /\ MCFairness

NothingHangs   == P!NothingHangs
NothingLingers == F!NothingLingers
=============================================================================
