------------------------------ MODULE MCTrails ------------------------------
(***************************************************************************)
(* An instance of the log under several sessions, or one of the forwards'  *)
(* queue in front of it.  They meet in one call only, append, which stamps *)
(* the context it finds; so a run takes either one, and the other rests.   *)
(***************************************************************************)
EXTENDS AuditLog

CONSTANTS Forwards, MaxAgain, MaxSwitches

ASSUME ForwardsAssumption == IsFiniteSet(Forwards) /\ MaxAgain \in Nat

VARIABLES part, work, wanted, confirm, awaited, current, listed, status, gen, shut, closing,
          deferred, stopper, queue, drain, pen, log, app, ctl, switching, epochs, stopped,
          forsaken, stray, late

F == INSTANCE ForwardAudits WITH context <- epochs

forwards == <<work, wanted, confirm, awaited, current, listed, status, gen, shut, closing,
              deferred, stopper, queue, drain, pen, log, app, ctl, switching, epochs, stopped,
              forsaken, stray, late>>

MCInit == part \in {"log", "forwards"} /\ Init /\ F!Init
MCNext ==
    \/ part = "log" /\ Next /\ UNCHANGED <<part, forwards>>
    \/ part = "forwards" /\ F!Next /\ UNCHANGED <<part, vars>>
MCSpec == MCInit /\ [][MCNext]_<<part, vars, forwards>>

StopsAreAudited      == F!StopsAreAudited
EntryNamesItsCluster == F!EntryNamesItsCluster

\* The processes are interchangeable.
SessionSymmetry == Permutations(Sessions)
=============================================================================
