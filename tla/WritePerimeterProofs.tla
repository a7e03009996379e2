------------------------ MODULE WritePerimeterProofs ------------------------
(***************************************************************************)
(* Theorems of WritePerimeter, for every set of flows and of contexts.     *)
(***************************************************************************)
EXTENDS WritePerimeter, TLAPS

(***************************************************************************)
(* The inductive invariant.  What has to be carried from step to step is   *)
(* not in the properties: which phases imply that the captured epoch is    *)
(* current, and that a committed switch excludes exactly those phases.     *)
(***************************************************************************)
\* A flow that no recheck stands in front of any more.
Binding(f) ==
    \/ pc[f] \in Modal \union Reserved \union {"approved"}
    \/ f \in Agent /\ pc[f] # "idle"

FlagInv      == switching <=> sw # "idle"
KindInv      == \A f \in Flows : pc[f] \in {"surface", "approved"} => f \in Agent
InflightInv  == \A f \in Flows : f \in inflight <=> pc[f] \in Reserved
CommittedInv == sw \in Committed => \A f \in Flows : ~Binding(f)
SeenInv      == \A f \in Flows : pc[f] # "idle" =>
                    seen[f] <= epoch /\ (seen[f] = epoch => target[f] = session)
CurrentInv   == \A f \in Flows : Binding(f) => seen[f] = epoch
ClientInv    == ~SwapFailsAfter => client = session \/ sw = "reprobe"
GoalInv      == (sw = "reprobe" => client = goal)
                  /\ (sw = "reprobeOld" => client = session)
AuditInv     == \A f \in Flows :
                    /\ pc[f] \in {"op", "outcome"} => intent[f] = target[f]
                    /\ pc[f] \notin {"op", "outcome"} => landed[f] = None
                    /\ ~SwapFailsAfter /\ landed[f] # None => landed[f] = target[f]

Inv == /\ TypeOK /\ FlagInv /\ KindInv /\ InflightInv /\ CommittedInv
       /\ SeenInv /\ CurrentInv /\ ClientInv /\ GoalInv /\ AuditInv

-----------------------------------------------------------------------------
(* The initial states.                                                     *)

\* The initial states satisfy the inductive invariant.
LEMMA InitInv == Init => Inv
  <1> SUFFICES ASSUME Init PROVE Inv
    OBVIOUS
  <1>1. TypeOK
    BY DEF Init, TypeOK, Phases, Gaps, Modal, Reserved, SwitchSteps
  <1>2. FlagInv /\ CommittedInv /\ ClientInv /\ GoalInv
    BY DEF Init, FlagInv, CommittedInv, ClientInv, GoalInv, Committed
  <1>3. KindInv /\ InflightInv /\ SeenInv /\ CurrentInv
    BY DEF Init, KindInv, InflightInv, SeenInv, CurrentInv, Binding,
           Modal, Reserved
  <1>4. AuditInv
    BY DEF Init, AuditInv
  <1>5. QED
    BY <1>1, <1>2, <1>3, <1>4 DEF Inv

-----------------------------------------------------------------------------
(* Steps of a flow.                                                        *)

\* A step of a write flow, from its first keypress to the release of its
\* reservation, preserves the inductive invariant.
LEMMA FlowStepInv ==
  ASSUME Inv, NEW f \in Flows, FlowStep(f)
  PROVE  Inv'
  <1>1. CASE KeyPress(f)
    BY <1>1, NoneAssumption, KindsAssumption
    DEF KeyPress, Begin, Goto, ClearScreen, Inv, TypeOK, FlagInv, KindInv, InflightInv, CommittedInv, SeenInv, CurrentInv, ClientInv, GoalInv, AuditInv, Binding,
        Phases, Gaps, Modal, Reserved, SwitchSteps, Committed, switchVars, Flows, Keyed
  <1>2. CASE AgentTurn(f)
    BY <1>2, NoneAssumption, KindsAssumption
    DEF AgentTurn, Begin, Goto, Busy, Inv, TypeOK, FlagInv, KindInv, InflightInv, CommittedInv, SeenInv, CurrentInv, ClientInv, GoalInv, AuditInv, Binding,
        Phases, Gaps, Modal, Reserved, SwitchSteps, Committed, switchVars, Flows, Keyed
  <1>3. ASSUME NEW p \in Phases, Proceed(f, p)
       PROVE  Inv'
    BY <1>3, NoneAssumption, KindsAssumption
    DEF Proceed, Script, Intact, Crossed, ClearScreen, Goto, Keyed, Inv, TypeOK, FlagInv, KindInv, InflightInv, CommittedInv, SeenInv, CurrentInv, ClientInv, GoalInv, AuditInv, Binding,
        Phases, Gaps, Modal, Reserved, SwitchSteps, Committed, switchVars, Flows, Keyed
  <1>4. CASE Refuse(f)
    BY <1>4, NoneAssumption, KindsAssumption
    DEF Refuse, End, Goto, Keyed, Inv, TypeOK, FlagInv, KindInv, InflightInv, CommittedInv, SeenInv, CurrentInv, ClientInv, GoalInv, AuditInv, Binding,
        Phases, Gaps, Modal, Reserved, SwitchSteps, Committed, switchVars, Flows, Keyed
  <1>5. CASE AnswerPrompt(f)
    BY <1>5, NoneAssumption, KindsAssumption
    DEF AnswerPrompt, Goto, Inv, TypeOK, FlagInv, KindInv, InflightInv, CommittedInv, SeenInv, CurrentInv, ClientInv, GoalInv, AuditInv, Binding,
        Phases, Gaps, Modal, Reserved, SwitchSteps, Committed, switchVars, Flows, Keyed
  <1>6. CASE AgentPrepared(f)
    BY <1>6, NoneAssumption, KindsAssumption
    DEF AgentPrepared, Goto, Inv, TypeOK, FlagInv, KindInv, InflightInv, CommittedInv, SeenInv, CurrentInv, ClientInv, GoalInv, AuditInv, Binding,
        Phases, Gaps, Modal, Reserved, SwitchSteps, Committed, switchVars, Flows, Keyed
  <1>7. CASE Surface(f)
    BY <1>7, NoneAssumption, KindsAssumption
    DEF Surface, Goto, Inv, TypeOK, FlagInv, KindInv, InflightInv, CommittedInv, SeenInv, CurrentInv, ClientInv, GoalInv, AuditInv, Binding,
        Phases, Gaps, Modal, Reserved, SwitchSteps, Committed, switchVars, Flows, Keyed
  <1>8. CASE Decline(f)
    BY <1>8, NoneAssumption, KindsAssumption
    DEF Decline, End, Goto, Inv, TypeOK, FlagInv, KindInv, InflightInv, CommittedInv, SeenInv, CurrentInv, ClientInv, GoalInv, AuditInv, Binding,
        Phases, Gaps, Modal, Reserved, SwitchSteps, Committed, switchVars, Flows, Keyed
  <1>9. CASE Approve(f)
    BY <1>9, NoneAssumption, KindsAssumption
    DEF Approve, Reserve, Goto, Crossed, Inv, TypeOK, FlagInv, KindInv, InflightInv, CommittedInv, SeenInv, CurrentInv, ClientInv, GoalInv, AuditInv, Binding,
        Phases, Gaps, Modal, Reserved, SwitchSteps, Committed, switchVars, Flows, Keyed
  <1>10. CASE Guard(f)
    BY <1>10, NoneAssumption, KindsAssumption
    DEF Guard, Intact, Crossed, Reserve, End, Goto, Inv, TypeOK, FlagInv, KindInv, InflightInv, CommittedInv, SeenInv, CurrentInv, ClientInv, GoalInv, AuditInv, Binding,
        Phases, Gaps, Modal, Reserved, SwitchSteps, Committed, switchVars, Flows, Keyed
  <1>11. CASE AgentRun(f)
    BY <1>11, NoneAssumption, KindsAssumption
    DEF AgentRun, Reserve, End, Goto, Inv, TypeOK, FlagInv, KindInv, InflightInv, CommittedInv, SeenInv, CurrentInv, ClientInv, GoalInv, AuditInv, Binding,
        Phases, Gaps, Modal, Reserved, SwitchSteps, Committed, switchVars, Flows, Keyed
  <1>12. CASE StartWrite(f)
    BY <1>12, NoneAssumption, KindsAssumption
    DEF StartWrite, End, Goto, Inv, TypeOK, FlagInv, KindInv, InflightInv, CommittedInv, SeenInv, CurrentInv, ClientInv, GoalInv, AuditInv, Binding,
        Phases, Gaps, Modal, Reserved, SwitchSteps, Committed, switchVars, Flows, Keyed
  <1>13. CASE AuditIntent(f)
    BY <1>13, NoneAssumption, KindsAssumption
    DEF AuditIntent, End, Goto, Inv, TypeOK, FlagInv, KindInv, InflightInv, CommittedInv, SeenInv, CurrentInv, ClientInv, GoalInv, AuditInv, Binding,
        Phases, Gaps, Modal, Reserved, SwitchSteps, Committed, switchVars, Flows, Keyed
  <1>14. CASE Land(f)
    BY <1>14, NoneAssumption, KindsAssumption
    DEF Land, Inv, TypeOK, FlagInv, KindInv, InflightInv, CommittedInv, SeenInv, CurrentInv, ClientInv, GoalInv, AuditInv, Binding,
        Phases, Gaps, Modal, Reserved, SwitchSteps, Committed, switchVars, Flows, Keyed
  <1>15. CASE OpReturns(f)
    BY <1>15, NoneAssumption, KindsAssumption
    DEF OpReturns, Goto, Inv, TypeOK, FlagInv, KindInv, InflightInv, CommittedInv, SeenInv, CurrentInv, ClientInv, GoalInv, AuditInv, Binding,
        Phases, Gaps, Modal, Reserved, SwitchSteps, Committed, switchVars, Flows, Keyed
  <1>16. CASE AuditOutcome(f)
    BY <1>16, NoneAssumption, KindsAssumption
    DEF AuditOutcome, End, Goto, Inv, TypeOK, FlagInv, KindInv, InflightInv, CommittedInv, SeenInv, CurrentInv, ClientInv, GoalInv, AuditInv, Binding,
        Phases, Gaps, Modal, Reserved, SwitchSteps, Committed, switchVars, Flows, Keyed
  <1>17. CASE CancelWorker(f)
    BY <1>17, NoneAssumption, KindsAssumption
    DEF CancelWorker, End, Goto, Inv, TypeOK, FlagInv, KindInv, InflightInv, CommittedInv, SeenInv, CurrentInv, ClientInv, GoalInv, AuditInv, Binding,
        Phases, Gaps, Modal, Reserved, SwitchSteps, Committed, switchVars, Flows, Keyed
  <1>18. QED
    BY <1>1, <1>2, <1>3, <1>4, <1>5, <1>6, <1>7, <1>8, <1>9, <1>10, <1>11, <1>12, <1>13, <1>14, <1>15, <1>16, <1>17 DEF FlowStep

-----------------------------------------------------------------------------
(* Steps of the switch.                                                    *)

\* Claiming the switch from the picker, before any await, preserves it.
LEMMA ClaimInv ==
  ASSUME Inv, NEW c \in Clusters, ClaimSwitch(c)
  PROVE  Inv'
  BY DEF ClaimSwitch, SwitchTo, Unmoved, flowVars, Inv, TypeOK, FlagInv, KindInv, InflightInv, CommittedInv,
         SeenInv, CurrentInv, ClientInv, GoalInv, AuditInv, Binding,
         Phases, SwitchSteps, Committed

\* So does every later step of a switch: the guards, the lock, the teardown, the
\* two attempts to load a kubeconfig and to adopt its cluster, the resumption.
LEMMA SwitchStepInv ==
  ASSUME Inv, SwitchStep
  PROVE  Inv'
  <1>1. CASE NoopOrGuarded
    BY <1>1, SwitchAssumption
    DEF NoopOrGuarded, EndSwitch, SwitchTo, Unmoved, flowVars,
         Inv, TypeOK, FlagInv, KindInv, InflightInv, CommittedInv,
         SeenInv, CurrentInv, ClientInv, GoalInv, AuditInv, Binding,
         Phases, Gaps, Modal, Reserved, SwitchSteps, Committed
  <1>2. CASE Listed
    BY <1>2, SwitchAssumption
    DEF Listed, EndSwitch, SwitchTo, Unmoved, flowVars,
         Inv, TypeOK, FlagInv, KindInv, InflightInv, CommittedInv,
         SeenInv, CurrentInv, ClientInv, GoalInv, AuditInv, Binding,
         Phases, Gaps, Modal, Reserved, SwitchSteps, Committed
  <1>3. CASE Probed
    BY <1>3, SwitchAssumption
    DEF Probed, EndSwitch, SwitchTo, Unmoved, flowVars,
         Inv, TypeOK, FlagInv, KindInv, InflightInv, CommittedInv,
         SeenInv, CurrentInv, ClientInv, GoalInv, AuditInv, Binding,
         Phases, Gaps, Modal, Reserved, SwitchSteps, Committed
  <1>4. CASE Lock
    BY <1>4, SwitchAssumption
    DEF Lock, EndSwitch, Blocked, Busy, ClearScreen, SwitchTo, Unmoved, flowVars,
         Inv, TypeOK, FlagInv, KindInv, InflightInv, CommittedInv,
         SeenInv, CurrentInv, ClientInv, GoalInv, AuditInv, Binding,
         Phases, Gaps, Modal, Reserved, SwitchSteps, Committed
  <1>5. CASE Quiesce
    BY <1>5, SwitchAssumption
    DEF Quiesce, EndSwitch, SwitchTo, Unmoved, flowVars,
         Inv, TypeOK, FlagInv, KindInv, InflightInv, CommittedInv,
         SeenInv, CurrentInv, ClientInv, GoalInv, AuditInv, Binding,
         Phases, Gaps, Modal, Reserved, SwitchSteps, Committed
  <1>6. CASE TearDown
    BY <1>6, SwitchAssumption
    DEF TearDown, EndSwitch, SwitchTo, Unmoved, flowVars,
         Inv, TypeOK, FlagInv, KindInv, InflightInv, CommittedInv,
         SeenInv, CurrentInv, ClientInv, GoalInv, AuditInv, Binding,
         Phases, Gaps, Modal, Reserved, SwitchSteps, Committed
  <1>7. CASE LoadTarget
    BY <1>7, SwitchAssumption
    DEF LoadTarget, SwitchTo, Unmoved, flowVars,
         Inv, TypeOK, FlagInv, KindInv, InflightInv, CommittedInv,
         SeenInv, CurrentInv, ClientInv, GoalInv, AuditInv, Binding,
         Phases, Gaps, Modal, Reserved, SwitchSteps, Committed
  <1>8. CASE ApplyTarget
    <2>1. CASE Adopt(goal) /\ SwitchTo("resume")
      <3>1. sw = "reprobe" /\ sw' = "resume" /\ epoch' = epoch + 1 /\ session' = client
            /\ UNCHANGED <<switching, client, goal, navLock, overlay, flowVars>>
        BY <1>8, <2>1 DEF ApplyTarget, Adopt, SwitchTo, Inv, GoalInv, EndSwitch
      <3>2. TypeOK'
        <4>1. record' \in {"none", "started", "failed", "completed"} /\ stranded' \in BOOLEAN
          BY <1>8, <2>1 DEF ApplyTarget, Adopt, Inv, TypeOK
        <4>2. epoch + 1 \in Nat /\ "resume" \in SwitchSteps
          BY DEF Inv, TypeOK, SwitchSteps
        <4>3. QED
          BY <3>1, <4>1, <4>2 DEF Inv, TypeOK, flowVars
      <3>3. \A f \in Flows : ~Binding(f) /\ Binding(f)' = Binding(f)
        BY <3>1 DEF Inv, CommittedInv, Committed, flowVars, Binding
      <3>4. SeenInv'
        BY <3>1 DEF Inv, TypeOK, SeenInv, flowVars
      <3>5. (FlagInv /\ KindInv /\ InflightInv /\ AuditInv)'
        BY <3>1 DEF Inv, FlagInv, KindInv, InflightInv, AuditInv, flowVars
      <3>6. (CommittedInv /\ CurrentInv)'
        BY <3>3 DEF CommittedInv, CurrentInv
      <3>7. (ClientInv /\ GoalInv)'
        BY <3>1 DEF ClientInv, GoalInv
      <3>8. QED
        BY <3>2, <3>4, <3>5, <3>6, <3>7 DEF Inv
    <2>2. CASE SwapFailsAfter /\ SwitchTo("restore") /\ record' = "failed"
               /\ Unmoved /\ UNCHANGED stranded
      BY <1>8, <2>2
      DEF ApplyTarget, SwitchTo, Unmoved, flowVars,
         Inv, TypeOK, FlagInv, KindInv, InflightInv, CommittedInv,
         SeenInv, CurrentInv, ClientInv, GoalInv, AuditInv, Binding,
         Phases, Gaps, Modal, Reserved, SwitchSteps, Committed
    <2>3. QED
      BY <1>8, <2>1, <2>2 DEF ApplyTarget
  <1>9. CASE LoadOld
    BY <1>9, SwitchAssumption
    DEF LoadOld, EndSwitch, SwitchTo, Unmoved, flowVars,
         Inv, TypeOK, FlagInv, KindInv, InflightInv, CommittedInv,
         SeenInv, CurrentInv, ClientInv, GoalInv, AuditInv, Binding,
         Phases, Gaps, Modal, Reserved, SwitchSteps, Committed
  <1>10. CASE ApplyOld
    <2>1. CASE Adopt(session) /\ SwitchTo("resume")
      <3>1. sw = "reprobeOld" /\ sw' = "resume" /\ epoch' = epoch + 1 /\ session' = client
            /\ UNCHANGED <<switching, client, goal, navLock, overlay, flowVars>>
        BY <1>10, <2>1 DEF ApplyOld, Adopt, SwitchTo, Inv, GoalInv, EndSwitch
      <3>2. TypeOK'
        <4>1. record' \in {"none", "started", "failed", "completed"} /\ stranded' \in BOOLEAN
          BY <1>10, <2>1 DEF ApplyOld, Adopt, Inv, TypeOK
        <4>2. epoch + 1 \in Nat /\ "resume" \in SwitchSteps
          BY DEF Inv, TypeOK, SwitchSteps
        <4>3. QED
          BY <3>1, <4>1, <4>2 DEF Inv, TypeOK, flowVars
      <3>3. \A f \in Flows : ~Binding(f) /\ Binding(f)' = Binding(f)
        BY <3>1 DEF Inv, CommittedInv, Committed, flowVars, Binding
      <3>4. SeenInv'
        BY <3>1 DEF Inv, TypeOK, SeenInv, flowVars
      <3>5. (FlagInv /\ KindInv /\ InflightInv /\ AuditInv)'
        BY <3>1 DEF Inv, FlagInv, KindInv, InflightInv, AuditInv, flowVars
      <3>6. (CommittedInv /\ CurrentInv)'
        BY <3>3 DEF CommittedInv, CurrentInv
      <3>7. (ClientInv /\ GoalInv)'
        BY <3>1 DEF ClientInv, GoalInv
      <3>8. QED
        BY <3>2, <3>4, <3>5, <3>6, <3>7 DEF Inv
    <2>2. CASE SwapFailsAfter /\ EndSwitch /\ stranded' = TRUE /\ Unmoved
      BY <1>10, <2>2
      DEF ApplyOld, EndSwitch, SwitchTo, Unmoved, flowVars,
         Inv, TypeOK, FlagInv, KindInv, InflightInv, CommittedInv,
         SeenInv, CurrentInv, ClientInv, GoalInv, AuditInv, Binding,
         Phases, Gaps, Modal, Reserved, SwitchSteps, Committed
    <2>3. QED
      BY <1>10, <2>1, <2>2 DEF ApplyOld
  <1>11. CASE Resume
    BY <1>11, SwitchAssumption
    DEF Resume, EndSwitch, SwitchTo, Unmoved, flowVars,
         Inv, TypeOK, FlagInv, KindInv, InflightInv, CommittedInv,
         SeenInv, CurrentInv, ClientInv, GoalInv, AuditInv, Binding,
         Phases, Gaps, Modal, Reserved, SwitchSteps, Committed
  <1>12. QED
    BY <1>1, <1>2, <1>3, <1>4, <1>5, <1>6, <1>7, <1>8, <1>9, <1>10, <1>11 DEF SwitchStep

-----------------------------------------------------------------------------
(* The rest of Next, and the theorems.                                     *)

\* Other holders of nav_lock, and overlays, do not disturb it.
LEMMA OtherStepInv ==
  ASSUME Inv, OtherTakesLock \/ OtherDropsLock \/ OpenOverlay \/ CloseOverlay
              \/ UNCHANGED vars
  PROVE  Inv'
  <1>1. /\ UNCHANGED <<switchVars, flowVars>>
        /\ navLock' \in {"free", "switch", "other"} /\ overlay' \in BOOLEAN
    BY DEF OtherTakesLock, OtherDropsLock, OpenOverlay, CloseOverlay, vars,
           Inv, TypeOK
  <1>2. TypeOK'
    BY <1>1 DEF Inv, TypeOK, switchVars, flowVars
  <1>3. QED
    BY <1>1, <1>2
    DEF Inv, TypeOK, FlagInv, KindInv, InflightInv, CommittedInv,
         SeenInv, CurrentInv, ClientInv, GoalInv, AuditInv, Binding, switchVars, flowVars

\* Every step preserves the inductive invariant.
LEMMA StepInv == Inv /\ [Next]_vars => Inv'
  BY FlowStepInv, ClaimInv, SwitchStepInv, OtherStepInv DEF Next

\* The inductive invariant holds in every reachable state.
THEOREM Invariance == Spec => []Inv
  BY InitInv, StepInv, PTL DEF Spec

\* Type correctness.
THEOREM TypeCorrect == Spec => []TypeOK
  BY Invariance, PTL DEF Inv

\* From its recheck under nav_lock on, a switch is alone with the session: no
\* reserved write, no open approval dialog, no agent turn.
THEOREM SwitchAlone == Spec => []CommittedAlone
  <1>1. Inv => CommittedAlone
    BY DEF Inv, TypeOK, InflightInv, CommittedInv, CommittedAlone, Binding, Busy,
           Flows
  <1>2. QED
    BY <1>1, Invariance, PTL

\* The client, the session identity and the epoch stand still while a write is
\* reserved.
THEOREM ClusterHeld == Spec => ClusterHeldByWrites
  <1>1. Inv /\ [Next]_vars => (inflight # {} => UNCHANGED <<client, session, epoch>>)
    <2> SUFFICES ASSUME Inv, [Next]_vars, inflight # {}
                 PROVE  UNCHANGED <<client, session, epoch>>
      OBVIOUS
    <2>1. sw \notin Committed
      BY DEF Inv, TypeOK, InflightInv, CommittedInv, Binding
    <2>2. ASSUME NEW f \in Flows, FlowStep(f)
          PROVE  UNCHANGED <<client, session, epoch>>
      BY <2>2 DEF FlowStep, KeyPress, AgentTurn, Begin, Proceed, Refuse,
         AnswerPrompt, AgentPrepared, Surface, Decline, Approve, Guard, AgentRun,
         StartWrite, AuditIntent, Land, OpReturns, AuditOutcome, CancelWorker,
         switchVars
    <2>3. ASSUME NEW c \in Clusters, ClaimSwitch(c)
          PROVE  UNCHANGED <<client, session, epoch>>
      BY <2>3 DEF ClaimSwitch, Unmoved
    <2>4. CASE SwitchStep
      BY <2>1, <2>4 DEF SwitchStep, NoopOrGuarded, Listed, Probed, Lock, Quiesce,
         TearDown, LoadTarget, ApplyTarget, LoadOld, ApplyOld, Resume, Unmoved,
         Committed
    <2>5. QED
      BY <2>2, <2>3, <2>4 DEF Next, OtherTakesLock, OtherDropsLock, OpenOverlay,
         CloseOverlay, vars, switchVars
  <1>2. QED
    BY <1>1, Invariance, PTL DEF Spec, ClusterHeldByWrites

\* When a failed attempt leaves the client alone, every mutation reaches the
\* cluster its user acted on.
THEOREM LandsRight == ASSUME ~SwapFailsAfter PROVE Spec => []LandsWhereApproved
  <1>1. Inv => LandsWhereApproved
    BY DEF Inv, AuditInv, LandsWhereApproved
  <1>2. QED
    BY <1>1, Invariance, PTL

\* Under the same assumption its persisted intent, and the session whose context
\* the outcome record will carry, name that cluster.
THEOREM AuditedRight == ASSUME ~SwapFailsAfter PROVE Spec => []AuditedAsItsCluster
  <1>1. Inv => AuditedAsItsCluster
    <2> SUFFICES ASSUME Inv, NEW f \in Flows, landed[f] # None
                 PROVE  intent[f] = landed[f] /\ session = landed[f]
      BY DEF AuditedAsItsCluster
    <2>1. pc[f] \in {"op", "outcome"} /\ landed[f] = target[f]
      BY DEF Inv, AuditInv
    <2>2. seen[f] = epoch /\ target[f] = session
      BY <2>1 DEF Inv, SeenInv, CurrentInv, Binding, Reserved
    <2>3. QED
      BY <2>1, <2>2 DEF Inv, AuditInv
  <1>2. QED
    BY <1>1, Invariance, PTL

\* And outside a switch the client is where the session says it is.
THEOREM Coherent == ASSUME ~SwapFailsAfter PROVE Spec => []CoherentAtRest
  <1>1. Inv => CoherentAtRest
    BY DEF Inv, FlagInv, ClientInv, CoherentAtRest
  <1>2. QED
    BY <1>1, Invariance, PTL

-----------------------------------------------------------------------------
(* The timeline of a switch.                                               *)

\* While a switch is under way and `started` its last word, it has not failed yet.
RecordInv == switching /\ record = "started" =>
                 sw \in {"probe", "lock", "quiesce", "drain", "expire", "teardown", "load", "reprobe"}

\* Unless a teardown step raises, a switch leaves a terminal record behind its
\* `started` (ContextSwitchCoordinator._record).
THEOREM StartedGetsClosed == Spec => StartedIsClosed
  <1> DEFINE Closes == switching /\ ~switching' /\ record' = "started" => sw = "teardown"
  <1>1. Init => RecordInv
    BY DEF Init, RecordInv
  <1>2. Inv /\ RecordInv /\ [Next]_vars => RecordInv' /\ Closes
    <2> SUFFICES ASSUME Inv, RecordInv, [Next]_vars PROVE RecordInv' /\ Closes
      OBVIOUS
    <2>1. ASSUME UNCHANGED <<record, sw, switching>>
          PROVE  RecordInv' /\ Closes
      BY <2>1 DEF RecordInv
    <2>2. ASSUME NEW f \in Flows, FlowStep(f)
          PROVE  UNCHANGED <<record, sw, switching>>
      BY <2>2 DEF FlowStep, KeyPress, AgentTurn, Begin, Proceed, Refuse,
         AnswerPrompt, AgentPrepared, Surface, Decline, Approve, Guard, AgentRun,
         StartWrite, AuditIntent, Land, OpReturns, AuditOutcome, CancelWorker,
         switchVars
    <2>3. ASSUME NEW c \in Clusters, ClaimSwitch(c)
          PROVE  RecordInv' /\ Closes
      BY <2>3 DEF ClaimSwitch, RecordInv
    <2>4. CASE NoopOrGuarded \/ Listed \/ Probed \/ Lock
      BY <2>4 DEF NoopOrGuarded, Listed, Probed, Lock, EndSwitch, SwitchTo, RecordInv
    <2>5. CASE Quiesce \/ TearDown
      BY <2>5 DEF Quiesce, TearDown, EndSwitch, SwitchTo, RecordInv
    <2>6. CASE LoadTarget \/ ApplyTarget \/ LoadOld \/ ApplyOld \/ Resume
      BY <2>6 DEF LoadTarget, ApplyTarget, LoadOld, ApplyOld, Resume, EndSwitch, SwitchTo, RecordInv
    <2>7. CASE OtherTakesLock \/ OtherDropsLock \/ OpenOverlay \/ CloseOverlay \/ UNCHANGED vars
      BY <2>1, <2>7 DEF OtherTakesLock, OtherDropsLock, OpenOverlay, CloseOverlay, vars, switchVars
    <2>8. QED
      BY <2>1, <2>2, <2>3, <2>4, <2>5, <2>6, <2>7 DEF Next, SwitchStep
  <1>3. Inv /\ RecordInv /\ [Next]_vars => [Closes]_vars
    BY <1>2
  <1>4. QED
    BY <1>1, <1>2, <1>3, Invariance, PTL DEF Spec, StartedIsClosed

-----------------------------------------------------------------------------
(* The refinement of ApprovedWrite, flow by flow.                          *)

Place(f)   == IF f \in inflight THEN target[f] ELSE None
Reached(f) == IF f \in inflight THEN landed[f] ELSE None

\* What a step leaves of a flow, seen from outside.
Same(f) == Stage(f)' = Stage(f) /\ Place(f)' = Place(f) /\ Reached(f)' = Reached(f)

\* A flow is under way, from outside, exactly while it is reserved.
LEMMA StageOf ==
  ASSUME Inv, NEW f \in Flows
  PROVE  /\ pc[f] \in Phases /\ (f \in inflight <=> Stage(f) # "none")
         /\ Stage(f) \in {"none", "approved", "recorded"}
         /\ landed[f] # None => Stage(f) = "recorded"
  BY DEF Inv, TypeOK, InflightInv, AuditInv, Stage, Reserved

\* What another flow does, it does not see.
LEMMA OthersStay ==
  ASSUME Inv, NEW f \in Flows, FlowStep(f), NEW g \in Flows, g # f
  PROVE  Same(g)
  <1>1. /\ pc \in [Flows -> Phases] /\ inflight \in SUBSET Flows
        /\ target \in [Flows -> Clusters \union {None}] /\ landed \in [Flows -> Clusters \union {None}]
    BY DEF Inv, TypeOK
  <1>2. pc'[g] = pc[g]
    BY <1>1 DEF FlowStep, KeyPress, AgentTurn, Begin, Proceed, Refuse, AnswerPrompt, AgentPrepared,
       Surface, Decline, Approve, Guard, AgentRun, StartWrite, AuditIntent, Land, OpReturns,
       AuditOutcome, CancelWorker, Reserve, End, Goto
  <1>3. target'[g] = target[g] /\ landed'[g] = landed[g]
    BY <1>1 DEF FlowStep, KeyPress, AgentTurn, Begin, Proceed, Refuse, AnswerPrompt, AgentPrepared,
       Surface, Decline, Approve, Guard, AgentRun, StartWrite, AuditIntent, Land, OpReturns,
       AuditOutcome, CancelWorker, Reserve, End
  <1>4. g \in inflight' <=> g \in inflight
    BY <1>1 DEF FlowStep, KeyPress, AgentTurn, Begin, Proceed, Refuse, AnswerPrompt, AgentPrepared,
       Surface, Decline, Approve, Guard, AgentRun, StartWrite, AuditIntent, Land, OpReturns,
       AuditOutcome, CancelWorker, Reserve, End
  <1>5. QED
    BY <1>2, <1>3, <1>4 DEF Same, Stage, Place, Reached

\* A flow gets its reservation on the cluster the client reaches.
LEMMA Reserves ==
  ASSUME ~SwapFailsAfter, Inv, NEW f \in Flows, Reserve(f), pc[f] \notin Reserved,
         Binding(f) \/ (pc[f] = "guard" /\ ~Crossed(seen[f]))
  PROVE  /\ Stage(f) = "none" /\ Stage(f)' = "approved"
         /\ Place(f)' = client /\ Reached(f)' = Reached(f)
  <1>1. /\ pc \in [Flows -> Phases] /\ inflight \in SUBSET Flows /\ f \notin inflight /\ pc[f] # "idle"
        /\ landed[f] = None
    BY DEF Inv, TypeOK, InflightInv, AuditInv, Reserved, Binding, Modal
  <1>2. target[f] = session
    BY <1>1 DEF Inv, SeenInv, CurrentInv, Crossed
  <1>3. client = session
    <2>1. CASE Binding(f)
      BY <2>1 DEF Inv, CommittedInv, ClientInv, Committed
    <2>2. CASE ~Crossed(seen[f])
      BY <2>2 DEF Inv, FlagInv, ClientInv, Crossed
    <2>3. QED
      BY <2>1, <2>2
  <1>4. pc'[f] = "launched" /\ f \in inflight' /\ UNCHANGED <<target, landed>>
    BY <1>1 DEF Reserve, Goto
  <1>5. QED
    BY <1>1, <1>2, <1>3, <1>4 DEF Stage, Place, Reached, Reserved

\* A flow that ends is gone.
LEMMA EndsFlow ==
  ASSUME Inv, NEW f \in Flows, End(f)
  PROVE  Stage(f)' = "none" /\ Place(f)' = None /\ Reached(f)' = None
  BY DEF Inv, TypeOK, End, Goto, Stage, Place, Reached

\* From outside, a step of a flow is one of the abstract steps, or none.
LEMMA FlowRefines ==
  ASSUME ~SwapFailsAfter, Inv, NEW f \in Flows, FlowStep(f)
  PROVE  \/ Same(f)
         \/ /\ Stage(f) = "none" /\ Stage(f)' = "approved"
            /\ Place(f)' = client /\ Reached(f)' = Reached(f)
         \/ /\ Stage(f) = "approved" /\ Stage(f)' = "recorded"
            /\ Place(f)' = Place(f) /\ Reached(f)' = Reached(f)
         \/ /\ Stage(f) = "recorded" /\ Stage(f)' = Stage(f) /\ Place(f) = client
            /\ Place(f)' = Place(f) /\ Reached(f) = None /\ Reached(f)' = client
         \/ /\ Stage(f) # "none" /\ Stage(f)' = "none" /\ Place(f)' = None /\ Reached(f)' = None
  <1>1. /\ pc \in [Flows -> Phases] /\ inflight \in SUBSET Flows /\ pc[f] \in Phases
        /\ target \in [Flows -> Clusters \union {None}] /\ landed \in [Flows -> Clusters \union {None}]
        /\ (f \in inflight <=> pc[f] \in Reserved)
    BY DEF Inv, TypeOK, InflightInv
  <1>2. ASSUME End(f)
        PROVE  \/ Same(f)
               \/ Stage(f) # "none" /\ Stage(f)' = "none" /\ Place(f)' = None /\ Reached(f)' = None
    <2>1. Stage(f)' = "none" /\ Place(f)' = None /\ Reached(f)' = None
      BY <1>2, EndsFlow
    <2>2. Stage(f) = "none" => Place(f) = None /\ Reached(f) = None
      BY StageOf DEF Place, Reached
    <2>3. QED
      BY <2>1, <2>2 DEF Same
  <1>3. ASSUME NEW p \in {"permission", "preview", "impact", "dialog", "prompt", "prompted", "surface",
                          "guard", "approved"},
               pc[f] \notin Reserved, pc'[f] = p, f \notin inflight'
        PROVE  Same(f)
    BY <1>1, <1>3 DEF Same, Stage, Place, Reached, Reserved
  <1>4. CASE KeyPress(f) \/ AgentTurn(f)
    <2>1. pc[f] = "idle" /\ pc'[f] = "permission" /\ inflight' = inflight
      BY <1>1, <1>4 DEF KeyPress, AgentTurn, Begin, Goto
    <2>2. QED
      BY <1>1, <1>3, <2>1 DEF Reserved
  <1>5. CASE \E p \in Phases : Proceed(f, p)
    <2>1. PICK p \in Phases : Proceed(f, p)
      BY <1>5
    <2>2. <<pc[f], p>> \in Script(f) /\ pc'[f] = p /\ inflight' = inflight
      BY <1>1, <2>1 DEF Proceed, Goto
    <2>3. pc[f] \in {"permission", "preview", "impact", "prompted"} /\ p \in {"preview", "impact", "dialog", "prompt"}
      BY <2>2 DEF Script
    <2>4. QED
      BY <1>1, <1>3, <2>2, <2>3 DEF Reserved
  <1>6. CASE AnswerPrompt(f) \/ AgentPrepared(f) \/ Surface(f)
    <2>1. /\ pc[f] \in {"prompt", "permission", "surface"} /\ pc'[f] \in {"prompted", "surface", "dialog"}
          /\ inflight' = inflight
      BY <1>1, <1>6 DEF AnswerPrompt, AgentPrepared, Surface, Goto
    <2>2. QED
      BY <1>1, <1>3, <2>1 DEF Reserved
  <1>7. CASE Refuse(f) \/ Decline(f) \/ AuditOutcome(f) \/ CancelWorker(f)
    BY <1>2, <1>7 DEF Refuse, Decline, AuditOutcome, CancelWorker
  <1>8. CASE Approve(f)
    <2>1. pc[f] = "dialog" /\ pc[f] \notin Reserved /\ Binding(f)
      BY <1>8 DEF Approve, Binding, Modal, Reserved
    <2>2. CASE Reserve(f)
      BY <2>1, <2>2, Reserves
    <2>3. CASE pc' = [pc EXCEPT ![f] = IF f \in Guarded THEN "guard" ELSE "approved"] /\ inflight' = inflight
      <3>1. pc'[f] \in {"guard", "approved"} /\ f \notin inflight'
        BY <1>1, <2>1, <2>3
      <3>2. QED
        BY <1>3, <2>1, <3>1
    <2>4. QED
      BY <1>8, <2>2, <2>3 DEF Approve, Goto
  <1>9. CASE Guard(f)
    <2>1. pc[f] = "guard" /\ pc[f] \notin Reserved /\ (End(f) \/ (Reserve(f) /\ ~Crossed(seen[f])))
      BY <1>9 DEF Guard, Reserved, Intact
    <2>2. QED
      BY <1>2, <2>1, Reserves
  <1>10. CASE AgentRun(f)
    <2>1. pc[f] = "approved" /\ pc[f] \notin Reserved /\ Binding(f) /\ (End(f) \/ Reserve(f))
      BY <1>10 DEF AgentRun, Reserved, Binding
    <2>2. QED
      BY <1>2, <2>1, Reserves
  <1>11. CASE StartWrite(f)
    <2>1. CASE pc'[f] = "intent" /\ UNCHANGED <<target, inflight, landed>>
      BY <1>1, <1>11, <2>1 DEF StartWrite, Same, Stage, Place, Reached
    <2>2. QED
      BY <1>1, <1>2, <1>11, <2>1 DEF StartWrite, Goto
  <1>12. CASE AuditIntent(f)
    <2>1. CASE pc'[f] = "op" /\ UNCHANGED <<target, inflight, landed>>
      BY <1>1, <1>12, <2>1 DEF AuditIntent, Stage, Place, Reached
    <2>2. QED
      BY <1>1, <1>2, <1>12, <2>1 DEF AuditIntent, Goto
  <1>13. CASE Land(f)
    <2>1. /\ pc[f] = "op" /\ pc' = pc /\ landed[f] = None /\ landed'[f] = client
          /\ UNCHANGED <<target, inflight>> /\ f \in inflight
      BY <1>1, <1>13 DEF Land, Reserved
    <2>2. Binding(f)
      BY <2>1 DEF Binding, Reserved
    <2>3. target[f] = client
      BY <2>1, <2>2 DEF Inv, SeenInv, CurrentInv, CommittedInv, ClientInv, Committed
    <2>4. QED
      BY <2>1, <2>3 DEF Stage, Place, Reached
  <1>14. CASE OpReturns(f)
    <2>1. pc[f] = "op" /\ pc'[f] = "outcome" /\ UNCHANGED <<target, inflight, landed>>
      BY <1>1, <1>14 DEF OpReturns, Goto
    <2>2. QED
      BY <2>1 DEF Same, Stage, Place, Reached
  <1>15. QED
    BY <1>4, <1>5, <1>6, <1>7, <1>8, <1>9, <1>10, <1>11, <1>12, <1>13, <1>14 DEF FlowStep

\* And the client is retargeted only while no write is under way.
LEMMA SwitchRefines ==
  ASSUME Inv, ~SwapFailsAfter, SwitchStep, client' # client
  PROVE  client' \in Clusters /\ \A f \in Flows : Stage(f) = "none"
  <1>1. sw \in Committed /\ client' \in Clusters
    BY DEF SwitchStep, NoopOrGuarded, Listed, Probed, Lock, Quiesce, TearDown, LoadTarget, ApplyTarget,
       LoadOld, ApplyOld, Resume, Committed, Inv, TypeOK
  <1>2. QED
    BY <1>1 DEF Inv, CommittedInv, Binding, Reserved, Stage

\* When a failed attempt leaves the client alone, the perimeter implements ApprovedWrite:
\* dialogs, locks and epochs give an approved write one cluster, from its approval to its end.
THEOREM ApprovedWriteImplemented == ASSUME ~SwapFailsAfter PROVE Spec => ImplementsApprovedWrite
  <1>1. Init => Approved!Init
    BY DEF Init, Approved!Init, Stage
  <1>2. Inv /\ [Next]_vars => [Approved!Next]_(Approved!vars)
    <2> SUFFICES ASSUME Inv, [Next]_vars PROVE [Approved!Next]_(Approved!vars)
      OBVIOUS
    <2> DEFINE stage == [f \in Flows |-> Stage(f)]
               place == [f \in Flows |-> IF f \in inflight THEN target[f] ELSE None]
               reached == [f \in Flows |-> IF f \in inflight THEN landed[f] ELSE None]
    <2>1. ASSUME client' = client, \A f \in Flows : Same(f)
          PROVE  UNCHANGED Approved!vars
      BY <2>1 DEF Approved!vars, Same, Place, Reached
    <2>2. ASSUME NEW f \in Flows, FlowStep(f)
          PROVE  [Approved!Next]_(Approved!vars)
      <3>1. client' = client
        BY <2>2 DEF FlowStep, KeyPress, AgentTurn, Begin, Proceed, Refuse,
         AnswerPrompt, AgentPrepared, Surface, Decline, Approve, Guard, AgentRun,
         StartWrite, AuditIntent, Land, OpReturns, AuditOutcome, CancelWorker,
         switchVars
      <3>2. \A g \in Flows \ {f} : Same(g)
        BY <2>2, OthersStay
      <3>3. \A g \in Flows \ {f} : stage'[g] = stage[g] /\ place'[g] = place[g] /\ reached'[g] = reached[g]
        BY <3>2 DEF Same, Place, Reached
      <3>4. CASE Same(f)
        BY <2>1, <3>1, <3>2, <3>4
      <3>5. CASE /\ Stage(f) = "none" /\ Stage(f)' = "approved"
                 /\ Place(f)' = client /\ Reached(f)' = Reached(f)
        <4>1. Approved!Approve(f)
          BY <3>1, <3>3, <3>5 DEF Approved!Approve, Place, Reached
        <4>2. QED
          BY <4>1 DEF Approved!Next
      <3>6. CASE /\ Stage(f) = "approved" /\ Stage(f)' = "recorded"
                 /\ Place(f)' = Place(f) /\ Reached(f)' = Reached(f)
        <4>1. Approved!Record(f)
          BY <3>1, <3>3, <3>6 DEF Approved!Record, Place, Reached
        <4>2. QED
          BY <4>1 DEF Approved!Next
      <3>7. CASE /\ Stage(f) = "recorded" /\ Stage(f)' = Stage(f) /\ Place(f) = client
                 /\ Place(f)' = Place(f) /\ Reached(f) = None /\ Reached(f)' = client
        <4>1. Approved!Mutate(f)
          BY <3>1, <3>3, <3>7 DEF Approved!Mutate, Place, Reached
        <4>2. QED
          BY <4>1 DEF Approved!Next
      <3>8. CASE /\ Stage(f) # "none" /\ Stage(f)' = "none" /\ Place(f)' = None /\ Reached(f)' = None
        <4>1. Approved!End(f)
          BY <3>1, <3>3, <3>8 DEF Approved!End, Place, Reached
        <4>2. QED
          BY <4>1 DEF Approved!Next
      <3>9. QED
        BY <2>2, <3>4, <3>5, <3>6, <3>7, <3>8, FlowRefines
    <2>3. ASSUME UNCHANGED flowVars
          PROVE  \A f \in Flows : Same(f)
      BY <2>3 DEF flowVars, Same, Stage, Place, Reached
    <2>4. CASE SwitchStep
      <3>1. UNCHANGED flowVars
        BY <2>4 DEF SwitchStep, NoopOrGuarded, Listed, Probed, Lock, Quiesce, TearDown, LoadTarget,
           ApplyTarget, LoadOld, ApplyOld, Resume
      <3>2. CASE client' # client
        <4>1. client' \in Clusters /\ \A f \in Flows : Stage(f) = "none"
          BY <2>4, <3>2, SwitchRefines
        <4>2. stage' = stage /\ place' = place /\ reached' = reached
          BY <2>3, <3>1 DEF Same, Place, Reached
        <4>3. Approved!Retarget(client')
          BY <4>1, <4>2 DEF Approved!Retarget
        <4>4. QED
          BY <4>1, <4>3 DEF Approved!Next
      <3>3. QED
        BY <2>1, <2>3, <3>1, <3>2
    <2>5. CASE \/ \E c \in Clusters : ClaimSwitch(c)
               \/ OtherTakesLock \/ OtherDropsLock \/ OpenOverlay \/ CloseOverlay \/ UNCHANGED vars
      <3>1. UNCHANGED <<flowVars, client>>
        BY <2>5 DEF ClaimSwitch, OtherTakesLock, OtherDropsLock, OpenOverlay, CloseOverlay, vars, switchVars
      <3>2. QED
        BY <2>1, <2>3, <3>1
    <2>6. QED
      BY <2>2, <2>4, <2>5 DEF Next
  <1>3. QED
    BY <1>1, <1>2, Invariance, PTL DEF Spec, ImplementsApprovedWrite, Approved!Spec
=============================================================================
