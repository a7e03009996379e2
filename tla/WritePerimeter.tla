--------------------------- MODULE WritePerimeter ---------------------------
(***************************************************************************)
(* The write perimeter of korvid: every path from a keystroke (or an agent *)
(* tool call) to a cluster mutation, composed with the `:ctx` transaction  *)
(* that retargets the one shared API client.                               *)
(*                                                                         *)
(*   ui/write_coordinator.py         gates, reservation, audited execution *)
(*   ui/resource_write_controller.py the keybinding flows                  *)
(*   ui/shell_controller.py          the interactive (kubectl) flows       *)
(*   ui/agent_ui_controller.py       writes an agent turn asks for         *)
(*   ui/context_switch_coordinator.py, k8s/client.py   the switch          *)
(*                                                                         *)
(* Everything runs on one asyncio loop, so the code between two awaits is  *)
(* one action.  What an object is, is abstracted away: a flow is known by  *)
(* the cluster its user was looking at when it began, and "the selection   *)
(* moved" is a refusal that may happen at any recheck.                     *)
(***************************************************************************)
EXTENDS Naturals, FiniteSets

CONSTANTS
    Clusters,       \* kube contexts
    Plain,          \* flows approved without a guard: delete, restart, edit
    Guarded,        \* flows with an approval_guard: scale, resize, cordon
    Interactive,    \* flows of confirm_interactive: node shell, debug
    Agent,          \* writes requested by agent turns
    None,           \* no cluster
    MaxEpoch,       \* bound: no switch is claimed at this epoch
    SwapFailsAfter, \* an attempt may also raise once the client is replaced
    TeardownRaises  \* a teardown step may raise

Keyed == Plain \union Guarded \union Interactive
Flows == Keyed \union Agent

ASSUME KindsAssumption ==
    /\ Plain \intersect (Guarded \union Interactive \union Agent) = {}
    /\ Guarded \intersect (Interactive \union Agent) = {}
    /\ Interactive \intersect Agent = {}
ASSUME NoneAssumption   == None \notin Clusters
ASSUME BoundAssumption  == MaxEpoch \in Nat
ASSUME SwitchAssumption == SwapFailsAfter \in BOOLEAN /\ TeardownRaises \in BOOLEAN

VARIABLES
    switching,  \* ContextSwitchCoordinator._switching
    epoch,      \* ContextSwitchCoordinator._epoch
    session,    \* adopted identity: config.kube_context, AuditLog context
    client,     \* the cluster KubeClient._api reaches
    sw,         \* where the switch worker is
    goal,       \* the context it was asked for
    stranded,   \* neither the target nor the old context could be applied
    record,     \* last phase the timeline holds for the latest switch
    navLock,    \* holder of WorkspaceController.nav_lock
    overlay,    \* a screen that no write flow owns is on the stack
    pc,         \* where each write flow is
    seen,       \* the epoch a flow captured
    target,     \* the cluster whose object the flow's user acted on
    inflight,   \* reservations not yet released (_active_writes counts them)
    intent,     \* the context the intent record carries, once persisted
    landed      \* the cluster the mutation reached, once it did

switchVars == <<switching, epoch, session, client, sw, goal, stranded, record>>
flowVars   == <<pc, seen, target, inflight, intent, landed>>
vars       == <<switchVars, navLock, overlay, flowVars>>

-----------------------------------------------------------------------------
(* Where a flow can be.  Each of Gaps is an await whose end rechecks.      *)

Gaps     == {"permission", "prompted", "preview", "impact"}
Modal    == {"prompt", "dialog"}
Reserved == {"launched", "intent", "op", "outcome"}
Phases   == Gaps \union Modal \union Reserved
              \union {"idle", "surface", "guard", "approved"}

SwitchSteps == {"idle", "noop", "listing", "probe", "lock", "quiesce",
                "drain", "expire", "teardown", "load", "reprobe",
                "restore", "reprobeOld", "resume"}
Committed   == {"quiesce", "drain", "expire", "teardown", "load", "reprobe",
                "restore", "reprobeOld", "resume"}

TypeOK ==
    /\ switching \in BOOLEAN
    /\ epoch \in Nat
    /\ session \in Clusters /\ client \in Clusters /\ goal \in Clusters
    /\ sw \in SwitchSteps
    /\ stranded \in BOOLEAN
    /\ record \in {"none", "started", "failed", "completed"}
    /\ navLock \in {"free", "switch", "other"}
    /\ overlay \in BOOLEAN
    /\ pc \in [Flows -> Phases]
    /\ seen \in [Flows -> Nat]
    /\ target \in [Flows -> Clusters \union {None}]
    /\ inflight \in SUBSET Flows
    /\ intent \in [Flows -> Clusters \union {None}]
    /\ landed \in [Flows -> Clusters \union {None}]

Init ==
    /\ switching = FALSE
    /\ epoch = 0
    /\ session \in Clusters
    /\ client = session
    /\ goal = session
    /\ sw = "idle"
    /\ stranded = FALSE
    /\ record = "none"
    /\ navLock = "free"
    /\ overlay = FALSE
    /\ pc = [f \in Flows |-> "idle"]
    /\ seen = [f \in Flows |-> 0]
    /\ target = [f \in Flows |-> None]
    /\ inflight = {}
    /\ intent = [f \in Flows |-> None]
    /\ landed = [f \in Flows |-> None]

-----------------------------------------------------------------------------
(* What the rechecks read.                                                 *)

\* ContextGuard.crossed: a switch started, or completed, since `e`.
CrossedFlagOnly(e)  == switching
Crossed(e) == switching \/ epoch # e

\* screen_depth() == 1
ClearScreen == ~overlay /\ \A f \in Flows : pc[f] \notin Modal

\* context_intact and what is built on it, but for the selection.
Intact(f) == ~Crossed(seen[f]) /\ ClearScreen

\* AgentUiController.busy: the turn's task is not done.
Busy == \E f \in Agent : pc[f] # "idle"

\* ContextSwitchCoordinator._blocker
BlockedIgnoringWrites == Busy \/ ~ClearScreen
Blocked == Busy \/ inflight # {} \/ ~ClearScreen

-----------------------------------------------------------------------------
(* Write flows.                                                            *)

Goto(f, p) == pc' = [pc EXCEPT ![f] = p]

\* A flow ends: its coroutine's locals are gone, its release has run.
EndLeaking(f) ==
    /\ Goto(f, "idle")
    /\ seen' = [seen EXCEPT ![f] = 0]
    /\ target' = [target EXCEPT ![f] = None]
    /\ intent' = [intent EXCEPT ![f] = None]
    /\ landed' = [landed EXCEPT ![f] = None]
    /\ UNCHANGED inflight
End(f) ==
    /\ Goto(f, "idle")
    /\ seen' = [seen EXCEPT ![f] = 0]
    /\ target' = [target EXCEPT ![f] = None]
    /\ inflight' = inflight \ {f}
    /\ intent' = [intent EXCEPT ![f] = None]
    /\ landed' = [landed EXCEPT ![f] = None]

\* The reservation is taken where the coroutine is built, synchronously.
Reserve(f) ==
    /\ Goto(f, "launched")
    /\ inflight' = inflight \union {f}
    /\ UNCHANGED <<seen, target, intent, landed>>

Begin(f) ==
    /\ pc[f] = "idle"
    /\ Goto(f, "permission")
    /\ seen' = [seen EXCEPT ![f] = epoch]
    /\ target' = [target EXCEPT ![f] = session]
    /\ UNCHANGED <<inflight, intent, landed, switchVars, navLock, overlay>>

\* A write key: target and epoch are pinned, then precheck_keybinding_write
\* refuses during a switch.  The node shell has no such refusal.
KeyPress(f) ==
    /\ f \in Keyed
    /\ ClearScreen
    /\ f \in Interactive \/ ~switching
    /\ Begin(f)

\* A turn may start (submit_prompt, _drain_replacement) only outside a switch.
AgentTurn(f) ==
    /\ f \in Agent
    /\ ~switching
    /\ ~Busy
    /\ Begin(f)

\* Which await follows which, per kind of flow.
Script(f) ==
    IF f \in Plain
      THEN {<<"permission", "preview">>, <<"preview", "impact">>,
            <<"impact", "dialog">>}
    ELSE IF f \in Guarded
      THEN {<<"permission", "prompt">>, <<"prompted", "preview">>,
            <<"preview", "impact">>, <<"impact", "dialog">>}
    ELSE {<<"permission", "dialog">>}

\* The end of an awaited gap of a keyed flow: the recheck passed.
Proceed(f, p) ==
    /\ f \in Keyed
    /\ <<pc[f], p>> \in Script(f)
    /\ Intact(f)
    /\ Goto(f, p)
    /\ UNCHANGED <<seen, target, inflight, intent, landed>>
    /\ UNCHANGED <<switchVars, navLock, overlay>>

\* The recheck failed (a missing permission and a moved selection included),
\* the count prompt was closed, or the agent's lookup refused the target.
Refuse(f) ==
    /\ \/ f \in Keyed /\ pc[f] \in Gaps \union {"prompt"}
       \/ f \in Agent /\ pc[f] \in {"permission", "surface"}
    /\ End(f)
    /\ UNCHANGED <<switchVars, navLock, overlay>>

\* ReplicasPrompt / ResizePrompt answered: a worker is started, which rechecks.
AnswerPrompt(f) ==
    /\ f \in Guarded /\ pc[f] = "prompt"
    /\ Goto(f, "prompted")
    /\ UNCHANGED <<seen, target, inflight, intent, landed>>
    /\ UNCHANGED <<switchVars, navLock, overlay>>

\* agent_request_write awaits permission, manifest and preview, then the
\* request waits for a clear screen before its dialog is pushed.
AgentPrepared(f) ==
    /\ f \in Agent /\ pc[f] = "permission"
    /\ Goto(f, "surface")
    /\ UNCHANGED <<seen, target, inflight, intent, landed>>
    /\ UNCHANGED <<switchVars, navLock, overlay>>

Surface(f) ==
    /\ f \in Agent /\ pc[f] = "surface"
    /\ ClearScreen
    /\ Goto(f, "dialog")
    /\ UNCHANGED <<seen, target, inflight, intent, landed>>
    /\ UNCHANGED <<switchVars, navLock, overlay>>

\* The dialog is dismissed, expires, or the turn that opened it is stopped.
Decline(f) ==
    /\ pc[f] = "dialog"
    /\ End(f)
    /\ UNCHANGED <<switchVars, navLock, overlay>>

\* The user approves.  `confirm` reserves at once, or defers the guard by a
\* loop iteration; `confirm_interactive` rechecks the epoch first; the agent
\* gate resolves the future its turn is awaiting.
Approve(f) ==
    /\ pc[f] = "dialog"
    /\ \/ f \in Plain /\ Reserve(f)
       \/ f \in Interactive /\ ~Crossed(seen[f]) /\ Reserve(f)
       \/ /\ f \in Guarded \union Agent
          /\ Goto(f, IF f \in Guarded THEN "guard" ELSE "approved")
          /\ UNCHANGED <<seen, target, inflight, intent, landed>>
    /\ UNCHANGED <<switchVars, navLock, overlay>>

\* _launch_if: the deferred guard looks once more, then reserves or ends.
GuardUnchecked(f) ==
    /\ f \in Guarded /\ pc[f] = "guard"
    /\ Reserve(f)
    /\ UNCHANGED <<switchVars, navLock, overlay>>
Guard(f) ==
    /\ f \in Guarded /\ pc[f] = "guard"
    /\ (Intact(f) /\ Reserve(f)) \/ End(f)
    /\ UNCHANGED <<switchVars, navLock, overlay>>

\* The turn resumes into run_shielded, or it was stopped first.
AgentRun(f) ==
    /\ f \in Agent /\ pc[f] = "approved"
    /\ Reserve(f) \/ End(f)
    /\ UNCHANGED <<switchVars, navLock, overlay>>

\* The worker takes its first step; a precondition may refuse the write.
StartWrite(f) ==
    /\ pc[f] = "launched"
    /\ \/ /\ Goto(f, "intent")
          /\ UNCHANGED <<seen, target, inflight, intent, landed>>
       \/ End(f)
    /\ UNCHANGED <<switchVars, navLock, overlay>>

\* audit_write(..., "intent"): fail-closed.
IntentFailsOpen(f) ==
    /\ pc[f] = "intent"
    /\ Goto(f, "op")
    /\ intent' = [intent EXCEPT ![f] = session] \/ UNCHANGED intent
    /\ UNCHANGED <<seen, target, inflight, landed>>
    /\ UNCHANGED <<switchVars, navLock, overlay>>
AuditIntent(f) ==
    /\ pc[f] = "intent"
    /\ \/ /\ Goto(f, "op")
          /\ intent' = [intent EXCEPT ![f] = session]
          /\ UNCHANGED <<seen, target, inflight, landed>>
       \/ End(f)
    /\ UNCHANGED <<switchVars, navLock, overlay>>

\* The request reaches the API server of whatever cluster the client names.
Land(f) ==
    /\ pc[f] = "op" /\ landed[f] = None
    /\ landed' = [landed EXCEPT ![f] = client]
    /\ UNCHANGED <<pc, seen, target, inflight, intent>>
    /\ UNCHANGED <<switchVars, navLock, overlay>>

\* op_factory() returns or raises; an error may follow a mutation that landed.
OpReturns(f) ==
    /\ pc[f] = "op"
    /\ Goto(f, "outcome")
    /\ UNCHANGED <<seen, target, inflight, intent, landed>>
    /\ UNCHANGED <<switchVars, navLock, overlay>>

\* audit_write(..., "success" / "error: ..."), best effort: persisted or not,
\* the body ends.
AuditOutcome(f) ==
    /\ pc[f] = "outcome"
    /\ End(f)
    /\ UNCHANGED <<switchVars, navLock, overlay>>

\* A worker is cancelled, possibly before its first step (ReservedWrite).
\* run_shielded absorbs the cancellation, so an agent write is not.
CancelWorker(f) ==
    /\ f \in Keyed /\ pc[f] \in Reserved
    /\ End(f)
    /\ UNCHANGED <<switchVars, navLock, overlay>>

FlowStep(f) ==
    \/ KeyPress(f) \/ AgentTurn(f)
    \/ \E p \in Phases : Proceed(f, p)
    \/ Refuse(f) \/ AnswerPrompt(f) \/ AgentPrepared(f) \/ Surface(f)
    \/ Decline(f) \/ Approve(f) \/ Guard(f) \/ AgentRun(f)
    \/ StartWrite(f) \/ AuditIntent(f) \/ Land(f) \/ OpReturns(f)
    \/ AuditOutcome(f) \/ CancelWorker(f)

-----------------------------------------------------------------------------
(* The switch transaction, one action per await of _switch_locked.         *)

SwitchTo(s) == sw' = s
Unmoved == UNCHANGED <<epoch, session>>

\* The finally of _switch_flow and the exit of `async with nav_lock`.
EndSwitch ==
    /\ switching' = FALSE
    /\ SwitchTo("idle")
    /\ navLock' = IF navLock = "switch" THEN "free" ELSE navLock

\* _apply: one slice adopts the identity the client now has.
AdoptWithoutSession(c) == epoch' = epoch + 1 /\ UNCHANGED session /\ stranded' = FALSE
Adopt(c) == epoch' = epoch + 1 /\ session' = c /\ stranded' = FALSE

\* `:ctx c`; a second command is refused while one is in progress.
ClaimSwitch(c) ==
    /\ ~switching /\ sw = "idle"
    /\ epoch < MaxEpoch
    /\ switching' = TRUE
    /\ SwitchTo("noop")
    /\ goal' = c
    /\ record' = "none"
    /\ Unmoved
    /\ UNCHANGED <<client, stranded, navLock, overlay, flowVars>>

\* _is_noop, then the pre-probe refusals.
NoopOrGuarded ==
    /\ sw = "noop"
    /\ \/ (goal = session \/ Blocked) /\ EndSwitch
       \/ ~Blocked /\ SwitchTo("listing") /\ UNCHANGED <<switching, navLock>>
    /\ Unmoved
    /\ UNCHANGED <<client, goal, stranded, record, overlay, flowVars>>

\* The kubeconfig listing of _guards_pass: an unknown name ends the switch.
Listed ==
    /\ sw = "listing"
    /\ \/ EndSwitch /\ UNCHANGED record
       \/ /\ SwitchTo("probe")
          /\ record' = "started"
          /\ UNCHANGED <<switching, navLock>>
    /\ Unmoved
    /\ UNCHANGED <<client, goal, stranded, overlay, flowVars>>

Probed ==
    /\ sw = "probe"
    /\ \/ EndSwitch /\ record' = "failed"
       \/ SwitchTo("lock") /\ UNCHANGED <<switching, navLock, record>>
    /\ Unmoved
    /\ UNCHANGED <<client, goal, stranded, overlay, flowVars>>

\* nav_lock is granted and the guards are looked at again in the same slice.
LockSilently ==
    /\ sw = "lock" /\ navLock = "free"
    /\ \/ Blocked /\ EndSwitch /\ UNCHANGED record
       \/ /\ ~Blocked
          /\ SwitchTo("quiesce")
          /\ navLock' = "switch"
          /\ UNCHANGED <<switching, record>>
    /\ Unmoved
    /\ UNCHANGED <<client, goal, stranded, overlay, flowVars>>
Lock ==
    /\ sw = "lock" /\ navLock = "free"
    /\ \/ Blocked /\ EndSwitch /\ record' = "failed"
       \/ /\ ~Blocked
          /\ SwitchTo("quiesce")
          /\ navLock' = "switch"
          /\ UNCHANGED <<switching, record>>
    /\ Unmoved
    /\ UNCHANGED <<client, goal, stranded, overlay, flowVars>>

\* _quiesce_mcp and _ensure_outcome_reads_drained may abort; expire_all not.
Quiesce ==
    /\ \/ /\ sw \in {"quiesce", "drain"}
          /\ EndSwitch
          /\ record' = "failed"
       \/ /\ \/ sw = "quiesce" /\ SwitchTo("drain")
             \/ sw = "drain" /\ SwitchTo("expire")
             \/ sw = "expire" /\ SwitchTo("teardown")
          /\ UNCHANGED <<switching, navLock, record>>
    /\ Unmoved
    /\ UNCHANGED <<client, goal, stranded, overlay, flowVars>>

\* _teardown_before_retarget.
TearDown ==
    /\ sw = "teardown"
    /\ \/ SwitchTo("load") /\ UNCHANGED <<switching, navLock>>
       \/ TeardownRaises /\ EndSwitch
    /\ Unmoved
    /\ UNCHANGED <<client, goal, stranded, record, overlay, flowVars>>

\* KubeClient.switch_context: the kubeconfig load is the bounded await, the
\* client is replaced after it.  A failure moves on to the old context.
LoadTarget ==
    /\ sw = "load"
    /\ \/ SwitchTo("reprobe") /\ client' = goal /\ UNCHANGED record
       \/ SwitchTo("restore") /\ record' = "failed" /\ UNCHANGED client
    /\ Unmoved
    /\ UNCHANGED <<switching, goal, stranded, navLock, overlay, flowVars>>

\* The awaits after the replacement (closing the old client, the probes).
ApplyTarget ==
    /\ sw = "reprobe"
    /\ \/ Adopt(goal) /\ SwitchTo("resume") /\ record' = "completed"
       \/ /\ SwapFailsAfter
          /\ SwitchTo("restore")
          /\ record' = "failed"
          /\ Unmoved /\ UNCHANGED stranded
    /\ UNCHANGED <<switching, client, goal, navLock, overlay, flowVars>>

\* The fallback of _retarget; when it fails too the session is stranded.
LoadOld ==
    /\ sw = "restore"
    /\ \/ /\ SwitchTo("reprobeOld")
          /\ client' = session
          /\ UNCHANGED <<switching, stranded, navLock>>
       \/ EndSwitch /\ stranded' = TRUE /\ UNCHANGED client
    /\ Unmoved
    /\ UNCHANGED <<goal, record, overlay, flowVars>>

ApplyOld ==
    /\ sw = "reprobeOld"
    /\ \/ Adopt(session) /\ SwitchTo("resume") /\ UNCHANGED <<switching, navLock>>
       \/ SwapFailsAfter /\ EndSwitch /\ stranded' = TRUE /\ Unmoved
    /\ UNCHANGED <<client, goal, record, overlay, flowVars>>

\* The MCP server, the watches and the poller come back, or one raises.
Resume ==
    /\ sw = "resume"
    /\ EndSwitch
    /\ Unmoved
    /\ UNCHANGED <<client, goal, stranded, record, overlay, flowVars>>

SwitchStep ==
    \/ NoopOrGuarded \/ Listed \/ Probed \/ Lock \/ Quiesce \/ TearDown
    \/ LoadTarget \/ ApplyTarget \/ LoadOld \/ ApplyOld \/ Resume

-----------------------------------------------------------------------------
(* What else shares the loop.                                              *)

\* A navigation, a drill, `:mcp` or a proposal claim holds nav_lock.
OtherTakesLock ==
    /\ navLock = "free"
    /\ navLock' = "other"
    /\ UNCHANGED <<switchVars, overlay, flowVars>>
OtherDropsLock ==
    /\ navLock = "other"
    /\ navLock' = "free"
    /\ UNCHANGED <<switchVars, overlay, flowVars>>

\* Screens no write flow owns: pickers, the palette, a describe.
OpenOverlay ==
    /\ ClearScreen
    /\ overlay' = TRUE
    /\ UNCHANGED <<switchVars, navLock, flowVars>>
CloseOverlay ==
    /\ overlay
    /\ overlay' = FALSE
    /\ UNCHANGED <<switchVars, navLock, flowVars>>

Next ==
    \/ \E f \in Flows : FlowStep(f)
    \/ \E c \in Clusters : ClaimSwitch(c)
    \/ SwitchStep
    \/ OtherTakesLock \/ OtherDropsLock \/ OpenOverlay \/ CloseOverlay

\* Awaits of the switch are bounded (probe and load by _PROBE_TIMEOUT, the MCP
\* drain by its deadline) and asyncio.Lock is FIFO, so a waiter is served.  A
\* reserved write is a running coroutine; who holds nav_lock lets it go.
Fairness ==
    /\ SF_vars(Lock)
    /\ WF_vars(SwitchStep)
    /\ WF_vars(OtherDropsLock)
    /\ \A f \in Flows :
         /\ WF_vars(StartWrite(f)) /\ WF_vars(AuditIntent(f))
         /\ WF_vars(OpReturns(f)) /\ WF_vars(AuditOutcome(f))

Spec     == Init /\ [][Next]_vars
FairSpec == Spec /\ Fairness

-----------------------------------------------------------------------------
(* Properties.                                                             *)

\* A mutation reaches the cluster whose object the user acted on, however the
\* switch, the dialogs and the workers interleaved since the key was pressed.
LandsWhereApproved ==
    \A f \in Flows : landed[f] # None => landed[f] = target[f]

\* A cluster is never mutated without an intent record that was persisted
\* first and that names that cluster; the outcome record, appended before the
\* reservation ends, carries the context that the session still has.
AuditedAsItsCluster ==
    \A f \in Flows :
        landed[f] # None => intent[f] = landed[f] /\ session = landed[f]

\* From the recheck under nav_lock to its end, a switch shares the session with
\* no approved write, no open approval dialog and no agent turn.
CommittedAlone ==
    sw \in Committed =>
        /\ inflight = {}
        /\ ~Busy
        /\ \A f \in Flows : pc[f] \notin Modal

\* While any write is reserved, neither the client nor the identity moves: an
\* approved write runs to its outcome record on one cluster.
ClusterHeldByWrites ==
    [][inflight # {} => UNCHANGED <<client, session, epoch>>]_vars

\* Whenever no switch is in progress, the client, and so every read and write,
\* is on the cluster that the session and the audit log name.
CoherentAtRest == ~switching => client = session

\* Every reservation is released, so no write blocks `:ctx` for good; and a claimed
\* switch ends, so it blocks no write for good.
NothingHangs ==
    /\ \A f \in Flows : f \in inflight ~> f \notin inflight
    /\ switching ~> ~switching

\* No switch ends with its `started` record left unanswered on the timeline, unless a
\* teardown step raises: each refusal and failure past the probe writes its own terminal
\* phase, and a switch back to the old context needs none.
StartedIsClosed ==
    [][switching /\ ~switching' /\ record' = "started" => sw = "teardown"]_vars

-----------------------------------------------------------------------------
(* The refinement of ApprovedWrite.                                        *)

Stage(f) == IF pc[f] \in {"launched", "intent"} THEN "approved"
            ELSE IF pc[f] \in {"op", "outcome"} THEN "recorded"
            ELSE "none"

Approved == INSTANCE ApprovedWrite WITH
    Writes <- Flows,
    cluster <- client,
    stage <- [f \in Flows |-> Stage(f)],
    place <- [f \in Flows |-> IF f \in inflight THEN target[f] ELSE None],
    reached <- [f \in Flows |-> IF f \in inflight THEN landed[f] ELSE None]

ImplementsApprovedWrite == Approved!Spec
=============================================================================
