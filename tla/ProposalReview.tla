--------------------------- MODULE ProposalReview ---------------------------
(***************************************************************************)
(* ui/proposal_controller.py, with the `:mcp` toggle                       *)
(* (ui/integration_controller.py), the embedded server's run               *)
(* (mcp/server.py) and the `:ctx` switch                                   *)
(* (ui/context_switch_coordinator.py) it races.  Everything runs on one    *)
(* event loop, so a step is what happens between two awaits; the claim of  *)
(* a proposal, the toggle and the switch exclude each other by `nav_lock`. *)
(***************************************************************************)
EXTENDS Naturals, FiniteSets

CONSTANTS
    MaxProposals,  \* bound: proposals ever queued
    MaxRuns,       \* bound: runs of the embedded server
    MaxEpoch,      \* bound: context epochs
    StopsInTime,   \* every server stop lands within its deadlines
    ReadsDrain,    \* deployment-outcome reads always stop in time
    Exits          \* the user may leave the TUI

ASSUME ReviewAssumption ==
    /\ MaxProposals \in Nat \ {0} /\ MaxRuns \in Nat \ {0} /\ MaxEpoch \in Nat
    /\ {StopsInTime, ReadsDrain, Exits} \subseteq BOOLEAN

Ids == 1 .. MaxProposals

Terminal == {"executed", "failed", "denied", "expired", "cancelled"}

VARIABLES
    app,        \* the TUI session: up, exiting (workers cancelled), closing, gone
    server,     \* the embedded server: off, up, or dying past its deadlines
    runs,       \* runs so far; the last one is the current one
    owed,       \* runs whose end a _sweep_after_teardown is waiting for
    navLock,    \* who holds nav_lock
    switching,  \* _switching
    sw,         \* where the switch is
    restart,    \* mcp_restart
    epoch,      \* _epoch
    count,      \* proposals queued so far
    state,      \* the store's state of each
    run,        \* the run that queued it
    bound,      \* context_epoch
    intake,     \* the submission being validated; the bridge admits one
    review,     \* where the review worker is
    target,     \* the proposal it reviews
    landed,     \* proposals whose write reached the cluster
    left,       \* runs that a switch could not stop in time
    carried     \* proposals that a switch aborted over its reads left pending

proposals == <<count, state, run, bound>>
mcp       == <<server, runs, owed>>
ctx       == <<switching, sw, restart, epoch>>
reviewing == <<review, target>>
ghost     == <<landed, left, carried>>
vars      == <<app, mcp, navLock, ctx, proposals, intake, reviewing, ghost>>

Calm == [busy |-> FALSE, run |-> 0, epoch |-> 0]

Init ==
    /\ app = "up" /\ server = "off" /\ runs = 0 /\ owed = {}
    /\ navLock = "free"
    /\ switching = FALSE /\ sw = "idle" /\ restart = FALSE /\ epoch = 0
    /\ count = 0
    /\ state = [p \in Ids |-> "none"]
    /\ run = [p \in Ids |-> 0]
    /\ bound = [p \in Ids |-> 0]
    /\ intake = Calm
    /\ review = "idle" /\ target = 0
    /\ landed = {} /\ left = {} /\ carried = {}

TypeOK ==
    /\ app \in {"up", "exiting", "closing", "gone"}
    /\ server \in {"off", "up", "dying"} /\ runs \in 0 .. MaxRuns /\ owed \subseteq 1 .. runs
    /\ navLock \in {"free", "review", "switch", "mcp_on", "mcp_off"}
    /\ switching \in BOOLEAN /\ restart \in BOOLEAN /\ epoch \in 0 .. MaxEpoch
    /\ sw \in {"idle", "probing", "quiescing", "quiesced", "retargeting", "resuming"}
    /\ switching <=> sw # "idle"
    /\ count \in 0 .. MaxProposals
    /\ state \in [Ids -> {"none", "pending", "approved"} \union Terminal]
    /\ run \in [Ids -> 0 .. runs] /\ bound \in [Ids -> 0 .. epoch]
    /\ intake \in [busy : BOOLEAN, run : 0 .. runs, epoch : 0 .. epoch]
    /\ review \in {"idle", "next", "permitting", "dialog", "claiming", "rechecking", "writing"}
    /\ target \in 0 .. count
    /\ landed \subseteq 1 .. count /\ carried \subseteq 1 .. count /\ left \subseteq 1 .. runs

Pending == {p \in Ids : state[p] = "pending"}
Crossed(e) == switching \/ e # epoch

\* expire_all: every caller audits what it returns.
ExpireAll == state' = [p \in Ids |-> IF p \in Pending THEN "expired" ELSE state[p]]

\* ProposalStore.resolve: the record may have been settled meanwhile.
ResolveAnyway(p, to) == state' = [state EXCEPT ![p] = to]
Resolve(p, to) ==
    state' = [state EXCEPT ![p] = IF @ = "pending" THEN to ELSE @]

-----------------------------------------------------------------------------
(* submit_write_proposal: RBAC, UID capture and the preview are awaited    *)
(* between the first step and the last.                                    *)

IntakeStarts ==
    /\ app \in {"up", "exiting"} /\ server = "up" /\ ~intake.busy
    /\ count < MaxProposals
    /\ intake' = [busy |-> TRUE, run |-> runs, epoch |-> epoch]
    /\ UNCHANGED <<app, mcp, navLock, ctx, proposals, reviewing, ghost>>

\* Nothing is queued when a switch started or completed meanwhile.
IntakeQueues ==
    /\ intake.busy /\ ~Crossed(intake.epoch)
    /\ count' = count + 1
    /\ state' = [state EXCEPT ![count'] = "pending"]
    /\ run' = [run EXCEPT ![count'] = intake.run]
    /\ bound' = [bound EXCEPT ![count'] = intake.epoch]
    /\ intake' = Calm
    /\ UNCHANGED <<app, mcp, navLock, ctx, reviewing, ghost>>

\* Refused, or cancelled with its server run.
IntakeEnds ==
    /\ intake.busy
    /\ intake' = Calm
    /\ UNCHANGED <<app, mcp, navLock, ctx, proposals, reviewing, ghost>>

\* The TTL sweep of any read, or cancel_write_proposal.
Withdraw(p) ==
    /\ p \in Pending /\ app # "gone"
    /\ \/ Resolve(p, "expired")
       \/ server # "off" /\ ~intake.busy /\ Resolve(p, "cancelled")
    /\ UNCHANGED <<app, mcp, navLock, ctx, count, run, bound, intake, reviewing, ghost>>

-----------------------------------------------------------------------------
(* The review worker.                                                      *)

\* open_review: never a second worker.
OpenReview ==
    /\ app = "up" /\ review = "idle" /\ Pending # {}
    /\ review' = "next"
    /\ UNCHANGED <<app, mcp, navLock, ctx, proposals, intake, target, ghost>>

\* _review_proposals takes the oldest; _review_one expires it when it belongs to
\* another context or can no longer be rebuilt, or else awaits its permission.
ReviewNext ==
    /\ review = "next"
    /\ IF Pending = {}
         THEN review' = "idle" /\ UNCHANGED <<target, state>>
         ELSE LET p == CHOOSE oldest \in Pending : \A q \in Pending : oldest <= q
              IN  /\ target' = p
                  /\ \/ review' = "next" /\ Resolve(p, "expired")
                     \/ /\ bound[p] = epoch
                        /\ review' = "permitting" /\ UNCHANGED state
    /\ UNCHANGED <<app, mcp, navLock, ctx, count, run, bound, intake, ghost>>

\* The permission answer, and the re-read that follows it.
Permitted ==
    /\ review = "permitting"
    /\ \/ review' = "next" /\ Resolve(target, "failed")
       \/ /\ review' = IF state[target] # "pending" THEN "next"
                       ELSE IF Crossed(bound[target]) THEN "idle" ELSE "dialog"
          /\ UNCHANGED state
    /\ UNCHANGED <<app, mcp, navLock, ctx, count, run, bound, intake, target, ghost>>

\* Approved, declined, or dismissed (Esc, the timeout, or another dialog open).
Decide ==
    /\ review = "dialog"
    /\ \/ review' = "claiming" /\ UNCHANGED state
       \/ review' = "next" /\ Resolve(target, "denied")
       \/ review' = "idle" /\ UNCHANGED state
    /\ UNCHANGED <<app, mcp, navLock, ctx, count, run, bound, intake, target, ghost>>

\* _execute: begin_execution and the epoch check, under nav_lock.
Claim ==
    /\ review = "claiming" /\ navLock = "free"
    /\ IF state[target] # "pending"
         THEN review' = "next" /\ UNCHANGED <<navLock, state>>
         ELSE IF bound[target] # epoch
         THEN /\ state' = [state EXCEPT ![target] = "failed"]
              /\ review' = "next" /\ UNCHANGED navLock
         ELSE /\ state' = [state EXCEPT ![target] = "approved"]
              /\ review' = "rechecking" /\ navLock' = "review"
    /\ UNCHANGED <<app, mcp, ctx, count, run, bound, intake, target, ghost>>

\* RBAC and the target's uid are read again; then WriteCoordinator.run starts.
Recheck ==
    /\ review = "rechecking"
    /\ \/ review' = "writing" /\ UNCHANGED <<navLock, state>>
       \/ /\ state' = [state EXCEPT ![target] = "failed"]
          /\ review' = "next" /\ navLock' = "free"
    /\ UNCHANGED <<app, mcp, ctx, count, run, bound, intake, target, ghost>>

\* The API server commits the mutation.
Land ==
    /\ review = "writing" /\ target \notin landed
    /\ landed' = landed \union {target}
    /\ UNCHANGED <<app, mcp, navLock, ctx, proposals, intake, reviewing, left, carried>>

\* finish_execution: "done" means committed; an error may hide a commit.
FinishBlindly ==
    /\ review = "writing"
    /\ state' = [state EXCEPT ![target] = "executed"]
    /\ review' = "next" /\ navLock' = "free"
    /\ UNCHANGED <<app, mcp, ctx, count, run, bound, intake, target, ghost>>
Finish ==
    /\ review = "writing"
    /\ \E outcome \in {"failed"} \union (IF target \in landed THEN {"executed"} ELSE {}) :
         state' = [state EXCEPT ![target] = outcome]
    /\ review' = "next" /\ navLock' = "free"
    /\ UNCHANGED <<app, mcp, ctx, count, run, bound, intake, target, ghost>>

-----------------------------------------------------------------------------
(* The embedded server and the `:mcp` toggle.                              *)

\* The server's task ends; a submission it carried has ended or is cancelled.
RunEnds == server' = "off" /\ intake' = IF intake.run = runs THEN Calm ELSE intake
\* Its stop misses both deadlines: no new request, the old ones go on.
RunLingers == ~StopsInTime /\ server' = "dying" /\ UNCHANGED intake

\* A server that was past its deadlines ends at last.
Dies ==
    /\ server = "dying" /\ RunEnds
    /\ UNCHANGED <<app, runs, owed, navLock, ctx, proposals, reviewing, ghost>>

\* MCPController.start: a new run, up or stuck past its deadlines, or none.
StartsRun == \/ /\ runs < MaxRuns /\ runs' = runs + 1
                /\ server' \in {"up"} \union (IF StopsInTime THEN {} ELSE {"dying"})
             \/ server' = "off" /\ UNCHANGED runs

\* `:mcp on` under nav_lock: what is pending predates the run about to start.
ToggleOnUnswept ==
    /\ app = "up" /\ navLock = "free" /\ ~switching /\ server = "off"
    /\ navLock' = "mcp_on"
    /\ UNCHANGED <<app, mcp, ctx, proposals, intake, reviewing, ghost>>
ToggleOn ==
    /\ app = "up" /\ navLock = "free" /\ ~switching /\ server = "off"
    /\ navLock' = "mcp_on" /\ ExpireAll
    /\ UNCHANGED <<app, mcp, ctx, count, run, bound, intake, reviewing, ghost>>
ToggledOn ==
    /\ navLock = "mcp_on"
    /\ StartsRun
    /\ navLock' = "free"
    /\ UNCHANGED <<app, owed, ctx, proposals, intake, reviewing, ghost>>

\* `:mcp off`: the stop is awaited under the lock, bounded by its deadlines.
ToggleOff ==
    /\ app = "up" /\ navLock = "free" /\ ~switching /\ server # "off"
    /\ navLock' = "mcp_off"
    /\ UNCHANGED <<app, mcp, ctx, proposals, intake, reviewing, ghost>>
ToggledOffForgetful ==
    /\ navLock = "mcp_off"
    /\ RunEnds \/ RunLingers
    /\ ExpireAll /\ navLock' = "free"
    /\ UNCHANGED <<app, runs, owed, ctx, count, run, bound, reviewing, ghost>>
ToggledOff ==
    /\ navLock = "mcp_off"
    /\ \/ RunEnds /\ UNCHANGED owed
       \/ RunLingers /\ owed' = owed \union {runs}
    /\ ExpireAll /\ navLock' = "free"
    /\ UNCHANGED <<app, runs, ctx, count, run, bound, reviewing, ghost>>

\* _sweep_after_teardown: unless a fresh run is up, whose start swept already.
SweepAfterTeardown(r) ==
    /\ r \in owed /\ ~(r = runs /\ server # "off") /\ navLock = "free"
    /\ owed' = owed \ {r}
    /\ IF server = "off" THEN ExpireAll ELSE UNCHANGED state
    /\ UNCHANGED <<app, server, runs, navLock, ctx, count, run, bound, intake, reviewing, ghost>>

-----------------------------------------------------------------------------
(* The `:ctx` switch, as far as proposals and the server see it.           *)

SwitchStarts ==
    /\ app = "up" /\ ~switching /\ epoch < MaxEpoch
    /\ switching' = TRUE /\ sw' = "probing"
    /\ UNCHANGED <<app, mcp, navLock, restart, epoch, proposals, intake, reviewing, ghost>>

SwitchOver == switching' = FALSE /\ sw' = "idle" /\ restart' = FALSE

\* A guard refused it, the probe failed, or it was a no-op.
SwitchGivesUp ==
    /\ sw = "probing"
    /\ SwitchOver
    /\ UNCHANGED <<app, mcp, navLock, epoch, proposals, intake, reviewing, ghost>>

\* Under the lock and past the blockers: a review dialog is one of them.
SwitchLocks ==
    /\ sw = "probing" /\ navLock = "free"
    /\ review # "dialog"
    /\ navLock' = "switch"
    /\ sw' = IF server = "off" THEN "quiesced" ELSE "quiescing"
    /\ restart' = FALSE
    /\ UNCHANGED <<app, mcp, switching, epoch, proposals, intake, reviewing, ghost>>

\* _quiesce_mcp
Quiesce ==
    /\ sw = "quiescing"
    /\ IF server = "off" THEN UNCHANGED <<server, intake, navLock, switching>>
                              /\ restart' = TRUE /\ sw' = "quiesced" /\ UNCHANGED left
       ELSE \/ /\ RunEnds /\ restart' = TRUE /\ sw' = "quiesced"
               /\ UNCHANGED <<navLock, switching, left>>
            \/ /\ RunLingers /\ SwitchOver /\ navLock' = "free"
               /\ left' = left \union {runs}
    /\ UNCHANGED <<app, runs, owed, epoch, proposals, reviewing, landed, carried>>

\* _ensure_outcome_reads_drained, then expire_all; or _abort_undrained_outcomes,
\* which starts the server again.
DrainUnswept ==
    /\ sw = "quiesced"
    /\ sw' = "retargeting"
    /\ UNCHANGED <<app, mcp, navLock, switching, restart, epoch, proposals, intake, reviewing, ghost>>
Drain ==
    /\ sw = "quiesced"
    /\ sw' = "retargeting" /\ ExpireAll
    /\ UNCHANGED <<app, mcp, navLock, switching, restart, epoch, count, run, bound, intake,
                   reviewing, ghost>>
AbortUndrained ==
    /\ sw = "quiesced" /\ ~ReadsDrain
    /\ IF restart THEN StartsRun ELSE UNCHANGED <<server, runs>>
    /\ SwitchOver /\ navLock' = "free"
    /\ carried' = carried \union Pending
    /\ UNCHANGED <<app, owed, epoch, proposals, intake, reviewing, landed, left>>

\* The teardown and the retarget: the target or the old context is adopted under
\* a new epoch, or an exception ends the switch with the server down.
Retarget ==
    /\ sw = "retargeting"
    /\ \/ /\ epoch' = epoch + 1 /\ sw' = "resuming"
          /\ UNCHANGED <<navLock, switching, restart>>
       \/ /\ SwitchOver /\ navLock' = "free" /\ UNCHANGED epoch
    /\ UNCHANGED <<app, mcp, proposals, intake, reviewing, ghost>>

Resume ==
    /\ sw = "resuming"
    /\ IF restart THEN StartsRun ELSE UNCHANGED <<server, runs>>
    /\ SwitchOver /\ navLock' = "free"
    /\ UNCHANGED <<app, owed, epoch, proposals, intake, reviewing, ghost>>

-----------------------------------------------------------------------------
(* Leaving the TUI: Textual cancels the workers, then on_unmount runs.     *)

\* A worker cancelled during the write settles the record; one cancelled
\* between the claim and the write does not.
Settled == IF review = "writing"
           THEN {[state EXCEPT ![target] = o] :
                   o \in {"failed"} \union (IF target \in landed THEN {"executed"} ELSE {})}
           ELSE {state}

Exit ==
    /\ Exits /\ app = "up"
    /\ app' = "exiting"
    /\ state' \in Settled
    /\ review' = "idle" /\ navLock' = "free" /\ SwitchOver
    /\ owed' = {}
    /\ UNCHANGED <<server, runs, epoch, count, run, bound, intake, target, ghost>>

\* The bridge refuses new calls and reaps the ones in flight.
CloseBridge ==
    /\ app = "exiting"
    /\ app' = "closing" /\ intake' = Calm
    /\ UNCHANGED <<mcp, navLock, ctx, proposals, reviewing, ghost>>

\* ProposalController.shutdown: close, then sweep.
Unmount ==
    /\ app = "closing"
    /\ app' = "gone" /\ ExpireAll
    /\ UNCHANGED <<mcp, navLock, ctx, count, run, bound, intake, reviewing, ghost>>

Next ==
    \/ IntakeStarts \/ IntakeQueues \/ IntakeEnds
    \/ \E p \in Ids : Withdraw(p)
    \/ OpenReview \/ ReviewNext \/ Permitted \/ Decide
    \/ Claim \/ Recheck \/ Land \/ Finish
    \/ Dies \/ ToggleOn \/ ToggledOn \/ ToggleOff \/ ToggledOff
    \/ \E r \in 1 .. MaxRuns : SweepAfterTeardown(r)
    \/ SwitchStarts \/ SwitchGivesUp \/ SwitchLocks \/ Quiesce
    \/ Drain \/ AbortUndrained \/ Retarget \/ Resume
    \/ Exit \/ CloseBridge \/ Unmount

Spec == Init /\ [][Next]_vars

\* Every await returns: the user answers or the dialog's own timeout dismisses
\* it, API calls have deadlines, and asyncio.Lock serves its waiters in order.
Fairness ==
    /\ WF_vars(ReviewNext \/ Permitted \/ Decide \/ Recheck \/ Finish) /\ SF_vars(Claim)
    /\ WF_vars(SwitchGivesUp \/ SwitchLocks \/ Quiesce \/ Drain \/ AbortUndrained \/ Retarget \/ Resume)
    /\ WF_vars(ToggledOn \/ ToggledOff) /\ WF_vars(IntakeQueues \/ IntakeEnds) /\ WF_vars(Dies)
    /\ \A r \in 1 .. MaxRuns : SF_vars(SweepAfterTeardown(r))

FairSpec == Spec /\ Fairness

-----------------------------------------------------------------------------
(* Properties.                                                             *)

\* A proposal is never claimed once the server has been started again after the
\* run that queued it: no capability of an older run gets a write approved.
ClaimedInItsRun ==
    [][\A p \in Pending : state'[p] = "approved" => run[p] = runs]_vars

\* An approved write reaches the cluster of the context it was previewed against, while
\* the lock keeps the switch out, and under the server run that queued it: toggles sweep,
\* whatever a run that outlived its stop still queued, and switches do unless they abort.
LandsInItsSession ==
    [][\A p \in landed' \ landed : /\ bound[p] = epoch /\ navLock = "review"
                                   /\ run[p] = runs \/ p \in carried]_vars

\* No submission, however its validation was interleaved with a switch, is queued
\* for or left pending in another context than it was validated in; and none outlives the
\* session, since a late one cannot be queued after the final sweep.
PendingIsCurrent == \A p \in Pending : bound[p] = epoch /\ app # "gone"

\* What the caller polls agrees with the cluster: executed writes were committed,
\* and withdrawn ones never were.
OutcomeMatchesCluster ==
    \A p \in Ids : /\ state[p] = "executed" => p \in landed
                   /\ state[p] \in {"pending", "denied", "expired", "cancelled"} => p \notin landed

\* The controller drives the store as ProposalLifecycle says.
Lifecycle == INSTANCE ProposalLifecycle WITH fate <- state
ImplementsLifecycle == Lifecycle!Spec

\* While the session lasts, no claimed proposal stays without its outcome, so a review never
\* wedges the navigation lock it holds; nor does one that a run queued past its stop stay
\* pending with no server to withdraw it. (A switch that stops a server, or aborts and
\* cannot restart it, starts no sweep: `left` and `carried`.)
Unsettled == \E p \in Ids : \/ state[p] = "approved"
                            \/ state[p] = "pending" /\ server = "off" /\ run[p] \notin left
                                                    /\ p \notin carried
ProposalsSettle == []<>(Unsettled => app # "up")

\* A claimed record reaches a terminal state even when its worker is cancelled.
NoneStranded == app = "gone" => \A p \in Ids : state[p] # "approved"
=============================================================================
