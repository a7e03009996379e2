# Formal models of korvid

korvid is a terminal cockpit for Kubernetes.  A keyboard user, an embedded agent
and external MCP clients share one session, one API client and one screen; every
cluster write needs a keystroke and a persisted audit record, and `:ctx` moves the
whole session to another cluster while all of it runs.  This directory holds TLA+
models of the parts where that is hard, TLC configurations that check them, and
TLAPS proofs.  Paths below are relative to `src/src/korvid/` of the repository.

## 1. Inventory

Everything but the MCP server's socket handling, `kubectl` children and blocking
file or network calls runs on **one asyncio loop** (Textual).  The code between
two awaits is atomic, so most hazards are of one kind: *a value read before an
await and used after it*.  Real threads are the audit append
(`asyncio.to_thread`), the port-forward registry and the proposal store's callers.

| Component | State | Operations | Talks to |
|---|---|---|---|
| Write perimeter (`ui/write_coordinator.py`, `ui/write_gate.py`, `ui/resource_write_controller.py`) | `_active_writes`, the open dialog, `nav_lock`, each flow's captured epoch and uid | prechecks, prompts, previews, `confirm`, `reserved`, `run`, `audit_write` | switch, audit log, API client, agent, proposals |
| Context switch (`ui/context_switch_coordinator.py`, `k8s/client.py`) | `_switching`, `_epoch`, `KubeClient._api`, `config.kube_context` | claim, guards, probe, lock, quiesce, drain, expire, teardown, retarget or restore, resume | everything |
| Agent writes (`ui/agent_ui_controller.py`) | the turn's task, the pending approval future | submit, `agent_request_write`, approve, interrupt | perimeter, panel |
| Interactive flows (`ui/shell_controller.py`, `ui/debug.py`) | the dialog, the reservation, the subprocess | node shell, debug | perimeter |
| Proposal store (`tools/proposals.py`) | `_proposals`, `_states`, `_order`, `_resolved_at`, `_closed` | submit, get, pending, resolve, begin/finish execution, cancel, `expire_all`, close; a lazy sweep in each | MCP bridge, review, audit |
| Proposal review (`ui/proposal_controller.py`, `ui/bridge_dispatch.py`) | the review worker, the intake in flight | submit, review, claim, execute, settle, shutdown | store, perimeter, switch |
| Embedded MCP server (`mcp/server.py`, `ui/integration_controller.py`) | the run's task, its token | start, bounded stop, `:mcp on/off` | review, switch |
| Workspace (`ui/workspace_controller.py`, `ui/namespace_slot_controller.py`) | panes, `nav_gen`, drill leases, `nav_lock` | drill, split, close, navigate | watches, switch |
| Watches (`core/watch.py`, `core/store.py`) | tasks by key, the object store | start, stop, reconnect | API client, workspace |
| Port forwards (`core/portforward.py`) | records, reaping list, claimed ports, generation latch | start, wait, re-attach, stop, `stop_all`, `retarget` | switch, threads |
| Forward controller (`ui/forward_controller.py`) | launches, re-attaches and confirmations in flight, the audit queue | ask, launch, confirm, stop, teardown, flush | registry, audit log, switch |
| Audit log (`core/audit.py`) | the files, the lock, the ambient context | append, rotate, repair, `set_context` | perimeter, forwards, switch |
| Deployment outcome (`core/deployment_outcome.py`, `k8s/deployment_outcomes.py`, `ui/deployment_outcome_controller.py`) | the trackers of accepted scales and restarts, their workers and reads | correlate, start, poll, judge, stop, evict, drain | perimeter, API client, switch |
| Agent session (`agent/`, `ui/agent_ui_controller.py`) | the history, the turn's task, its iteration, usage, the queued correction | submit, correct, stop, hand off, answer, finalize | tools, providers, switch |
| Tools, log streams, Pulse, Helm/OLM, transfer, drain, configuration, analyses, providers | per component | per component | see `PROJECT.json` |

What is hard, and what makes each part correct:

* **Write perimeter and switch.** A write approved on one cluster must not land on
  another, although the client is shared and a switch may be claimed, may fail
  half way, or may complete inside any await of the flow.  Correct means: the
  mutation reaches the cluster whose object the user acted on; its intent record
  was persisted first and names that cluster; no approved write, dialog or turn
  coexists with the committed part of a switch; a reservation never leaks.
* **Proposals.** A record is polled by an external client, reviewed by a person,
  swept by a TTL, cancelled, expired by a toggle, a switch and an exit.  Correct
  means: at most one outcome, claimed only when live, executed only when the
  cluster really committed, audited exactly once, bounded, never left claimed.
* **Port forwards.** Spawns in threads that land after teardown or after the
  registry was reopened for another cluster; ports reclaimed from children that are on
  their way out.  Correct means: no child is lost, listed under the wrong context, or
  put down for the failure of another; one forward to a port.
* **Watches, panes, leases.** Watch tasks are shared by key between two panes and the
  leases of drills that warm a view ahead.  Correct means: no view on screen without its
  watch (or a notice that it died), no watch for nobody, the breadcrumb agrees with the
  table, a drill that was overtaken changes nothing, rows of the former cluster pass.
* **Audit log.** Several sessions append to, rotate and repair one file; an append runs in
  a thread that outlives its cancelled caller.  Correct means: what was acknowledged
  survives any crash, in order, until rotation retires it, and names its cluster.
* **Forward audits.** Starts and stops are audited by workers that wait for each other
  and that a switch or the exit cancels.  Correct means: start before stop, no stop
  missing, each entry under the context of its forward.
* **Deployment outcome.** What became of an accepted write is read off an object others
  change and a controller updates late, in four requests; the reads outlive the workers that
  ask for them.  Correct means: a final verdict is true of the user's own write and stays, a
  pod is blamed only for its own rollout, no read sees the client swapped, every tracker ends.
* **Agent turn.** A turn is stopped, corrected or fails at any await.  Correct means: its
  history can still be sent, every request is charged once, earlier turns are untouched
  and the next prompt is taken.

`PROJECT.json` lists every component with its status and every hazard at its line.

## 2. Modules

| Module | Models | Kind |
|---|---|---|
| `ApprovedWrite` | what the perimeter promises: a write is approved on a cluster, recorded, lands there at most once, and holds the cluster meanwhile | abstract |
| `WritePerimeter` | the flows, gates, reservations, the audited body and the `:ctx` transaction | detailed, implements `ApprovedWrite` |
| `MCWritePerimeter` | the symmetry set of the instances | TLC |
| `WritePerimeterProofs` | inductive invariant and theorems | TLAPS |
| `ProposalLifecycle` | what the store promises about one proposal's fate | abstract |
| `ProposalStore` | every method of the store, the lazy sweep, caps, retention, the expiry hook | detailed, implements `ProposalLifecycle` |
| `MCProposalStore` | symmetry | TLC |
| `ProposalStoreProofs` | inductive invariant, refinement and theorems | TLAPS |
| `ProposalReview` | intake, review, claim, execution, the `:mcp` toggle and its server runs, the switch as they see it, the exit | composition, also implements `ProposalLifecycle` |
| `ForwardRegistry` | the port-forward registry with its worker threads, readers, event loop and teardown thread, and the children | detailed |
| `MCForwardRegistry` | one instance of `ForwardRegistry` or `DeploymentOutcome` at a time, the symmetry of the threads | TLC |
| `Workspace` | panes, navigation, drills with their leases, the watches that feed them, the switch that stops them | composition of `workspace_controller`, `watch`, `store` |
| `AuditTrail` | what the audit log promises its readers | abstract |
| `AuditLog` | the log's files under several sessions, rotation, repair, syncs and crashes, and the audited write above | detailed, implements `AuditTrail` |
| `ForwardAudits` | launches, confirmations, stops, teardown and exit of the forward controller, its audit queue | detailed |
| `DeploymentOutcome` | a scale or restart, its generation, the reads of a snapshot and the verdict, against a Deployment, its controller and its other users | composition of `client`, `writes`, `deployment_outcomes`, `deployment_outcome` |
| `OutcomeTrackers` | the trackers' workers and reads; stops, eviction, deadline, `:ctx`, exit | detailed |
| `MCTrails` | one instance of `AuditLog` or `ForwardAudits` at a time, the symmetry of the sessions | TLC |
| `MCLiveness` | one instance of `WritePerimeter`, `ForwardRegistry` or `OutcomeTrackers` at a time, each under its fairness | TLC |
| `ProposalReviewProofs`, `ForwardRegistryProofs`, `AgentTurnProofs`, `OutcomeTrackersProofs`, `WorkspaceProofs`, `AuditLogProofs` | inductive invariants and theorems of the module they are named after; `ForwardRegistryProofs` also those of `DeploymentOutcome`, `AuditLogProofs` those of `ForwardAudits` | TLAPS |
| `AgentTurn` | a turn from the prompt to the history it leaves | composition of panel, session, engine, conversation |

### WritePerimeter

One flow is one user intent.  `pc[f]` is the await the flow is suspended in; an
action is the code from that await to the next.

| State | In the code |
|---|---|
| `switching`, `epoch` | `ContextSwitchCoordinator._switching`, `_epoch` |
| `session`, `client` | `config.kube_context` with the audit log's context; the cluster behind `KubeClient._api` |
| `sw`, `goal`, `stranded` | the await of `_switch_locked`, its argument, "neither context could be applied" |
| `record` | the last phase the session timeline holds for the latest switch |
| `navLock`, `overlay` | `WorkspaceController.nav_lock`; a screen no flow owns (picker, palette, describe) |
| `seen`, `target` | the epoch captured at the key press; the cluster of the object the user acted on |
| `inflight` | the reservations `_active_writes` counts |
| `intent`, `landed` | the context on the persisted intent record; the cluster the mutation reached |

Four kinds of flow differ in their awaits (`Script`): `Plain` (delete, restart,
edit), `Guarded` (scale, resize, cordon: a count prompt, and a guard that
`confirm` defers by one loop iteration), `Interactive` (`confirm_interactive`:
epoch checked at the answer, no refusal at the start), `Agent` (turns, whose
approval resolves a future and whose body runs shielded).

Abstractions.  Selection, uid, replica count and RBAC rechecks are a refusal that
may happen at any recheck (`Refuse`); only the epoch, the flag and the screen are
compared, because only they tie a flow to a cluster.  A dialog's dismissal and the
callback that gets its result are one step.  The teardown is one step that may
raise.  `drain`'s eviction loop and the second reservation of an operator
uninstall are left out.  `SwapFailsAfter` says that an attempt may also raise
after `KubeClient.switch_context` replaced the client (the probes that follow the
load): with it, and a failed restore, the session is stranded between clusters.

### ProposalStore

Every method takes one lock, so every method is one action; what runs outside the
lock is a step of its own (`Report`, the expiry hook; the clock reading that
`submit` takes before it waits for the lock, at most `Lag` old).  Proposals are
numbered in submission order, which is what `_order` keeps.  A read that sweeps is
`Read`; a transition that finds the record elsewhere returns False after a sweep,
which is also a `Read`.  The size bounds of a submission and the subscriber list
are left out.

### ProposalReview

The same proposals seen from the controller.  TTL expiry and caller cancellation
are `Withdraw`; caps and retention live in `ProposalStore`.  `intake` is the one
submission the bridge admits at a time, with the epoch and the run it was admitted
under.  A server is `up`, `off` or `dying` (its bounded stop missed both
deadlines: no new request, but the one in flight goes on).  `owed` are the runs
whose end a `_sweep_after_teardown` worker awaits.  The context's name is folded
into the epoch, the audit append into the step that resolves a proposal, and
"another dialog is open" into a dismissal.  `Exit` cancels the workers; then the
bridge closes, then the controller shuts down.  Two variables are history that only
properties read: `left` (runs a switch could not stop in time) and `carried` (proposals that a
switch aborted over its outcome reads left pending, the subject of `review_undrained`).

### ForwardRegistry

Its operations run in real threads.  `_ops` and each record's lock make a critical
section one action; a thread between two of them has its locals in `op[w]` (port,
record, captured generation, holders, child), the event loop in `loop`, the teardown in
`closer`.  A child is `unborn`, `running`, `closing` (its stdout is at EOF, which the code
takes for a failure while the process may still hold the port) or `exited`; `signal` is the
strongest signal it got, and only SIGKILL is certain to work.  `said` are the children whose
readiness line was read for their record, `where` the port and context on their command line.

| Action | Code |
|---|---|
| `Start`, `Reattach`, `Claim`, `ClaimRefused` | the refresh and the critical section of `_claim_port` |
| `KillHolder`, `HolderGone`, `HolderStuck` | the waits of `_ensure_port_free`, outside the lock |
| `Spawn`, `SpawnFails`, `Register`, `Swap`, `Reject`, `Discard` | the spawn and the second critical section of `start` and `reattach` |
| `Stop`, `FailStart`, then `Signal`, `Enter` | unlist, signal outside the lock, enter into `_reaping` |
| `StopAll`, `TerminateAll`, `KillAll`, `Return`, `Retarget` | the teardown, and the reopening by a switch |
| `Reads`, `ReadsEof` | the reader thread, under the record's lock |

Abstractions.  `refresh` is one step (the polls of single records commute); the deadlines are
nondeterministic (`late`, `KillAll`); `wait_ready`'s event only wakes its waiter, so what is left
of it is `WaitReadyPolls`; `fail_start` is called with the generation the record still has (any other
returns at once) and keeps exactly the re-attached ones, as its callers ask; a rejected child
without a stdout does not occur with `subprocess.Popen`; what is left of an unlisted record is
reset.  The controller's own waiting for launches before a teardown is not relied on.

One gap between a docstring and the code is visible in the model and left without a run: between
`stop`'s unlisting and `Enter`, a concurrent start finds neither record nor reaping entry
and spawns while the old child still holds the port, although `_ensure_port_free` says
"Guarantee ``local_port`` is bindable before spawning kubectl".  kubectl then fails to bind and the
forward is reported broken; no child is lost (`NoOrphan`).

### Workspace

A flow is a task of the event loop: the keyboard's pump, which awaits one handler at a
time, and an agent's turn or a goto worker.  Everything that decides is by key: `watch`
has the task of each (kind, scope), `lease` its pre-warms, `rows` what its bucket holds
(nothing, rows of this client, rows of one closed since).  `nav_gen` and the epoch are only
compared with a captured value, so what is kept is whether the comparison fails (`late`).

| Action | Code |
|---|---|
| `Navigate`, `Jump`, `Drill`, `Pop`, `SplitOrClose`, `FocusOther` | each operation up to its first await |
| `Warmed`, `Enter`, `Leave`, `Arrive`, `Release` | the pre-warm, `_nav_lock` with its revalidation, the stop of the old watch, the commit, the lease |
| `Split`, `Mounted`, `Close`, `Closed` | the critical sections of `split_pane` and `close_focused_pane` |
| `Connect`, `Deliver`, `Fail`, `Expire`, `Forbid` | `WatchManager._watch_loop` |
| `Claim` to `Resume` | the switch as the panes see it, the walk of `stop_all` key by key |
| `Cancel` | a turn or worker cancelled at an await (not inside `WatchManager.stop`, which absorbs it) |

A goto keeps the drill stack of its pane (`jump_to_object`), so a breadcrumb over a
goto is not its trail: `strayed` says so and `BreadcrumbAgrees` is about the others.  The quiesce's awaits
are one step.  `overtaken` is history for `NewerWins`.

### AuditLog and AuditTrail

`dir` says which file each name (`audit.jsonl`, `.1`, ...) is, `lines` and `synced` what each
file holds and how much of it is durable; `older` are the directories a power cut may
bring back.  A line is `whole`, `bare` (no newline), `part`, or `junk` (glued to a torn
one).  The locks are one `holder`: no two threads are between them, in one process
or two.  `Rotate` is one step for each name, `Write` may tear, `Raises` is any failing
system call, `Kill` ends a session in the middle of a write and `PowerCut` keeps what was
synced and any prefix of the rest.  Assumed: directory changes become durable in their
order, the Windows lock excludes like `flock`, the log's directory exists.

The refinement maps the trail to what a reader of all files, oldest first, finds of the
acknowledged records that rotation has not dropped: no crash changes it.  It exposed one harmless
difference: after a crash in the middle of a rotation the next one unlinks one more backup
than the docstring of `_rotate_if_needed` describes, which `retired` allows.

### ForwardAudits

The registry is reduced to what the controller sees of it (`listed`, `status`, `gen`, `shut`);
its own races are in `ForwardRegistry`.  `work` and `confirm` are the coroutines of each launch,
re-attach and confirmation, `stopper` the workers of deferred stops, `queue`, `drain` and `pen` the single
writer.  `Exit` cancels workers, `StrayStops` is the thread of a `stop_all` whose await was cancelled.
It meets `AuditLog` in `append`, which stamps the context it finds, and both have that step (`WriteHead`, `Stamp`).

Four history variables name cases the code leaves open, and the properties exempt exactly them: a forward re-attached
while a teardown runs (`late`: nothing in the list's `r` asks whether a switch is under way, so its entry
may follow the stop, or be stamped with the next context); stops of a teardown the exit cancelled in mid-flight (`forsaken`, `stray`:
nobody enqueues them, although `_teardown_before_retarget` notes that every stop is enqueued
for audit); a confirmation cancelled before its first step (`dropped`: its start is not audited, its stop is).  An entry
the disk refuses is dropped with a notice, which the model leaves out.

### DeploymentOutcome

The cluster is part of the model, since the properties compare what korvid says with what is there.
`spec`, `templates` (one to each rollout: its restart marker, and whether its pods crash), `sets` and `pods`
(by the template they were made from) and `status` are the Deployment's; each request of the code is one step that
reads or writes them atomically, and between two of them others scale, edit and restart the
Deployment or recreate it, and the controller makes sets and pods and writes a status that is right then and stale later.
`held` is history: whether the Deployment has really converged at the generation that the PATCH made.

| Action | Code |
|---|---|
| `Approve`, `Scale`, `Correlate` | `scale_object`: the read before the PATCH, the PATCH with its uid, the read after it |
| `Restart` | `rollout_restart_with_stamp`, whose answer has the generation |
| `GetDeployment`, `ListSets`, `ListPods`, `GetAgain` | the four reads of `KubeDeploymentOutcomeReader.snapshot`, then the verdict |
| `Evaluate` and what it uses | `evaluate_deployment_outcome` on the normalised observation |

Abstractions.  Replica counts are 0 and 1, and the available replicas are the ready ones, so a rolling update's surplus is two pods for one.
A pod is in trouble or ready by its template.  Conditions and the limits of the
lists are decided where they are used: at the verdict, the conditions may say that the rollout failed, and a cut list drops
the evidence; so are reads around the PATCH that fail.  (Any outcome is possible at any time; nothing remembers one.)
Malformed fields, the selector and the wording are left out.  A recreated Deployment is met when it is at
rest; the cluster stands still after the final verdict (`Watched`).
The Deployment starts out healthy and at rest; an edit may break it, or have it rolling out, before the user acts.

### OutcomeTrackers

`work[i]` is the worker of a tracker and its read: the await it is in (`new`, `pause` between two polls, `wait` for
the read, `unwind` after its cancellation), the polls made, the read's end, and what has come upon it: its deadline passed by the
clock (`late`), `asyncio.timeout` fired (`timeout`), a cancellation (`cancel`).  A read is a task of its own that need not
obey its cancellation; the worker leaves it running and the cap counts it (`_read_tasks`).  `kept` is `_snapshots`,
`home` the epoch of each intent.  What a read says is any verdict.  A tracker starts inside a reserved write, so none starts during a switch
(`ClusterHeldByWrites`).  `Quit` cancels the workers before `Unmount` calls `stop_all`, as Textual does.  The screen and its pod actions
are left out.

### AgentTurn

The turn is one task: `at` is the await it is suspended in, `cancel` whether a cancellation was asked for or raised.
`history` keeps of each message its role, its turn and the calls it makes; trimming for space may drop any number
of whole turns but the last.  `live`, `turnBase`, `iterationBase`, `cost` and `total` are the transactional
bookkeeping of `ConversationState`; `active`, `awaiting`, `last` the session's; `halted` the engine's flag; `replacement`,
`finalized` and `running` the panel's.  `Swallow` is a tool that stops a watch: its cancellation is absorbed there
(`WatchManager.stop`), which `swallowed` records.

Abstractions.  Diagnostics, evidence, retargeting and tool routing are left out; closing the generators after a panel error is one step;
`aclose` of a session with a live driver does not occur, since the panel waits for the task first.

## 3. Runs

| Run | What it asks | Instance |
|---|---|---|
| `perimeter_safety` | do writes land, and are they audited, where they were approved; is every switch closed in the timeline; does the perimeter implement `ApprovedWrite`? | 2 clusters, 2 switches; one guarded, one interactive, one agent flow; teardowns raise, attempts leave the client alone when they fail |
| `liveness` | are reservations released and switches ended; are stopped children gone and claims given up; does every tracker get a final outcome that stays, with no read across a swap? | perimeter: 2 clusters, 1 switch, a plain and an agent flow, attempts that fail after the swap, teardowns that do not raise; registry: 1 thread, 1 port, 2 children, 1 teardown; trackers: 2 starts, 1 kept, 2 polls, 1 switch, exit |
| `store_safety` | caps, claims, expiries, retention, the lifecycle | 3 sessions, 3 proposals, 3 clock readings, caps 1 and 2, retention of 1 record |
| `review` | contexts, outcomes, toggles and exit of the review flow; does every proposal settle? | 2 proposals, 2 runs, 1 switch, stops that miss deadlines, undrained reads, exit |
| `review_undrained` *(violation)* | is a claim always of the current run, across a switch that aborts? | 2 proposals, 2 runs, 1 switch |
| `review_exit` *(violation)* | does a claimed record always settle, even on exit? | 1 proposal, 1 switch |
| `forward_safety` | is a child ever lost, adopted by the wrong context, or put down for another; does each forward that is up have its port to itself? is the verdict on a scale or restart true? | 2 threads, 1 port, 2 contexts, 2 children, 2 teardowns; outcome: 1 write, 3 generations |
| `workspace_safety` | are panes fed, leases honoured, breadcrumbs true, late drills refused, foreign rows gone? | 2 views, 2 flows, 1 drill level, a watch that ends at its first failure in a row; any number of switches |
| `trails` | does the log keep, order and attribute what it acknowledged; are forwards' starts and stops all there? | log: 2 sessions of 1 write, 2 contexts, 1 line to a file, 2 backups, 1 crash; forwards: 1 forward with 1 re-attach, 1 switch, exit |
| `outcome_blame` *(violation)* | is a pod blamed for a stalled rollout one of the current ReplicaSet's? | 1 write, 3 generations |
| `agent` | is the history sendable, are requests charged once, is the next prompt taken? | 3 prompts, 2 rounds of up to 2 calls, 2 turns kept, 1 switch, exit |
| `agent_swallowed` *(violation)* | is a prompt never refused because of a turn that was stopped? | the same |

**Why the bounds suffice.**  Two clusters tell "right" from "wrong"; two switches
are needed for the ABA case (a flow that starts on one context and ends after
a round trip, which only the epoch and not the name can tell), and an instance
with one switch misses it.  Guarded, interactive and agent flows are the kinds with a gap of
their own between the answer and the reservation; a plain flow has a subset of a guarded one's
awaits, is in `liveness`, and `LandsWhereApproved` is proved for any number of each.  More
flows of one kind add nothing but interleavings of independent steps.  In the store, a cap of 1 per session and 2 in
total makes each bind separately, a retention of 1 record forces eviction with two resolved
ones, and three clock readings give before, at and after the TTL.  Two server runs are a stale
one and a fresh one.  In the registry, two children are an old holder of a port and its
replacement (or two rivals), two threads two concurrent starts, and two teardowns a registry that closed,
reopened and closed again around one spawn.  Two views and two flows are
a pane that leaves what another still shows or warms, and a race of two navigations to it; a parent
kind and its child are what a drill needs.  In the log, a file full after one line rotates at every
append but the first, so four records pass all three names and drop the oldest; one crash
is enough because what a crash leaves (a torn line, a half-done rotation, a free lock) an append that
raises leaves as well, so a crash meets all of it.  One forward with a
re-attach has two confirmations that can overtake each other, a stop, and both teardowns.  Three generations are the
one the user saw, the write's and another's before, between or after; replicas of 0 and 1 are a scale up, down and
to what is there already.  Of two trackers with room for one the second evicts the first, whose read may still run and fill the cap;
two polls are one that is followed and one that exhausts the schedule.  Three prompts over
two kept turns are one that is trimmed, one that is interrupted and the correction that follows.

`MCForwardRegistry`, `MCTrails` and `MCLiveness` take one component to a run because the others share no state with it: the sum of the
state spaces is explored, not their product.

**Violations.**  Each is a disagreement between a comment or a document and the code.
`review_undrained`: `_abort_undrained_outcomes` restarts the server, a new run with a
new token, without expiring what the old run queued; the docstring of
`expire_all` says a proposal must never outlive its run.  `review_exit`: a worker
cancelled while it rechecks RBAC or the uid, after `begin_execution` and before
the shielded write, leaves `approved` behind; the comment in `_execute` says the
record must reach a terminal state.  `agent_swallowed`: a turn stopped while one of its tools
awaits `WatchManager.stop` (`agent_navigate`, or a drill that releases its lease) loses its cancellation there.  The engine's flag ends
the turn, open; `run_turn` returns as if it had finished, so nobody finalizes, and every later prompt is
refused; `AgentSession.finalization_pending` says the caller that stopped a turn has to repair it first.
`outcome_blame`: the second GET of a snapshot compares uid and generation.  A template changed before the first GET is rolled
out after the ReplicaSets were listed; making the new ReplicaSet and reporting the generation changes neither, so the evidence
stands, the newest ReplicaSet on the list is the former one, and its crashing pod makes the rollout "stalled", for good, since that is final.
The design document has step 6 discard the evidence if the resource version changed too, and step 5 retain a blocker only when it is
owned through the current ReplicaSet; the reader's tests want the evidence kept across a status-only update.  Observed but not
run, because the behaviour is harmless or cannot be seen by a user: when both
kubeconfig loads fail the old client stays connected although the docstring of
`_retarget` says nothing is; an exception out of `_teardown_before_retarget` leaves the
timeline's `started` open (`StartedIsClosed` exempts it); a switch that aborts in its quiesce never sweeps what the dying run still queues (`left`);
a drill that pre-warms during a switch starts a watch `stop_all` did not see, on a client about to be closed,
although `KubeClient.switch_context` is to be called after all consumers are stopped
(`ForeignRowsPass` says what becomes of its rows); the exemptions of `ForwardAudits` above.

## 4. Fairness

Only liveness runs use it.  asyncio runs ready callbacks, timeouts fire, and
`asyncio.Lock` serves waiters in order (hence strong fairness for taking `nav_lock` in a
model that does not queue the waiters).  The switch's awaits are bounded by `_PROBE_TIMEOUT`
and the MCP deadlines; reserved writes are running coroutines whose API calls have
deadlines.  The user is *not* fair in `WritePerimeter`: dialogs may stay open for ever.  In
`ProposalReview` the dialog's own timeout makes `Decide` fair, and each coroutine has one fairness
condition, over all its steps.  In `AgentTurn` the loop runs what is ready (the done callback, a task's first
step, a raised cancellation and its unwinding), while a tool or a provider may take for ever.  Nothing forces a read of the
proposal store, so expiry by TTL is lazy there and no liveness is claimed of it.  In
`OutcomeTrackers` time passes, timers fire, an app that quits is unmounted, and no read need ever end.  In
`ForwardRegistry` threads run on, the app's poll keeps calling `refresh`, and a *killed* child exits; nothing
makes a child answer SIGTERM, close its output or say that it is ready.

## 5. Proofs

`WritePerimeterProofs` proves `Inv`, a strengthening of the safety invariants, for
every set of clusters, flows and every bound:

* `FlagInv`, `KindInv`, `InflightInv`: the flag says whether the switch is under way; only
  agents are in the agents' phases; a flow is reserved exactly in the reserved phases;
* `Binding(f)`: no recheck stands in front of `f` any more (an open dialog, an
  approval, a reservation, an agent turn).  `CommittedInv`: past the recheck under
  the lock nothing is binding.  `CurrentInv`: a binding flow's epoch is current;
* `SeenInv`: a captured epoch is not ahead, and one that is current means that the
  target is the session's cluster (which makes the epoch, and not the context's
  name, the right thing to capture);
* `GoalInv`, `ClientInv`: where the client is at each step of the switch;
* `AuditInv`: while a flow executes, its target, its intent and its landing agree.

`LandsWhereApproved` alone is not inductive: its preservation at `Land` needs that the
client is on the target, which needs the switch to be excluded while the flow is
reserved, which needs the recheck under the lock and the epoch check before the
reservation.  Theorems: `TypeCorrect`, `SwitchAlone` (`CommittedAlone`), `ClusterHeld`
(`ClusterHeldByWrites`) and `StartedGetsClosed` (`StartedIsClosed`, with one more conjunct: while a switch is under way and
`started` its last word, it is between its probe and its reprobe)
for every instance; `LandsRight`, `AuditedRight`, `Coherent` and `ApprovedWriteImplemented`
under `~SwapFailsAfter`: an attempt that raised after it had replaced the client, followed
by a restore that fails, does leave the session on a cluster it does not name, so the
proviso cannot be dropped.

`ApprovedWriteImplemented` maps a flow to `approved` while it is reserved, to `recorded` once its intent is
persisted, and to `none` before and after; the abstract cluster is the client.  Per flow (`FlowRefines`) a step is one
abstract step or leaves the flow as it was; a step of the switch (`SwitchRefines`) moves the client only
where nothing is reserved, which is `CommittedInv` again.

`ProposalStoreProofs` proves `TypeCorrect`, `CapsAlwaysHold`, `ClaimsAreLive`,
`ExpiriesReported` and `Refinement` (`Spec => Lifecycle!Spec`: Init maps to Init, each
action to a lifecycle step or a stutter) for every clock, cap, retention and lag.  The
arguments of the caps are about cardinalities under a sweep that only shrinks the pending set
and a submission that adds one after the check.
`NewestAreKept` (`KeepsTheNewest`) is about the order retention evicts in: of the records that survive `Overflow` the oldest
has all the others among those resolved after it, of which there are less than `MaxTerminal` (`SurvivorsFit`); that there is an
oldest is the well-foundedness of the naturals, twice.

`ProposalReviewProofs` proves the two invariants and the action properties of the review and its refinement of
`ProposalLifecycle` from an inductive invariant whose parts say who keeps whom out: `LockInv` (a claim holds
`nav_lock` to its settlement, a switch from its quiesce to its end), `RestInv` and `SweptInv` (where a run is
about to start no server runs, and the sweep has left nothing pending), `IntakeInv` (a submission under validation
is of the run that is there), `RunInv` (what is pending is of the current run, or was carried over by an aborted switch) and
`TargetInv` (a claimed proposal is of the current epoch).  `OutcomeMatchesCluster` needs the last two; `RunInv` fails
without `SweptInv` when a run starts.  `ClaimsBelongToTheRun` has the hypothesis `ReadsDrain`, which is
what separates it from `review_undrained`: there the reads do not drain, and TLC shows the violation.

`ForwardRegistryProofs` proves `NoOrphan`, `ListIsTrue` and `OnCurrentContext`, for any threads, ports, contexts,
children and teardowns (`RegistryAssumption` asks for a port, since a thread at rest keeps one).  None is inductive.  What they need is ownership:
a spawned child is in one thread's hands only (`SpawnedInv`), a listed one is its record's only, and nobody is putting it
down unless the record is broken (`ListedInv`), nothing unborn is in anybody's hands (`UnbornInv`), a claim on a port is of one operation, and holds every child that
still runs there (`ClaimInv`).  `ContextInv` compares the generation captured before the spawn: an
operation with the current one found the registry open and has the current context.  `CountInv` says that there are enough children for the records, a
matter of the model's bounds.

`AgentTurnProofs` proves `HistoryIsSendable`, `ChargedOnce`, `NoteIsOwed` and `NothingWedges`, for any number of
prompts, rounds, calls and kept turns.  `TaskInv` ties the await the task is in to the flags of session, conversation and panel;
`ChargeInv` and `NoteInv` account for what is in flight; `QuietInv` says that an interrupt is never flagged without
its cancellation (which `Swallow` breaks, hence `swallowed`); `PairInv` says
that the history is whole up to the base the next rollback cuts to, and how many results the last round lacks.  Lemmas on cutting, trimming
and appending carry `Paired` over each operation on the history.

`OutcomeTrackersProofs` proves `ReadsStayHome` and `FinalStays` for any number of trackers, polls and switches.  That the epoch stands
still under a read needs `HomeInv` (every living worker is of this epoch) and `DrainedInv` (once drained nothing is
alive to start a read); the cap is about cardinalities: a read is started only after a check that counts those of stopped trackers
too.  `TrackersAssumption` asks for a positive cap, as the controller's constructor does.

`WorkspaceProofs` proves `TypeOK`, `PanesAreFed`, `BreadcrumbAgrees`, `NewerWins` and `ForeignRowsPass`, for each set of the three views
that has pods in it, any number of retries and any depth of drills.  Three of the properties speak of the moments without a critical
section only; the invariant says what each section owes until it ends.  `ShownInv` and `ActiveInv` are the two halves of `PanesAreFed` with their debtors: a pane whose
old watch was stopped to move it, a closing pane's watch, what the switch still has to stop (`switch.left`), the pane it has not
watched yet.  `StoppingInv` is what makes stopping the old watch right (no other pane shows it, and nobody holds a lease on it, except a drill of the user that came later
and started it anew), `LeaseInv` counts the leases by the tasks that hold them, `BareInv` is the same for
the switch after its quiesce.  `TrailInv` leads the trail of a pane on the move to where the move goes; `MovingInv` keeps, for the one that is cancelled between its
push and its commit, what the level taken back restores.  `LateInv` (who was overtaken is late, who is late does not get in)
gives `NewerWins`, `ForeignInv` gives `ForeignRowsPass`.  Two of its conjuncts were found by the proof: a
queued split finds one pane (`OpInv`), and a goto or navigation under way has an empty trail or a strayed one (`MovingInv`).

`AuditLogProofs` proves `OnRecord` for any finite set of sessions, any number of writes, backups and crashes, and any capacity.
`KeptInv` says of what was acknowledged that each directory a power cut may bring back names a file with it among its durable lines;
`AckOK` that a mutation has its intent acknowledged.  `HeldInv` is what the append under the locks has done so far, and makes
each of its steps harmless: the slot a rotation moves a file to is empty, the tail is mended when the line is written, the line is whole and last when the
file is synced.  `LineInv` needs `ContextOK` (no session is retargeted under a write) and `ThreadOK` (a thread that outlives its worker
has its stamp).  `FilesInv` counts the files by the appends that wrote: that there is a fresh inode for each
is a matter of the model's bound.  `Surviving` is the lemma the disk's steps share: what is durable in a directory stays durable wherever its
files are named again.  Of the refinement of `AuditTrail` nothing is proved: the trail filters (`SelectSeq`) the concatenation of the files, and what
that yields is an induction over data.

The second half of `AuditLogProofs` is about `ForwardAudits`, for any finite set of forwards and any number of re-attaches and switches
(`ForwardsAssumption`); it proves `StopsAreAudited` and `EntryNamesItsCluster` of the composition, `MCSpec`.  The log and the queue are read as one trail,
in which writing the head moves nothing (`Grows`), so that a step's effect on it is what it enqueues (`Adds`): a start of a coroutine that is still busy, or a stop of a
forward that owes it.  For the order, `StopInv` says that after its stop a forward has nothing left that could audit (`Over`), and its start before it;
a deferred stop is audited in time since it waits for all that is busy when it is deferred, and nothing new becomes busy for a forward
that is not listed (`StopperInv`, `ApartInv`, `NewInv`); the start was audited since whoever is listed has landed, is being confirmed, or has been heard (`StartedInv`, and
`Audited` for each way out of it).  `OweInv` follows a stop from the list through the deferred ones and the teardown's victims to the queue.  For the context, `EpochInv`
says that what is still to do was asked for in this epoch; a switch changes the epoch only once nothing is (`PhaseInv`: what the teardown has waited for, phase
by phase, does not fly again, but for the re-attaches in `late`), and `PenInv` that the append under way has read this epoch's context.

The last part of `ForwardRegistryProofs` proves `VerdictIsTrue` of `DeploymentOutcome`, which shares the instance's module, for any number of generations.  `StatusInv` is the
contract with the Deployment's controller: a status of the present generation that says it is there is right.  `WriteInv` is the argument for reading
the Deployment on both sides of the PATCH: a generation that has moved by exactly what the PATCH changes leaves no room for anybody
else, so the correlated generation is the one that was made; `TrackerInv` keeps that generation in the tracker.  The verdict is then
taken apart by its phases, each against the second GET.

In each module every action has its step; the facts used by several are lemmas, most of them
about what an action leaves alone.  TLC checked each inductive invariant before it was proved.

**Only model-checked:** liveness (`NothingHangs`, `NothingLingers`, `TrackersSettle`, the review's settlement, `CorrectionIsTaken`: fairness and ENABLED
are beyond the prover); `PastIsKept` (what `SelectSeq` keeps of a changed history is an induction over data);
the refinement of `AuditTrail` by `AuditLog` (the same).

## 6. Plan

Done: the perimeter with its switch, the store, the review, the port-forward registry, the workspace with its watches,
the audit log, the forwards' audits, the agent's turn, the outcome of a write and its trackers.  Next, in this order:

* Proofs: the parts of `PastIsKept` and of the refinement of `AuditTrail` that do not depend on what a filter of a sequence yields.
* `WriteIdentity`: the uid, resourceVersion and replica rechecks that
  `WritePerimeter` abstracts to a refusal.
* Log stream generations; transfer and drain cancellation; namespace slots; `on_unmount` as
  one sequence, any step of which may raise (an outcome read that does not stop makes
  `_ctx.shutdown` raise there, and what follows is skipped).

**Not modelled** and why: configuration parsing, keymaps, analyses of manifests,
redaction, formatting and tables (pure text or data transformations without
state); providers, observability connectors and the evaluation harness (network
clients and offline tools).

## 7. Running

    tlc -config perimeter_safety.cfg MCWritePerimeter.tla
    tlc -config store_safety.cfg MCProposalStore.tla
    tlc -config review.cfg ProposalReview.tla
    tlc -config forward_safety.cfg MCForwardRegistry.tla
    tlc -config workspace_safety.cfg Workspace.tla
    tlc -config trails.cfg MCTrails.tla
    tlc -config liveness.cfg MCLiveness.tla
    tlc -config outcome_blame.cfg DeploymentOutcome.tla
    tlc -config agent.cfg AgentTurn.tla
    tlapm WritePerimeterProofs.tla
    tlapm ProposalStoreProofs.tla
    tlapm ProposalReviewProofs.tla
    tlapm ForwardRegistryProofs.tla
    tlapm AgentTurnProofs.tla
    tlapm OutcomeTrackersProofs.tla
    tlapm WorkspaceProofs.tla
    tlapm AuditLogProofs.tla
