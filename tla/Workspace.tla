------------------------------ MODULE Workspace ------------------------------
(***************************************************************************)
(* ui/workspace_controller.py over core/watch.py and core/store.py: two    *)
(* panes, navigation, drill-down with its pre-warm leases, the watches     *)
(* that feed the panes, and the `:ctx` switch that stops them all.         *)
(* One flow per task of the event loop: the keyboard's message pump, and   *)
(* an agent's turn or a goto worker.  An action ends where its task awaits.*)
(*                                                                         *)
(* nav_gen, the epoch and the API client are compared only for equality    *)
(* with a captured value, so the model keeps the outcome of the            *)
(* comparison: late and stale.  The scope is one namespace.                *)
(***************************************************************************)
EXTENDS Naturals, Sequences, SequencesExt, FiniteSets

CONSTANTS
    Views,        \* the (kind, scope) keys navigated to
    MaxRetries,   \* consecutive failures that end a watch
    MaxDepth      \* bound: drill levels of a pane

ASSUME WorkspaceAssumption ==
    /\ "pods" \in Views /\ Views \subseteq {"deployments", "replicasets", "pods"}
    /\ MaxRetries \in Nat \ {0} /\ MaxDepth \in Nat

Flows == {"user", "other"}    \* "other": an agent's turn, or a goto worker
Home  == "pods"                         \* the view a context opens on

\* drill_child: what Enter on a row of this kind shows.
DrillChild == [v \in Views \ {Home} |->
                 IF v = "deployments" /\ "replicasets" \in Views THEN "replicasets" ELSE Home]

VARIABLES
    panes,       \* left to right: the key each displays, the parent kinds of its NavigationStack,
                 \* and whether a goto took it off that trail
    focus,       \* the position of the focused one
    lock,        \* who holds _nav_lock
    lease,       \* _prewarm_leases
    watch,       \* the task of each key: off, waiting to connect, open, and its failures
    stale,       \* keys whose stream is on a client that was closed
    rows,        \* the bucket of each key: empty, read from here, or through a client closed since
    dead,        \* keys whose watch ended, or was not restarted, and the user was told
    polling,     \* the metrics poller runs
    flow,        \* what each task is at, and the position of its pane, 0 once closed
    switch       \* what the context switch is at, and the keys stop_all has left

screen  == <<panes, focus>>
streams == <<watch, stale, rows, dead>>
vars == <<screen, lock, lease, streams, polling, flow, switch>>

Resting == [at |-> "idle", op |-> "none", pane |-> 0, from |-> Home, to |-> Home,
            late |-> FALSE, overtaken |-> FALSE]

Init ==
    /\ panes = <<[view |-> Home, drill |-> <<>>, strayed |-> FALSE]>> /\ focus = 1
    /\ lock = "free"
    /\ lease = [v \in Views |-> 0]
    /\ watch = [v \in Views |-> [at |-> IF v = Home THEN "wait" ELSE "off", failures |-> 0]]
    /\ stale = {} /\ dead = {}
    /\ rows = [v \in Views |-> "empty"]
    /\ polling = TRUE
    /\ flow = [f \in Flows |-> Resting]
    /\ switch = [at |-> "idle", left |-> {}]

TypeOK ==
    /\ panes \in BoundedSeq([view : Views, strayed : BOOLEAN,
                             drill : BoundedSeq(DOMAIN DrillChild, MaxDepth)], 2)
    /\ focus \in DOMAIN panes
    /\ lock \in Flows \union {"free", "switch"}
    /\ lease \in [Views -> 0 .. Cardinality(Flows)]
    /\ watch \in [Views -> [at : {"off", "wait", "open"}, failures : 0 .. MaxRetries - 1]]
    /\ stale \subseteq Views /\ dead \subseteq Views
    /\ rows \in [Views -> {"empty", "here", "foreign"}]
    /\ polling \in BOOLEAN
    /\ flow \in [Flows -> [at : {"idle", "prewarm", "queued", "entered", "stopping", "release"},
                           op : {"none", "navigate", "goto", "drill", "pop", "split", "close"},
                           pane : 0 .. 2, from : Views, to : Views,
                           late : BOOLEAN, overtaken : BOOLEAN]]
    /\ switch.at \in {"idle", "probe", "quiesce", "stop", "load", "restore", "loaded", "resume"}
    /\ switch.left \subseteq Views

-----------------------------------------------------------------------------
(* WatchManager and ResourceStore.                                         *)

Active    == {v \in Views : watch[v].at # "off"}
Shown     == {panes[i].view : i \in DOMAIN panes}
Here      == panes[focus]
Switching == switch.at # "idle"

\* start: nothing for a key that has a task, else the bucket is dropped and one created.
Start(v) ==
    IF v \in Active THEN UNCHANGED streams
    ELSE /\ watch' = [watch EXCEPT ![v] = [at |-> "wait", failures |-> 0]]
         /\ rows' = [rows EXCEPT ![v] = "empty"]
         /\ stale' = stale \ {v} /\ dead' = dead \ {v}

\* stop: the task leaves _tasks at once and, cancelled, applies no more events.
Stop(keys) ==
    /\ watch' = [v \in Views |-> IF v \in keys THEN [at |-> "off", failures |-> 0] ELSE watch[v]]
    /\ stale' = stale \ keys
    /\ UNCHANGED <<rows, dead>>

\* _watch_loop opens the source: the first time, into the bucket start() emptied, or
\* after the retry delay, into one it purges.
ConnectUnpurged(v) ==
    /\ watch[v].at = "wait"
    /\ watch' = [watch EXCEPT ![v].at = "open"]
    /\ stale' = stale \ {v}
    /\ UNCHANGED <<screen, lock, lease, rows, dead, polling, flow, switch>>
Connect(v) ==
    /\ watch[v].at = "wait"
    /\ watch' = [watch EXCEPT ![v].at = "open"]
    /\ rows' = [rows EXCEPT ![v] = "empty"]
    /\ stale' = stale \ {v}
    /\ UNCHANGED <<screen, lock, lease, dead, polling, flow, switch>>

\* A row of the LIST, or a live event, whose WatchProgress clears the failures.
Deliver(v) ==
    /\ watch[v].at = "open"
    /\ rows' = [rows EXCEPT ![v] = IF v \in stale THEN "foreign" ELSE "here"]
    /\ watch' = [watch EXCEPT ![v].failures = 0]
       \/ UNCHANGED watch
    /\ UNCHANGED <<screen, lock, lease, stale, dead, polling, flow, switch>>

\* The stream raised: retried, or ended and reported after max_retries in a row.
Fail(v) ==
    /\ watch[v].at = "open"
    /\ IF watch[v].failures + 1 < MaxRetries
         THEN /\ watch' = [watch EXCEPT ![v] = [at |-> "wait", failures |-> @.failures + 1]]
              /\ UNCHANGED <<stale, dead>>
         ELSE /\ watch' = [watch EXCEPT ![v] = [at |-> "off", failures |-> 0]]
              /\ stale' = stale \ {v} /\ dead' = dead \union {v}
    /\ UNCHANGED <<screen, lock, lease, rows, polling, flow, switch>>

\* The server ends the stream.
Expire(v) ==
    /\ watch[v].at = "open" /\ v \notin stale
    /\ watch' = [watch EXCEPT ![v] = [at |-> "wait", failures |-> 0]]
    /\ UNCHANGED <<screen, lock, lease, stale, rows, dead, polling, flow, switch>>

\* 403 ends it too, and takes the rows of the LIST back; 405 leaves them.
Forbid(v) ==
    /\ watch[v].at = "open"
    /\ watch' = [watch EXCEPT ![v] = [at |-> "off", failures |-> 0]]
    /\ rows' = [rows EXCEPT ![v] = "empty"] \/ UNCHANGED rows
    /\ stale' = stale \ {v} /\ dead' = dead \union {v}
    /\ UNCHANGED <<screen, lock, lease, polling, flow, switch>>

-----------------------------------------------------------------------------
(* The start of each operation, up to its first await.                     *)

\* The pump awaits its handler; an agent's turn is refused while switching.
MayStart(f) == flow[f].at = "idle"
TurnRefused(f) == f = "other" /\ Switching

Captures(op) == op \in {"drill", "pop", "goto"}    \* nav_gen and the epoch
Captured(f)  == Captures(flow[f].op) /\ flow[f].at # "release"
Leases(op)   == op \in {"drill", "pop"}            \* a pre-warm, and the view drilled from
Begin(f, op, at, to) ==
    flow' = [flow EXCEPT ![f] = [Resting EXCEPT !.op = op, !.at = at, !.pane = focus, !.to = to,
                                 !.from = IF Leases(op) THEN Here.view ELSE @]]

\* navigate_command, from the command bar or the agent.
Navigate(f, v) ==
    /\ MayStart(f) /\ ~TurnRefused(f)
    /\ Begin(f, "navigate", "queued", v)
    /\ UNCHANGED <<screen, lock, lease, streams, polling, switch>>

\* jump_to_object: a goto of the hierarchy, a relationship or a finding, in a worker.
Jump(f, v) ==
    /\ f = "other" /\ MayStart(f) /\ ~Switching
    /\ Begin(f, "goto", "queued", v)
    /\ UNCHANGED <<screen, lock, lease, streams, polling, switch>>

\* prewarm_view takes a lease; a watch a pane displays is warm already.
Prewarm(f, op, to) ==
    /\ lease' = [lease EXCEPT ![to] = @ + 1]
    /\ IF to \in Shown \intersect Active
         THEN Begin(f, op, "queued", to) /\ UNCHANGED streams
         ELSE Begin(f, op, "prewarm", to) /\ Start(to)

\* drill_into needs the row it drills through in the store.
Drill(f) ==
    /\ MayStart(f) /\ ~TurnRefused(f)
    /\ Here.view \in DOMAIN DrillChild /\ rows[Here.view] # "empty"
    /\ Len(Here.drill) < MaxDepth
    /\ Prewarm(f, "drill", DrillChild[Here.view])
    /\ UNCHANGED <<screen, lock, polling, switch>>

Pop(f) ==
    /\ f = "user" /\ MayStart(f)
    /\ Here.drill # <<>>
    /\ Prewarm(f, "pop", Last(Here.drill))
    /\ UNCHANGED <<screen, lock, polling, switch>>

\* The rows it waits for arrived, or DRILL_PREWARM_TIMEOUT passed.
Warmed(f) ==
    /\ flow[f].at = "prewarm"
    /\ flow' = [flow EXCEPT ![f].at = "queued"]
    /\ UNCHANGED <<screen, lock, lease, streams, polling, switch>>

SplitOrClose(f, op) ==
    /\ f = "user" /\ MayStart(f)
    /\ op = IF Len(panes) = 1 THEN "split" ELSE "close"
    /\ Begin(f, op, "queued", Home)
    /\ UNCHANGED <<screen, lock, lease, streams, polling, switch>>

FocusOther(f) ==
    /\ f = "user" /\ MayStart(f) /\ Len(panes) = 2
    /\ focus' = 3 - focus
    /\ UNCHANGED <<panes, lock, lease, streams, polling, flow, switch>>

-----------------------------------------------------------------------------
(* Under _nav_lock.                                                        *)

\* An operation that took a lease releases it on every way out.
Leased(f) == Leases(flow[f].op)
Finish(f) == IF Leased(f) THEN [Resting EXCEPT !.at = "release", !.op = flow[f].op,
                                               !.to = flow[f].to]
             ELSE Resting

\* The revalidation of a guard, a drill or a pop captured before the lock.
Valid(f) ==
    LET c == flow[f] IN
    /\ c.pane # 0
    /\ c.op = "goto" => c.pane = focus
    /\ Captures(c.op) => ~c.late /\ ~Switching
    /\ Leased(f) => panes[c.pane].view = c.from
    /\ c.op = "pop" => panes[c.pane].drill # <<>> /\ Last(panes[c.pane].drill) = c.to

\* drill_op, the push and the pop: the stack changes in the same critical section.  A goto
\* keeps the stack and leaves its trail.
OnTrail(pane, stack, strays) == [pane EXCEPT !.drill = stack, !.strayed = strays /\ stack # <<>>]
StackedKeeping(op, pane) ==
    CASE op = "drill" -> OnTrail(pane, Append(pane.drill, pane.view), pane.strayed)
      [] op = "pop"   -> OnTrail(pane, Front(pane.drill), pane.strayed)
      [] OTHER        -> OnTrail(pane, pane.drill, op = "goto" \/ pane.strayed)
Stacked(op, pane) ==
    CASE op = "navigate" -> OnTrail(pane, <<>>, FALSE)
      [] op = "drill"    -> OnTrail(pane, Append(pane.drill, pane.view), pane.strayed)
      [] op = "pop"      -> OnTrail(pane, Front(pane.drill), pane.strayed)
      [] op = "goto"     -> OnTrail(pane, pane.drill, TRUE)

\* nav_gen + 1, even for the view already shown: whoever captured the old one is late.
AdvanceOnChange(f) ==
    [g \in Flows |-> flow[g].pane = flow[f].pane /\ flow[f].to # panes[flow[f].pane].view]
Advance(f) == [g \in Flows |-> flow[g].pane = flow[f].pane]

\* overtaken is the history of the same event, for the property that reads it.
Overtake(f, next, advanced) ==
    [g \in Flows |-> IF g = f THEN next
                     ELSE IF ~Captured(g) THEN flow[g]
                     ELSE [flow[g] EXCEPT !.late = @ \/ advanced[g],
                                          !.overtaken = @ \/ flow[g].pane = flow[f].pane]]

Enter(f) ==
    LET p == flow[f].pane IN
    /\ flow[f].at = "queued" /\ flow[f].op \notin {"split", "close"} /\ lock = "free"
    /\ IF ~Valid(f)
         THEN /\ flow' = [flow EXCEPT ![f] = Finish(f)]
              /\ UNCHANGED <<panes, lock>>
         ELSE /\ panes' = [panes EXCEPT ![p] = Stacked(flow[f].op, @)]
              /\ IF flow[f].to = panes[p].view
                   THEN /\ flow' = Overtake(f, Finish(f), Advance(f))
                        /\ UNCHANGED lock
                   ELSE /\ flow' = Overtake(f, [flow[f] EXCEPT !.at = "entered"], Advance(f))
                        /\ lock' = f
    /\ UNCHANGED <<focus, lease, streams, polling, switch>>

\* sync_metrics_poller: polls while a pods view is on screen.
Polls(on) == polling' = \E i \in DOMAIN on : on[i].view = Home

\* The new watch starts and the pane commits with no await between; then the lock goes.
Commit(f) ==
    LET p == flow[f].pane IN
    /\ Start(flow[f].to)
    /\ panes' = [panes EXCEPT ![p].view = flow[f].to]
    /\ Polls(panes')
    /\ lock' = "free"
    /\ flow' = [flow EXCEPT ![f] = Finish(f)]
    /\ UNCHANGED <<focus, lease, switch>>

\* The pane's logs are closed; the old watch is needed by another pane or a lease, or
\* has died, and the pane moves on at once, or it is stopped and its task awaited.
KeepsForLeases(f) ==
    LET old == panes[flow[f].pane].view IN lease[old] > 0 \/ old \notin Active
Keeps(f) ==
    LET old == panes[flow[f].pane].view IN
    \/ \E i \in DOMAIN panes \ {flow[f].pane} : panes[i].view = old
    \/ lease[old] > 0
    \/ old \notin Active
Leave(f) ==
    /\ flow[f].at = "entered" /\ flow[f].op \notin {"split", "close"}
    /\ ~Keeps(f)
    /\ Stop({panes[flow[f].pane].view})
    /\ flow' = [flow EXCEPT ![f].at = "stopping"]
    /\ UNCHANGED <<screen, lock, lease, polling, switch>>
Arrive(f) ==
    /\ \/ flow[f].at = "entered" /\ flow[f].op \notin {"split", "close"} /\ Keeps(f)
       \/ flow[f].at = "stopping"
    /\ Commit(f)

\* stop_watch_if_unused: the last lease reaps a watch that no pane displays.
ReleaseOnly(f) ==
    /\ flow[f].at = "release"
    /\ lease' = [lease EXCEPT ![flow[f].to] = @ - 1]
    /\ flow' = [flow EXCEPT ![f] = Resting]
    /\ UNCHANGED <<screen, lock, streams, polling, switch>>
Release(f) ==
    LET v == flow[f].to IN
    /\ flow[f].at = "release"
    /\ lease' = [lease EXCEPT ![v] = @ - 1]
    /\ IF lease[v] = 1 /\ v \notin Shown THEN Stop({v}) ELSE UNCHANGED streams
    /\ flow' = [flow EXCEPT ![f] = Resting]
    /\ UNCHANGED <<screen, lock, polling, switch>>

\* split_pane clones the focused view, mounts its table, and starts its watch.
Split(f) ==
    /\ flow[f].at = "queued" /\ flow[f].op = "split" /\ lock = "free"
    /\ panes' = Append(panes, Here) /\ focus' = 2
    /\ lock' = f
    /\ flow' = [flow EXCEPT ![f].at = "entered", ![f].to = Here.view]
    /\ UNCHANGED <<lease, streams, polling, switch>>
Mounted(f) ==
    /\ flow[f].at = "entered" /\ flow[f].op = "split"
    /\ Start(flow[f].to)
    /\ lock' = "free"
    /\ flow' = [flow EXCEPT ![f] = Resting]
    /\ UNCHANGED <<screen, lease, polling, switch>>

\* A pane leaves the screen: the flows that captured it find it gone.
Dismiss(i) ==
    /\ panes' = RemoveAt(panes, i) /\ focus' = 1
Without(i) == [f \in Flows |->
    [flow[f] EXCEPT !.pane = CASE @ < i -> @ [] @ = i -> 0 [] @ > i -> @ - 1]]

\* close_focused_pane: the survivor takes focus; a watch only the closed pane had stops.
Close(f) ==
    /\ flow[f].at = "queued" /\ flow[f].op = "close" /\ lock = "free"
    /\ IF Len(panes) = 1
         THEN flow' = [flow EXCEPT ![f] = Resting] /\ UNCHANGED <<screen, lock>>
         ELSE /\ Dismiss(focus) /\ lock' = f
              /\ flow' = [Without(focus) EXCEPT ![f].at = "entered", ![f].to = Here.view]
    /\ UNCHANGED <<lease, streams, polling, switch>>
Closed(f) ==
    /\ flow[f].at = "entered" /\ flow[f].op = "close"
    /\ IF flow[f].to \notin Shown THEN Stop({flow[f].to}) ELSE UNCHANGED streams
    /\ Polls(panes)
    /\ lock' = "free"
    /\ flow' = [flow EXCEPT ![f] = Resting]
    /\ UNCHANGED <<screen, lease, switch>>

\* An interrupted turn or a replaced worker is cancelled at its await.  stop() suppresses
\* the cancellation that reaches it, so from there the navigation runs to its end.
Abandons(f) == flow[f].at \in {"prewarm", "queued", "entered"}
Cancel(f) ==
    LET p == flow[f].pane IN
    /\ f # "user" /\ Abandons(f)
    /\ flow' = [flow EXCEPT ![f] = Finish(f)]
    /\ lock' = IF lock = f THEN "free" ELSE lock
    /\ IF lock = f /\ flow[f].op = "drill" /\ panes[p].view = flow[f].from
         THEN panes' = [panes EXCEPT ![p] = OnTrail(@, Front(@.drill), @.strayed)]
         ELSE UNCHANGED panes
    /\ UNCHANGED <<focus, lease, streams, polling, switch>>

Steps(f) == Warmed(f) \/ Leave(f) \/ Arrive(f) \/ Release(f) \/ Mounted(f) \/ Closed(f)
Locks(f) == Enter(f) \/ Split(f) \/ Close(f)
Starts(f) ==
    \/ \E v \in Views : Navigate(f, v) \/ Jump(f, v)
    \/ Drill(f) \/ Pop(f) \/ FocusOther(f)
    \/ \E op \in {"split", "close"} : SplitOrClose(f, op)

-----------------------------------------------------------------------------
(* The context switch, a worker of its own.                                *)

\* _blocker: the agent is busy.
Blocked == flow["other"].at # "idle" /\ flow["other"].op # "goto"
Goes(at) == switch' = [switch EXCEPT !.at = at]

Claim ==
    /\ ~Switching /\ ~Blocked
    /\ Goes("probe")
    /\ UNCHANGED <<screen, lock, lease, streams, polling, flow>>

\* The probe failed, or the agent or the MCP server is in the way: nothing was touched.
Refused ==
    /\ switch.at = "probe"
    /\ Goes("idle")
    /\ UNCHANGED <<screen, lock, lease, streams, polling, flow>>

LockSwitch ==
    /\ switch.at = "probe" /\ lock = "free" /\ ~Blocked
    /\ lock' = "switch" /\ Goes("quiesce")
    /\ UNCHANGED <<screen, lease, streams, polling, flow>>

\* quiesce_for_context_switch: one pane, no poller, no breadcrumb.  Its awaits are one step
\* here: under the lock all that can happen between them is a pre-warm's start, and that
\* can happen before it and after it too.
Quiesce ==
    /\ switch.at = "quiesce"
    /\ panes' = <<OnTrail(Head(panes), <<>>, FALSE)>> /\ focus' = 1
    /\ flow' = Without(2)
    /\ polling' = FALSE
    /\ switch' = [at |-> "stop", left |-> Active]
    /\ UNCHANGED <<lock, lease, streams>>

\* stop_all walks the keys it found: one started meanwhile is not among them.
StopNext(v) ==
    /\ switch.at = "stop" /\ v \in switch.left
    /\ Stop({v})
    /\ switch' = [switch EXCEPT !.left = @ \ {v}]
    /\ UNCHANGED <<screen, lock, lease, polling, flow>>

\* The forwards and their audits are drained; then the store is emptied.
ClearAll ==
    /\ switch.at = "stop" /\ switch.left = {}
    /\ rows' = [v \in Views |-> "empty"]
    /\ Goes("load")
    /\ UNCHANGED <<screen, lock, lease, watch, stale, dead, polling, flow>>

\* KubeClient.switch_context: a new client, and the old one is closed.
Swap ==
    /\ stale' = {v \in Views : watch[v].at = "open"}
    /\ rows' = [v \in Views |-> IF rows[v] = "empty" THEN rows[v] ELSE "foreign"]

Load ==
    /\ switch.at \in {"load", "restore"}
    /\ Swap /\ Goes("loaded")
    /\ UNCHANGED <<screen, lock, lease, watch, dead, polling, flow>>

\* It failed, before or after the client changed: next the old context, and if that
\* fails too the session is over and the user told to restart it.
LoadFails ==
    /\ switch.at \in {"load", "restore"}
    /\ Swap \/ UNCHANGED <<stale, rows>>
    /\ IF switch.at = "load"
         THEN Goes("restore") /\ UNCHANGED <<lock, dead>>
         ELSE Goes("idle") /\ lock' = "free" /\ dead' = Views \ Active
    /\ UNCHANGED <<screen, lease, watch, polling, flow>>

\* _apply: the epoch, so whoever captured the old one is late, and the new
\* cluster's default view.
Apply ==
    /\ switch.at = "loaded"
    /\ flow' = [f \in Flows |-> [flow[f] EXCEPT !.late = @ \/ Captured(f),
                                               !.overtaken = @ \/ Captured(f)]]
    /\ panes' = [panes EXCEPT ![focus].view = Home]
    /\ Goes("resume")
    /\ UNCHANGED <<focus, lock, lease, streams, polling>>

\* The view's watch starts, the poller is synced, and the transaction ends.
Resume ==
    /\ switch.at = "resume"
    /\ Start(Here.view)
    /\ Polls(panes)
    /\ lock' = "free"
    /\ Goes("idle")
    /\ UNCHANGED <<screen, lease, flow>>

Switch ==
    \/ Refused \/ Quiesce \/ ClearAll \/ Load \/ LoadFails \/ Apply
    \/ Resume \/ \E v \in Views : StopNext(v)

Next ==
    \/ \E f \in Flows : Starts(f) \/ Steps(f) \/ Locks(f) \/ Cancel(f)
    \/ Claim \/ LockSwitch \/ Switch
    \/ \E v \in Views : Connect(v) \/ Deliver(v) \/ Fail(v) \/ Expire(v) \/ Forbid(v)

Spec == Init /\ [][Next]_vars

-----------------------------------------------------------------------------
(* Properties.                                                             *)

Calm == lock = "free" /\ ~Switching

\* Panes and watches agree, outside a critical section.  No pane is left on a view nobody
\* watches, unless that watch ended and the user was told, or neither context could be
\* loaded and the user was told to restart; no watch runs for nobody: each one feeds a pane
\* or warms a drill that still holds its lease, and pods metrics are polled only while pods
\* show.  Navigations, drills, closed panes, leases and cancellations all start and stop
\* watches by key.
PanesAreFed ==
    Calm => /\ Shown \subseteq Active \union dead
            /\ Active \subseteq Shown \union {v \in Views : lease[v] > 0}
            /\ polling => Home \in Shown

\* The breadcrumb agrees with the table: outside a critical section a pane with a drill
\* stack shows the child kind of its last level, and each level is the child of the one
\* before, through every split, cancellation, race of navigations and context switch, until
\* a goto takes the pane elsewhere over its stack.
BreadcrumbAgrees ==
    Calm => \A p \in ToSet(panes) :
        LET trail == Append(p.drill, p.view)
        IN  ~p.strayed => \A i \in DOMAIN p.drill : DrillChild[trail[i]] = trail[i + 1]

\* The newer navigation wins: no drill, pop or goto changes a pane that another
\* navigation went through after it was asked for, or after the cluster changed.
NewerWins ==
    \A f \in Flows :
        /\ flow[f].op \in {"drill", "pop", "goto"} /\ flow[f].at \in {"entered", "stopping"}
        => ~flow[f].overtaken

\* Rows read through the previous connection do not stay: a pre-warm that outlives the
\* teardown may leave some on screen, but then their stream is the closed one, which
\* raises, or they are purged at the retry, or the user was told that the watch died.
ForeignRowsPass ==
    Calm => \A v \in Shown :
        rows[v] = "foreign" => v \in stale \/ watch[v].at = "wait" \/ v \in dead
==============================================================================
