----------------------------- MODULE ForwardAudits -----------------------------
(***************************************************************************)
(* ui/forward_controller.py: which start and stop of a port-forward is     *)
(* audited, when, and under which context, while launches and re-attaches  *)
(* spawn in threads, confirmations wait for kubectl, the user stops        *)
(* forwards, `:ctx` tears them all down, and the app exits.  The registry  *)
(* is what ForwardRegistry lets the controller see of it; the forwards     *)
(* share a local port.                                                     *)
(***************************************************************************)
EXTENDS Naturals, Sequences, SequencesExt, FiniteSets, TLC

CONSTANTS
    Forwards,     \* forwards the user asks for
    Contexts,     \* kube contexts
    MaxAgain,     \* bound: re-attaches of each
    MaxSwitches   \* bound: `:ctx` switches

Works == Forwards \X (0 .. MaxAgain)    \* a forward's launch, 0, and its re-attaches
FwdOf(x) == x[1]
Launches == Forwards \X {0}

VARIABLES
    work,       \* the coroutine (and thread) of each launch or re-attach
    wanted,     \* the epoch each forward was asked for in
    confirm,    \* the confirmation of each: none, made, waiting, over, dropped
    awaited,    \* the registry's generation it snapshot
    current,    \* _current_confirmations
    listed,     \* the registry's records
    status,     \* starting, alive or broken
    gen,        \* the launch or re-attach each record's process is of
    shut,       \* the registry is closed
    closing,    \* _forwards_closing
    deferred,   \* _deferred_stop_audits
    stopper,    \* what the worker of a deferred stop waits for; {} when there is none
    queue,      \* _forward_audit_queue
    drain,      \* _forward_audit_worker runs
    pen,        \* the context of the append under way; or none
    log,        \* what append was called with, in order
    app,        \* up, exiting, gone
    ctl,        \* the teardown, of a switch or of the exit
    switching,  \* a `:ctx` is claimed
    context,    \* of each epoch, the last being the log's
    stopped,    \* forwards the user or a stop_all stopped
    forsaken,   \* those whose teardown was cancelled after its stop_all
    stray,      \* a stop_all whose teardown was cancelled is still to run
    late        \* forwards re-attached during a teardown

coroutines == <<work, wanted, confirm, awaited, current, deferred, stopper>>
registry   == <<listed, status, gen, shut>>
trail      == <<queue, drain, pen, log>>
session    == <<app, ctl, switching, context, closing>>
ghost      == <<stopped, forsaken, stray, late>>
vars       == <<coroutines, registry, trail, session, ghost>>

Epoch == Len(context)
Nothing == [at |-> "idle", waits |-> {}, victims |-> {}]

Init ==
    /\ work = [x \in Works |-> "idle"] /\ wanted = [f \in Forwards |-> 1]
    /\ confirm = [x \in Works |-> "none"] /\ awaited = [x \in Works |-> 0]
    /\ current = [f \in Forwards |-> 0]
    /\ listed = {} /\ status = [f \in Forwards |-> "starting"]
    /\ gen = [f \in Forwards |-> 0] /\ shut = FALSE
    /\ deferred = {} /\ stopper = [f \in Forwards |-> {}]
    /\ queue = <<>> /\ drain = FALSE /\ pen = 0 /\ log = <<>>
    /\ app = "up" /\ ctl = Nothing /\ switching = FALSE /\ closing = FALSE
    /\ context = <<CHOOSE c \in Contexts : TRUE>>
    /\ stopped = {} /\ forsaken = {} /\ stray = FALSE /\ late = {}

TypeOK ==
    /\ work \in [Works -> {"idle", "looking", "spawning", "landed", "refused", "raised",
                           "orphan", "over"}]
    /\ confirm \in [Works -> {"none", "made", "waiting", "over", "dropped"}]
    /\ listed \subseteq Forwards /\ status \in [Forwards -> {"starting", "alive", "broken"}]
    /\ gen \in [Forwards -> 0 .. MaxAgain] /\ current \in [Forwards -> 0 .. MaxAgain]
    /\ deferred \subseteq Forwards
    /\ pen \in 0 .. Epoch /\ Epoch <= MaxSwitches + 1
    /\ ctl.at \in {"idle", "launches", "reattaches", "stopping", "confirming", "flushing", "flushed"}

-----------------------------------------------------------------------------
(* The queue and its single drain.                                         *)

Entry(act, x) == [act |-> act, of |-> x]

\* _enqueue_forward_audit, and _audit_forward, which sees that a drain runs.
Enqueue(entries) == queue' = queue \o entries /\ UNCHANGED <<drain, pen, log>>
Audit(entry)     == queue' = Append(queue, entry) /\ drain' = TRUE /\ UNCHANGED <<pen, log>>
AuditSafely(entry) == IF closing THEN Enqueue(<<entry>>) ELSE Audit(entry)

\* _write_head, in a thread: append reads the log's context, and the entry is dequeued
\* once it is written, even when the drain was cancelled meanwhile.
Draining == drain \/ ctl.at = "flushing"
WriteHead ==
    /\ Draining /\ pen = 0 /\ queue # <<>> /\ app # "gone"
    /\ pen' = Epoch
    /\ UNCHANGED <<coroutines, registry, queue, drain, log, session, ghost>>
Written ==
    /\ pen # 0
    /\ LET entry == Head(queue) IN
         log' = Append(log, [act |-> entry.act, of |-> entry.of, in |-> context[pen]])
    /\ queue' = Tail(queue) /\ pen' = 0
    /\ UNCHANGED <<coroutines, registry, drain, session, ghost>>
DrainEnds ==
    /\ drain /\ queue = <<>> /\ pen = 0
    /\ drain' = FALSE
    /\ UNCHANGED <<coroutines, registry, queue, pen, log, session, ghost>>

-----------------------------------------------------------------------------
(* Launches and re-attaches.                                               *)

Goes(x, at) == work' = [work EXCEPT ![x] = at]
InFlight == {x \in Works : work[x] \in {"spawning", "landed", "refused", "raised"}}
Confirming(f) == {x \in Works : FwdOf(x) = f /\ confirm[x] \in {"made", "waiting"}}

\* The dialog's answer: start() first looks up the pod's workload.
Ask(f) ==
    /\ app = "up" /\ ~switching /\ work[<<f, 0>>] = "idle"
    /\ Goes(<<f, 0>>, "looking") /\ wanted' = [wanted EXCEPT ![f] = Epoch]
    /\ UNCHANGED <<confirm, awaited, current, deferred, stopper, registry, trail, session, ghost>>

\* The guard after the lookup.
Moved(f) == switching \/ wanted[f] # Epoch
LaunchUnasked(f) ==
    /\ app = "up" /\ work[<<f, 0>>] = "looking"
    /\ Goes(<<f, 0>>, "spawning")
    /\ UNCHANGED <<wanted, confirm, awaited, current, deferred, stopper, registry, trail,
                   session, ghost>>
Launch(f) ==
    /\ app = "up" /\ work[<<f, 0>>] = "looking"
    /\ Goes(<<f, 0>>, IF Moved(f) THEN "over" ELSE "spawning")
    /\ UNCHANGED <<wanted, confirm, awaited, current, deferred, stopper, registry, trail,
                   session, ghost>>

\* `r` in the list, on a broken forward; nothing asks whether a switch is under way.
Reattach(x) ==
    LET f == FwdOf(x) IN
    /\ app = "up" /\ x[2] > 0 /\ work[x] = "idle" /\ f \in listed /\ status[f] = "broken"
    /\ \A k \in 1 .. x[2] - 1 : work[<<f, k>>] # "idle"
    /\ \A k \in 0 .. MaxAgain : work[<<f, k>>] # "spawning"
    /\ Goes(x, "spawning")
    /\ late' = IF closing THEN late \union {f} ELSE late
    /\ UNCHANGED <<wanted, confirm, awaited, current, deferred, stopper, registry, trail,
                   session, stopped, forsaken, stray>>

\* The registry's start or reattach, in a thread: it publishes the process while it is
\* open and, for a re-attach, the record still listed and broken; or it raises.
PortFree(f) == \A g \in listed \ {f} : status[g] = "broken"
Publishes(x) ==
    LET f == FwdOf(x) IN
    /\ ~shut /\ PortFree(f) /\ (x[2] > 0 => f \in listed /\ status[f] = "broken")
    /\ listed' = listed \union {f}
    /\ status' = [status EXCEPT ![f] = "starting"] /\ gen' = [gen EXCEPT ![f] = x[2]]
    /\ Goes(x, IF work[x] = "orphan" THEN "over" ELSE "landed")
Declines(x) ==
    /\ \/ Goes(x, IF work[x] = "orphan" THEN "over" ELSE "raised")
       \/ x[2] > 0 /\ (shut \/ FwdOf(x) \notin listed) /\ Goes(x, IF work[x] = "orphan" THEN "over" ELSE "refused")
    /\ UNCHANGED <<listed, status, gen>>
Spawned(x) ==
    /\ work[x] \in {"spawning", "orphan"}
    /\ Publishes(x) \/ Declines(x)
    /\ UNCHANGED <<wanted, confirm, awaited, current, deferred, stopper, shut, trail, session, ghost>>

\* Its coroutine resumes: a failed spawn is audited; so is a start that a stop or a
\* teardown overtook; else a confirmation is tracked.
Tracks(x) == LET f == FwdOf(x) IN
    /\ confirm' = [confirm EXCEPT ![x] = "made"] /\ current' = [current EXCEPT ![f] = x[2]]
    /\ UNCHANGED trail
Lands(x) ==
    IF closing \/ FwdOf(x) \notin listed
    THEN AuditSafely(Entry("start", x)) /\ UNCHANGED <<confirm, current>>
    ELSE Tracks(x)
Resume(x) ==
    /\ app # "gone" /\ Goes(x, "over")
    /\ CASE work[x] = "landed"  -> Lands(x)
         [] work[x] = "raised"  -> /\ IF x \in Launches THEN AuditSafely(Entry("start", x))
                                                        ELSE Audit(Entry("start", x))
                                   /\ UNCHANGED <<confirm, current>>
         [] work[x] = "refused" -> UNCHANGED <<confirm, current, trail>>
         [] OTHER               -> FALSE
    /\ UNCHANGED <<wanted, awaited, deferred, stopper, registry, session, ghost>>

-----------------------------------------------------------------------------
(* Confirmations, kubectl, and the user's stops.                           *)

Becomes(f, from, to) ==
    /\ f \in listed /\ status[f] \in from
    /\ status' = [status EXCEPT ![f] = to]
    /\ UNCHANGED <<coroutines, listed, gen, shut, trail, session, ghost>>
Ready(f)  == Becomes(f, {"starting"}, "alive")
Breaks(f) == Becomes(f, {"starting", "alive"}, "broken")

\* The confirmation's first step.
Listen(x) ==
    /\ app # "gone" /\ confirm[x] = "made"
    /\ confirm' = [confirm EXCEPT ![x] = "waiting"] /\ awaited' = [awaited EXCEPT ![x] = gen[FwdOf(x)]]
    /\ UNCHANGED <<work, wanted, current, deferred, stopper, registry, trail, session, ghost>>

\* wait_ready answered, rightly or not any more: one start entry whatever the outcome,
\* and fail_start, which drops a record that is not alive, or keeps a re-attached one as
\* broken, unless it was superseded or stopped.  It is untracked last.
Mine(x) == LET f == FwdOf(x) IN f \in listed /\ current[f] = x[2] /\ awaited[x] = gen[f]
FailsStart(x) == LET f == FwdOf(x) IN
    IF x \in Launches THEN listed' = listed \ {f} /\ UNCHANGED <<status, gen, shut>>
                      ELSE status' = [status EXCEPT ![f] = "broken"] /\ UNCHANGED <<listed, gen, shut>>
Heard(x) ==
    LET st == status[FwdOf(x)] IN
    /\ app # "gone" /\ confirm[x] = "waiting"
    /\ confirm' = [confirm EXCEPT ![x] = "over"]
    /\ Audit(Entry("start", x))
    /\ \/ Mine(x) /\ st # "alive" /\ FailsStart(x)
       \/ ~(Mine(x) /\ st = "starting") /\ UNCHANGED registry
    /\ UNCHANGED <<work, wanted, awaited, current, deferred, stopper, session, ghost>>

\* ctrl+d in the list: the stop entry waits for every start that is still to be audited.
StopAtOnce(f) ==
    /\ app = "up" /\ f \in listed
    /\ listed' = listed \ {f} /\ stopped' = stopped \union {f}
    /\ Audit(Entry("stop", <<f, 0>>))
    /\ UNCHANGED <<coroutines, status, gen, shut, session, forsaken, stray, late>>
Stop(f) ==
    LET pending == InFlight \union Confirming(f) IN
    /\ app = "up" /\ f \in listed
    /\ listed' = listed \ {f} /\ stopped' = stopped \union {f}
    /\ IF pending = {}
         THEN Audit(Entry("stop", <<f, 0>>)) /\ UNCHANGED <<deferred, stopper>>
         ELSE /\ deferred' = deferred \union {f} /\ stopper' = [stopper EXCEPT ![f] = pending]
              /\ UNCHANGED trail
    /\ UNCHANGED <<work, wanted, confirm, awaited, current, status, gen, shut, session,
                   forsaken, stray, late>>

\* _audit_stop_after_confirm: the workers it waits for are over.
Busy == InFlight \union UNION {Confirming(f) : f \in Forwards}
StopAudited(f) ==
    /\ app # "gone" /\ stopper[f] # {} /\ stopper[f] \intersect Busy = {}
    /\ stopper' = [stopper EXCEPT ![f] = {}]
    /\ IF f \in deferred THEN Audit(Entry("stop", <<f, 0>>)) /\ deferred' = deferred \ {f}
                         ELSE UNCHANGED <<trail, deferred>>
    /\ UNCHANGED <<work, wanted, confirm, awaited, current, registry, session, ghost>>

-----------------------------------------------------------------------------
(* The teardown, of a switch or of the exit.                               *)

Phase(at, waits) == ctl' = [ctl EXCEPT !.at = at, !.waits = waits]

SwitchClaims ==
    /\ app = "up" /\ ~switching /\ Epoch <= MaxSwitches
    /\ switching' = TRUE
    /\ UNCHANGED <<coroutines, registry, trail, app, ctl, context, closing, ghost>>
SwitchGivesUp ==
    /\ app = "up" /\ switching /\ ctl.at = "idle"
    /\ switching' = FALSE
    /\ UNCHANGED <<coroutines, registry, trail, app, ctl, context, closing, ghost>>

\* Launches first, then re-attaches.
Teardown ==
    /\ ctl.at = "idle" /\ (switching \/ app = "exiting") /\ app # "gone"
    /\ closing' = TRUE
    /\ Phase("launches", InFlight \intersect Launches)
    /\ UNCHANGED <<coroutines, registry, trail, app, switching, context, ghost>>
LaunchesLanded ==
    /\ ctl.at = "launches" /\ ctl.waits \intersect InFlight = {}
    /\ Phase("reattaches", InFlight \ Launches)
    /\ UNCHANGED <<coroutines, registry, trail, app, switching, context, closing, ghost>>
ReattachesLanded ==
    /\ ctl.at = "reattaches" /\ ctl.waits \intersect InFlight = {}
    /\ Phase("stopping", {})
    /\ UNCHANGED <<coroutines, registry, trail, app, switching, context, closing, ghost>>

\* stop_all, then the confirmations it releases.
StopAll ==
    /\ ctl.at = "stopping"
    /\ shut' = TRUE /\ listed' = {} /\ stopped' = stopped \union listed
    /\ ctl' = [at |-> "confirming", waits |-> Busy \ InFlight, victims |-> listed]
    /\ UNCHANGED <<coroutines, status, gen, trail, app, switching, context, closing, forsaken,
                   stray, late>>

\* The user's stops whose workers never ran, then the teardown's own.
Stops(fs) == [i \in 1 .. Cardinality(fs) |-> Entry("stop", <<SetToSeq(fs)[i], 0>>)]
ConfirmationsOverOnly ==
    /\ ctl.at = "confirming" /\ ctl.waits \intersect Busy = {}
    /\ Enqueue(Stops(ctl.victims))
    /\ deferred' = {} /\ Phase("flushing", {})
    /\ UNCHANGED <<work, wanted, confirm, awaited, current, stopper, registry, app, switching,
                   context, closing, ghost>>
ConfirmationsOver ==
    /\ ctl.at = "confirming" /\ ctl.waits \intersect Busy = {}
    /\ Enqueue(Stops(deferred) \o Stops(ctl.victims))
    /\ deferred' = {} /\ Phase("flushing", {})
    /\ UNCHANGED <<work, wanted, confirm, awaited, current, stopper, registry, app, switching,
                   context, closing, ghost>>

\* flush_audits: the queue is written out.
Flushed ==
    /\ ctl.at = "flushing" /\ ~drain /\ queue = <<>>
    /\ Phase("flushed", {})
    /\ app' = IF app = "exiting" THEN "gone" ELSE app
    /\ UNCHANGED <<coroutines, registry, trail, switching, context, closing, ghost>>

\* _apply: the log is re-pointed, the registry and the controller reopened; or neither
\* the target nor the old context loads, and both stay closed.
Apply ==
    /\ ctl.at = "flushed" /\ app = "up"
    /\ ctl' = Nothing /\ switching' = FALSE
    /\ \/ /\ \E c \in Contexts : context' = Append(context, c)
          /\ shut' = FALSE /\ closing' = FALSE
       \/ UNCHANGED <<context, shut, closing>>
    /\ UNCHANGED <<coroutines, listed, status, gen, trail, app, ghost>>

\* Leaving: the workers, the switch's own included, are cancelled before on_unmount.
\* A launch or confirmation that had begun is audited as it goes, a confirmation that
\* had not, and a lookup, leave nothing.  The list's re-attach may go on.
Exit ==
    /\ app = "up" /\ app' = "exiting"
    /\ \E spared \in SUBSET (InFlight \ Launches) :
          LET cut   == InFlight \ spared
              heard == {x \in Works : confirm[x] = "waiting"}
          IN  /\ work' = [x \in Works |-> IF x \in cut
                                          THEN IF work[x] = "spawning" THEN "orphan" ELSE "over"
                                          ELSE IF work[x] = "looking" THEN "over" ELSE work[x]]
              /\ queue' = queue \o [i \in 1 .. Cardinality(cut) |-> Entry("start", SetToSeq(cut)[i])]
                                \o [i \in 1 .. Cardinality(heard) |-> Entry("start", SetToSeq(heard)[i])]
    /\ confirm' = [x \in Works |-> CASE confirm[x] = "made" -> "dropped"
                                     [] confirm[x] = "waiting" -> "over" [] OTHER -> confirm[x]]
    /\ stopper' = [f \in Forwards |-> {}] /\ drain' = FALSE
    /\ ctl' = Nothing /\ switching' = FALSE
    /\ forsaken' = forsaken \union (IF ctl.at = "confirming" THEN ctl.victims ELSE {})
    /\ stray' = (ctl.at = "stopping")
    /\ UNCHANGED <<wanted, awaited, current, deferred, registry, pen, log, context, closing,
                   stopped, late>>

\* The thread of a teardown that the exit cancelled.
StrayStops ==
    /\ stray /\ stray' = FALSE
    /\ shut' = TRUE /\ listed' = {} /\ stopped' = stopped \union listed
    /\ forsaken' = forsaken \union listed
    /\ UNCHANGED <<coroutines, status, gen, trail, session, late>>

Next ==
    \/ WriteHead \/ Written \/ DrainEnds
    \/ \E f \in Forwards : Ask(f) \/ Launch(f) \/ Ready(f) \/ Breaks(f) \/ Stop(f) \/ StopAudited(f)
    \/ \E x \in Works : Reattach(x) \/ Spawned(x) \/ Resume(x) \/ Listen(x) \/ Heard(x)
    \/ SwitchClaims \/ SwitchGivesUp \/ Teardown \/ LaunchesLanded \/ ReattachesLanded
    \/ StopAll \/ ConfirmationsOver \/ Flushed \/ Apply
    \/ Exit \/ StrayStops

Spec == Init /\ [][Next]_vars

-----------------------------------------------------------------------------
(* Properties.                                                             *)

Says(e, act, f) == e.act = act /\ FwdOf(e.of) = f
Dropped(f) == \E x \in Works : FwdOf(x) = f /\ confirm[x] = "dropped"

StartsComeFirst ==
    LET all == log \o queue IN
    \A f \in Forwards \ late : \A i \in DOMAIN all : Says(all[i], "stop", f) =>
        /\ \A j \in i + 1 .. Len(all) : FwdOf(all[j].of) # f
        /\ Dropped(f) \/ \E j \in 1 .. i - 1 : Says(all[j], "start", f)

\* The trail of a forward reads start before stop: one stop at most, no start after it,
\* and none that stands alone, whichever of the waiting coroutines is cancelled.  Once a
\* teardown has flushed, every stop there was, of the user or of stop_all, is in the log;
\* none waits in a worker that the exit or the switch cancelled.
StopsAreAudited ==
    /\ StartsComeFirst
    /\ ctl.at = "flushed" =>
         \A f \in stopped \ forsaken : \E i \in DOMAIN log : Says(log[i], "stop", f)

\* Each entry is written under the context its forward was launched in, though append
\* stamps it with the log's own, whenever the drain gets to it.
EntryNamesItsCluster ==
    \A i \in DOMAIN log : LET f == FwdOf(log[i].of) IN
        f \in late \/ log[i].in = context[wanted[f]]
=============================================================================
