---------------------------- MODULE OutcomeTrackers ----------------------------
(***************************************************************************)
(* ui/deployment_outcome_controller.py: the trackers of accepted scales    *)
(* and restarts.  Each has a worker that polls, and a read in a task of    *)
(* its own, which may outlive the worker.  The user stops a tracker, a new *)
(* one evicts the oldest, a deadline ends it, a `:ctx` stops them all and  *)
(* does not go on before their reads have ended, and the app exits.        *)
(*                                                                         *)
(* What a read says is DeploymentOutcome's; here it is any: that there is  *)
(* more to come, a verdict, or that nothing can be said, as when it fails; *)
(* and it is decided when the worker looks at it.  A write is reserved     *)
(* while its tracker starts, so none starts during a switch                *)
(* (WritePerimeter).                                                       *)
(***************************************************************************)
EXTENDS Naturals, Sequences, SequencesExt, FiniteSets

CONSTANTS
    MaxTrackers,  \* _max_trackers
    MaxStarts,    \* bound: trackers ever started
    MaxPolls,     \* the length of _poll_delays
    MaxSwitches   \* bound: contexts switched to

ASSUME TrackersAssumption ==
    {MaxStarts, MaxPolls, MaxSwitches} \subseteq Nat /\ MaxTrackers \in Nat \ {0}

Ids == 1..MaxStarts

VARIABLES
    count,      \* _next_id - 1
    kept,       \* the keys of _snapshots, oldest first
    phase,      \* the phase of each outcome, and who stopped it
    home,       \* the epoch of each intent's target
    work,       \* each worker, and its latest read
    epoch,      \* ContextSwitchCoordinator._epoch
    switch,     \* none, stopping, drained
    app         \* up, closing, down

trackers == <<count, kept, phase, home>>
session  == <<epoch, switch, app>>
vars     == <<trackers, work, session>>

Active == {"accepted", "observing"}
Final  == {"verdict", "incomplete", "byUser", "byContext", "byExit", "cancelled"}
Alive  == {"new", "pause", "wait", "unwind"}

\* A worker: where it is, the polls it made, its read, and what has come upon it: `late`,
\* its deadline passed by the clock; `timeout`, asyncio.timeout fired; `cancel`.
Idle == [at |-> "idle", polls |-> 0, read |-> "none", upon |-> {}]

Living   == {i \in Ids : work[i].at \in Alive}
InFlight == {i \in Ids : work[i].read = "running"}
Retained == ToSet(kept)
Open(i)  == i \in Retained /\ phase[i] \in Active

Init ==
    /\ count = 0 /\ kept = <<>>
    /\ phase = [i \in Ids |-> "none"] /\ home = [i \in Ids |-> 0]
    /\ work = [i \in Ids |-> Idle]
    /\ epoch = 0 /\ switch = "none" /\ app = "up"

-----------------------------------------------------------------------------
(* Trackers.                                                               *)

\* _update: an evicted tracker stays gone.
Update(i, p) == phase' = [phase EXCEPT ![i] = IF i \in Retained THEN p ELSE @]
\* Only what is not final yet is marked.
MarkAlways(i, p) == Update(i, p)
Mark(i, p) == Update(i, IF phase[i] \in Active THEN p ELSE phase[i])

Cancel(those) ==
    work' = [i \in Ids |-> IF i \in those \intersect Living
                           THEN [work[i] EXCEPT !.upon = @ \union {"cancel"}] ELSE work[i]]

\* An accepted write that cannot be tied to a generation, or whose worker cannot be
\* started, is not observed.
Begun(i, tied) ==
    /\ count' = i /\ home' = [home EXCEPT ![i] = epoch]
    /\ phase' = [j \in Ids |-> IF j = i THEN IF tied THEN "accepted" ELSE "incomplete"
                               ELSE phase[j]]
    /\ UNCHANGED session

Starting == app = "up" /\ switch = "none" /\ count < MaxStarts
Worker(tied) == [Idle EXCEPT !.at = IF tied THEN "new" ELSE "over"]

Start(tied) ==
    /\ Starting /\ Len(kept) < MaxTrackers
    /\ kept' = Append(kept, count + 1)
    /\ work' = [work EXCEPT ![count + 1] = Worker(tied)]
    /\ Begun(count + 1, tied)

\* Full: the oldest makes room, and its worker is cancelled.
StartEvicting(tied) ==
    /\ Starting /\ Len(kept) >= MaxTrackers
    /\ kept' = Append(Tail(kept), count + 1)
    /\ work' = [i \in Ids |->
         IF i = count + 1 THEN Worker(tied)
         ELSE IF i = Head(kept) /\ i \in Living
              THEN [work[i] EXCEPT !.upon = @ \union {"cancel"}] ELSE work[i]]
    /\ Begun(count + 1, tied)

StopByUser(i) ==
    /\ Open(i)
    /\ Update(i, "byUser") /\ Cancel({i})
    /\ UNCHANGED <<count, kept, home, session>>

-----------------------------------------------------------------------------
(* A worker.                                                               *)

Goes(i, w) == work' = [work EXCEPT ![i] = w]
\* What it leaves behind is a read that has not ended.
Leaves(i) ==
    Goes(i, [Idle EXCEPT !.at = "over",
                         !.read = IF work[i].read = "running" THEN "running" ELSE "none"])

Free(i) == work[i].upon \intersect {"timeout", "cancel"} = {}
Late(i) == "late" \in work[i].upon

\* _observe_once up to the read.
Poll(i) ==
    \/ i \notin Retained /\ Leaves(i) /\ UNCHANGED phase
    \/ i \in Retained /\ home[i] # epoch /\ Update(i, "byContext") /\ Leaves(i)
    \/ /\ i \in Retained /\ home[i] = epoch /\ Cardinality(InFlight) >= MaxTrackers
       /\ Mark(i, "incomplete") /\ Leaves(i)
    \/ /\ i \in Retained /\ home[i] = epoch /\ Cardinality(InFlight) < MaxTrackers
       /\ Goes(i, [work[i] EXCEPT !.at = "wait", !.polls = @ + 1, !.read = "running"])
       /\ UNCHANGED phase

\* Its first step, or the end of a sleep between two polls.
Polls(i) ==
    /\ work[i].at \in {"new", "pause"} /\ Free(i)
    /\ \/ ~Late(i) /\ Poll(i)
       \/ Late(i) /\ Mark(i, "incomplete") /\ Leaves(i)
    /\ UNCHANGED <<count, kept, home, session>>

\* A worker cancelled before its first step never takes one.
NeverBegins(i) ==
    /\ work[i].at = "new" /\ ~Free(i)
    /\ Leaves(i)
    /\ UNCHANGED <<trackers, session>>

\* The schedule has another poll, or is exhausted.
SilentlyExhausted(i) ==
    IF work[i].polls < MaxPolls
    THEN Mark(i, "observing") /\ Goes(i, [work[i] EXCEPT !.at = "pause", !.read = "none"])
    ELSE Leaves(i) /\ UNCHANGED phase
NextPoll(i) ==
    IF work[i].polls < MaxPolls
    THEN Mark(i, "observing") /\ Goes(i, [work[i] EXCEPT !.at = "pause", !.read = "none"])
    ELSE Mark(i, "incomplete") /\ Leaves(i)

\* What the read says is applied only if it is still of use.
Apply(i) ==
    \/ NextPoll(i)
    \/ Leaves(i) /\ \E outcome \in {"verdict", "incomplete"} : Update(i, outcome)

Resumes(i) ==
    /\ work[i].at = "wait" /\ work[i].read = "over" /\ Free(i)
    /\ \/ Late(i) /\ Mark(i, "incomplete") /\ Leaves(i)
       \/ ~Late(i) /\ ~Open(i) /\ Leaves(i) /\ UNCHANGED phase
       \/ ~Late(i) /\ Open(i) /\ home[i] # epoch /\ Update(i, "byContext") /\ Leaves(i)
       \/ ~Late(i) /\ Open(i) /\ home[i] = epoch /\ Apply(i)
    /\ UNCHANGED <<count, kept, home, session>>

\* How an interrupted worker ends: a cancellation prevails over the timeout.
Ends(i) ==
    /\ Mark(i, IF "cancel" \in work[i].upon THEN "cancelled" ELSE "incomplete")
    /\ Leaves(i)
    /\ UNCHANGED <<count, kept, home, session>>

\* A read still running is told to stop, and given two rounds of the loop; one that is over
\* is awaited.
Interrupted(i) ==
    /\ ~Free(i)
    /\ \/ work[i].at = "pause" /\ Ends(i)
       \/ /\ work[i].at = "wait"
          /\ Goes(i, [work[i] EXCEPT !.at = "unwind"]) /\ UNCHANGED <<trackers, session>>

Unwinds(i) == work[i].at = "unwind" /\ Ends(i)

-----------------------------------------------------------------------------
(* Around it: the read, the clock, and the loop's timer.                   *)

ReadEnds(i) ==
    /\ work[i].read = "running"
    /\ Goes(i, [work[i] EXCEPT !.read = IF work[i].at \in Alive THEN "over" ELSE "none"])
    /\ UNCHANGED <<trackers, session>>

Befalls(i, what) ==
    Goes(i, [work[i] EXCEPT !.upon = @ \union {what}]) /\ UNCHANGED <<trackers, session>>

DeadlinePasses(i) == i \in Living /\ Befalls(i, "late")
TimerFires(i)     == work[i].at \in {"pause", "wait"} /\ Late(i) /\ Befalls(i, "timeout")

-----------------------------------------------------------------------------
(* The session: `:ctx`, and the exit.                                      *)

\* stop_all, up to its wait for the workers.
StopAll(reason) ==
    /\ phase' = [i \in Ids |-> IF Open(i) THEN reason ELSE phase[i]]
    /\ Cancel(Ids)
    /\ UNCHANGED <<count, kept, home>>

Switch ==
    /\ app = "up" /\ switch = "none" /\ epoch < MaxSwitches
    /\ StopAll("byContext")
    /\ switch' = "stopping" /\ UNCHANGED <<epoch, app>>

\* The switch aborts when a read did not stop in time.
DrainedOnPaper ==
    /\ app = "up" /\ switch = "stopping" /\ Living = {}
    /\ switch' = "drained"
    /\ UNCHANGED <<trackers, work, epoch, app>>
Drained ==
    /\ app = "up" /\ switch = "stopping" /\ Living = {}
    /\ switch' = IF InFlight = {} THEN "drained" ELSE "none"
    /\ UNCHANGED <<trackers, work, epoch, app>>

\* The client is the new context's, or the old one's again.
Swap ==
    /\ app = "up" /\ switch = "drained"
    /\ epoch' = epoch + 1 /\ switch' = "none"
    /\ UNCHANGED <<trackers, work, app>>

\* Textual cancels every worker first, and the app's on_unmount stops the trackers then.
Quit ==
    /\ app = "up"
    /\ app' = "closing" /\ Cancel(Ids)
    /\ UNCHANGED <<trackers, epoch, switch>>

Unmount ==
    /\ app = "closing"
    /\ app' = "down" /\ StopAll("byExit") /\ UNCHANGED <<epoch, switch>>

-----------------------------------------------------------------------------

Step(i) ==
    \/ Polls(i) \/ NeverBegins(i) \/ Resumes(i) \/ Interrupted(i) \/ Unwinds(i)

Next ==
    \/ \E tied \in BOOLEAN : Start(tied) \/ StartEvicting(tied)
    \/ \E i \in Ids : \/ StopByUser(i) \/ Step(i) \/ ReadEnds(i)
                      \/ DeadlinePasses(i) \/ TimerFires(i)
    \/ Switch \/ Drained \/ Swap
    \/ Quit \/ Unmount

Spec == Init /\ [][Next]_vars

\* The loop runs what is ready, time passes and its timers fire, and an app that quits is
\* unmounted.  (A worker does, and suffers, only so much: one condition for all the workers
\* starves none.)  A read need not end.
Works == \E i \in Ids : Step(i)
Time  == \E i \in Ids : DeadlinePasses(i) \/ TimerFires(i)
Fairness == WF_vars(Works) /\ WF_vars(Time) /\ WF_vars(Unmount)

FairSpec == Spec /\ Fairness

-----------------------------------------------------------------------------
(* Properties.                                                             *)

\* A final outcome stays what it is while it is retained: a read, a cancellation or a
\* timeout that comes late does not overwrite a verdict or a stop.
FinalStays ==
    [][\A i \in Ids : i \in Retained /\ phase[i] \in Final => phase'[i] = phase[i]]_vars

\* The client is never swapped under a read, however slowly the reads of stopped and evicted
\* trackers end; and these reads never add up beyond the cap.
ReadsStayHome ==
    /\ Cardinality(InFlight) <= MaxTrackers
    /\ \A i \in InFlight : home[i] = epoch /\ switch # "drained"

\* Every tracker reaches a final outcome, is evicted, or ends with the app, even if no read
\* ever returns.  (They are bounded, and none reopens: so all of them in the end.)
AnyOpen == \E i \in Ids : Open(i)
TrackersSettle == AnyOpen ~> ~AnyOpen

=============================================================================
