------------------------------- MODULE AgentTurn -------------------------------
(***************************************************************************)
(* A turn of the embedded agent, from the prompt to the history it leaves: *)
(* the panel's interrupt-and-submit (ui/agent_ui_controller.py), the       *)
(* session that owns the turn (agent/session.py), the rounds of the engine *)
(* (agent/native_engine.py), the handoff to the provider                   *)
(* (agent/request_gateway.py) and the transactional history                *)
(* (agent/conversation.py).  The turn is one task; what it does between    *)
(* two awaits is one step, and a cancellation is raised at an await.       *)
(***************************************************************************)
EXTENDS Naturals, Sequences, SequencesExt, FiniteSets

CONSTANTS
    MaxPrompts,    \* bound: prompts the user submits
    MaxRounds,     \* max_iterations
    MaxCalls,      \* max_tool_calls_per_iteration
    MaxKept,       \* MAX_HISTORY_TURNS
    MaxSwitches    \* bound: `:ctx` switches

ASSUME AgentAssumption ==
    /\ {MaxPrompts, MaxRounds, MaxCalls, MaxSwitches} \subseteq Nat /\ MaxRounds > 0
    /\ MaxKept \in Nat \ {0, 1}

VARIABLES
    history,     \* _messages: role, turn, and the calls an assistant message stores
    open,        \* the conversation's turn is active
    live,        \* its iteration: none, open, or sent to the provider
    turnBase, iterationBase,   \* messages before the turn, before its last iteration
    cost, total, \* requests charged to the turn, and to the totals
    active,      \* the session's turn is active
    awaiting,    \* finalization_pending
    last,        \* the context of _last_started
    closed,      \* the session is closed
    halted,      \* the engine's _interrupted
    at,          \* where the turn's task is suspended
    round,       \* iterations begun
    left,        \* tool calls of this round that are not answered
    snapshot,    \* the turn's context, and whether a request of it was handed off
    cancel,      \* of the task: none, asked, or raised in it
    ended,       \* how it ended
    finalized,   \* _turn_finalized
    replacement, \* the queued correction; 0 for none
    running,     \* the panel is in its running state
    submitted,   \* prompts so far
    turn,        \* the prompt of the task
    context,     \* the session's context, and whether a switch is under way
    app,         \* up, leaving, gone
    sent, seen,  \* requests handed to the provider, and the context of the last one
    swallowed    \* a tool absorbed the cancellation of a turn

conversation == <<history, open, live, turnBase, iterationBase, cost, total>>
session      == <<active, awaiting, last, closed, halted>>
task         == <<at, round, left, snapshot, cancel, ended>>
panel        == <<finalized, replacement, running, submitted, turn>>
world        == <<context, app>>
ghost        == <<sent, seen, swallowed>>
vars         == <<conversation, session, task, panel, world, ghost>>

Init ==
    /\ history = <<>> /\ open = FALSE /\ live = "none" /\ turnBase = 0 /\ iterationBase = 0
    /\ cost = 0 /\ total = 0
    /\ active = FALSE /\ awaiting = FALSE /\ last = 0 /\ closed = FALSE /\ halted = FALSE
    /\ at = "none" /\ round = 0 /\ left = 0 /\ snapshot = [of |-> 0, reached |-> FALSE]
    /\ cancel = "none" /\ ended = "well"
    /\ finalized = FALSE /\ replacement = 0 /\ running = FALSE /\ submitted = 0 /\ turn = 0
    /\ context = [of |-> 1, switching |-> FALSE] /\ app = "up"
    /\ sent = 0 /\ seen = 0 /\ swallowed = FALSE

Roles == {"user", "assistant", "tool"}
TypeOK ==
    /\ \A i \in DOMAIN history : history[i].role \in Roles /\ history[i].turn \in 1 .. MaxPrompts
    /\ live \in {"none", "open", "sent"}
    /\ {turnBase, iterationBase} \subseteq Nat
    /\ open => turnBase < iterationBase /\ iterationBase <= Len(history)
    /\ at \in {"none", "spawned", "streaming", "tool", "mirroring", "unwinding", "settled"}
    /\ round \in 0 .. MaxRounds /\ left \in 0 .. MaxCalls
    /\ cancel \in {"none", "asked", "raised"} /\ ended \in {"well", "cancelled", "badly"}
    /\ replacement \in 0 .. submitted /\ turn \in 0 .. submitted
    /\ app \in {"up", "leaving", "gone"}

-----------------------------------------------------------------------------
(* The history: ConversationState.                                         *)

\* The turn the conversation is in, by the prompt that began it.
Current == IF open THEN history[turnBase + 1].turn ELSE turn
Message(role, calls) == [role |-> role, turn |-> Current, calls |-> calls]
Users(h)      == {i \in DOMAIN h : h[i].role = "user"}
Truncated(n)  == SubSeq(history, 1, n)
Charge        == IF live = "sent" THEN 1 ELSE 0

\* The histories that dropping whole turns from the front leaves, at least one kept.
Trimmed(h) == {SubSeq(h, i, Len(h)) : i \in Users(h)}

\* start_turn: trimmed to make room, by number or by size, and the prompt appended.  In
\* strict mode a prompt too large by itself is refused.
TrimmedForTurn ==
    {h \in Trimmed(Append(history, Message("user", 0))) : Cardinality(Users(h)) <= MaxKept}
BaseEarly(h) == IF Len(h) = 1 THEN 0 ELSE Len(h) - 2
Base(h) == Len(h) - 1
StartTurn == open' = TRUE /\ cost' = 0 /\ UNCHANGED total

\* complete_turn
Complete(h) ==
    /\ history' = h /\ total' = total + cost /\ open' = FALSE /\ live' = "none"
    /\ UNCHANGED <<turnBase, iterationBase, cost>>

\* abandon_iteration, then complete_turn: what the failed round appended goes, and its
\* request is charged if it was sent.
AbandonFree ==
    /\ history' = Truncated(iterationBase) /\ total' = total + cost
    /\ open' = FALSE /\ live' = "none" /\ UNCHANGED <<turnBase, iterationBase, cost>>
Abandon ==
    /\ history' = Truncated(iterationBase) /\ total' = total + cost + Charge
    /\ open' = FALSE /\ live' = "none" /\ UNCHANGED <<turnBase, iterationBase, cost>>

\* rollback_turn
RolledBack(h, base) ==
    /\ history' = SubSeq(h, 1, base) /\ total' = total + cost + Charge
    /\ open' = FALSE /\ live' = "none" /\ UNCHANGED <<turnBase, iterationBase, cost>>
Rollback == RolledBack(history, turnBase)

\* finalize_interrupt: the open iteration's footprint is replaced by a marked note.
InterruptedUncut ==
    /\ history' = Append(history, Message("assistant", 0))
    /\ total' = total + cost + Charge
    /\ open' = FALSE /\ live' = "none" /\ UNCHANGED <<turnBase, iterationBase, cost>>
Interrupted ==
    /\ history' = Append(Truncated(iterationBase), Message("assistant", 0))
    /\ total' = total + cost + Charge
    /\ open' = FALSE /\ live' = "none" /\ UNCHANGED <<turnBase, iterationBase, cost>>

-----------------------------------------------------------------------------
(* The panel: prompts, corrections and stops.                              *)

Busy == at \notin {"none", "settled"}

\* _start_turn
Spawn(n) ==
    /\ at' = "spawned" /\ cancel' = "none" /\ turn' = n
    /\ finalized' = FALSE /\ running' = TRUE
    /\ UNCHANGED <<round, left, snapshot, ended>>

\* _signal_interrupt, then task.cancel(), unless it is cancelling.
SignalOnly ==
    /\ halted' = (active \/ halted)
    /\ UNCHANGED <<cancel, active, awaiting, last, closed>>
CancelTask ==
    /\ cancel' = IF cancel = "none" THEN "asked" ELSE cancel
    /\ halted' = IF cancel = "none" /\ active THEN TRUE ELSE halted
    /\ UNCHANGED <<active, awaiting, last, closed>>

\* submit_prompt: during a turn the text becomes the one correction that is queued.
Submit ==
    /\ app = "up" /\ ~context.switching /\ submitted < MaxPrompts
    /\ submitted' = submitted + 1
    /\ IF Busy
         THEN /\ replacement' = submitted'
              /\ CancelTask
              /\ UNCHANGED <<at, round, left, snapshot, ended, finalized, running, turn>>
         ELSE /\ replacement' = 0
              /\ Spawn(submitted')
              /\ UNCHANGED session
    /\ UNCHANGED <<conversation, world, ghost>>

\* interrupt
Stop ==
    /\ app = "up" /\ Busy
    /\ replacement' = 0
    /\ CancelTask
    /\ UNCHANGED <<conversation, at, round, left, snapshot, ended, finalized, running, submitted,
                   turn, world, ghost>>

\* _drain_replacement, the task's done callback: a task cancelled before its first step
\* is settled here, and the correction starts.
Drain ==
    LET unsettled == ended = "cancelled" /\ ~finalized
        next      == replacement # 0 /\ ~context.switching /\ app = "up"
    IN
    /\ at = "settled"
    /\ IF unsettled /\ awaiting THEN Interrupted /\ awaiting' = FALSE
                                ELSE UNCHANGED <<conversation, awaiting>>
    /\ IF next THEN Spawn(replacement)
       ELSE /\ at' = "none"
            /\ finalized' = (finalized \/ unsettled)
            /\ running' = (running /\ ~(unsettled /\ app = "up"))
            /\ UNCHANGED <<round, left, snapshot, cancel, ended, turn>>
    /\ replacement' = 0
    /\ UNCHANGED <<active, last, closed, halted, submitted, world, ghost>>

-----------------------------------------------------------------------------
(* The turn's task: run_turn over AgentSession._drive.                     *)

Alive == cancel # "asked"     \* else the await raises

\* The session gives the turn back: the context note is consumed if a request of the
\* turn was handed off, and a conversation left open owes a finalization.
ReleaseAnyway == /\ active' = FALSE /\ awaiting' = open'
                 /\ last' = snapshot.of
                 /\ UNCHANGED <<closed, halted>>
Release == /\ active' = FALSE /\ awaiting' = open'
           /\ last' = IF snapshot.reached THEN snapshot.of ELSE last
           /\ UNCHANGED <<closed, halted>>
Settle(how) == /\ at' = "settled" /\ ended' = how
               /\ UNCHANGED <<round, left, snapshot, cancel>>

\* The last event takes the panel out of its running state.
Shown == running' = FALSE /\ UNCHANGED <<finalized, replacement, submitted, turn>>
Ends  == Release /\ Settle("well") /\ Shown /\ UNCHANGED <<world, ghost>>

\* _shift_bases
Shifted(base, removed) == IF removed < base THEN base - removed ELSE 0

\* The next request, whose preparation may drop the oldest turns, or fail closed.
Prepare(h, base, r) ==
    \E kept \in Trimmed(h) :
        /\ history' = kept /\ turnBase' = Shifted(base, Len(h) - Len(kept))
        /\ iterationBase' = Len(kept) /\ live' = "open"
        /\ at' = "streaming" /\ round' = r /\ left' = 0

\* The first step: the session claims the turn and reads the screen's context.  It
\* refuses while it owes a finalization, and the task fails.
Begin ==
    /\ at = "spawned" /\ Alive
    /\ IF awaiting \/ active \/ closed
         THEN Settle("badly") /\ UNCHANGED <<conversation, session, panel>>
         ELSE /\ halted' = FALSE /\ UNCHANGED <<closed, cancel>>
              /\ \/ \E h \in TrimmedForTurn :
                      /\ StartTurn /\ active' = TRUE
                      /\ Prepare(h, Base(h), 1)
                      /\ snapshot' = [of |-> context.of, reached |-> FALSE]
                      /\ UNCHANGED <<awaiting, last, ended, panel>>
                 \/ \E h \in TrimmedForTurn :      \* the prompt does not fit, or is unsendable
                      /\ history' = Front(h) /\ at' = "settled" /\ ended' = "well" /\ Shown
                      /\ snapshot' = [of |-> context.of, reached |-> FALSE]
                      /\ UNCHANGED <<open, live, turnBase, iterationBase, cost, total, active,
                                     awaiting, last, round, left>>
    /\ UNCHANGED <<world, ghost>>

\* The gateway's proof of handoff: the provider's first event.
HandOff ==
    /\ at = "streaming" /\ Alive /\ live = "open"
    /\ live' = "sent" /\ snapshot' = [snapshot EXCEPT !.reached = TRUE]
    /\ sent' = sent + 1 /\ seen' = snapshot.of
    /\ UNCHANGED <<swallowed, history, open, turnBase, iterationBase, cost, total, session, at, round, left,
                   cancel, ended, panel, world>>

\* The stream ends: the answer, or an assistant message and its first call.
Answer ==
    /\ at = "streaming" /\ Alive /\ live = "sent" /\ ~halted
    /\ history' = Append(history, Message("assistant", 0))
    /\ total' = total + cost + 1 /\ open' = FALSE /\ live' = "none"
    /\ UNCHANGED <<turnBase, iterationBase, cost>>
    /\ Ends
Calls ==
    /\ at = "streaming" /\ Alive /\ live = "sent" /\ ~halted
    /\ \E k \in 1 .. MaxCalls :
          history' = Append(history, Message("assistant", k)) /\ left' = k
    /\ cost' = cost + 1 /\ live' = "none" /\ at' = "tool"
    /\ UNCHANGED <<open, turnBase, iterationBase, total, session, round, snapshot, cancel, ended,
                   panel, world, ghost>>

\* The provider, or the gateway, fails the round; or the boundary refuses what a tool
\* returned.
ProviderFails == at = "streaming" /\ Alive /\ ~halted /\ Abandon /\ Ends
Unsendable == at = "tool" /\ Alive /\ Rollback /\ Ends

\* A tool answers.  Its row is shown, and mirrored on screen, before its result is stored.
ToolReturns ==
    /\ at = "tool" /\ Alive
    /\ at' = "mirroring"
    /\ UNCHANGED <<conversation, session, round, left, snapshot, cancel, ended, panel, world, ghost>>

\* A tool, or its mirror, that stops a watch absorbs the cancellation raised in its await.
Swallow ==
    /\ at \in {"tool", "mirroring"} /\ cancel = "asked"
    /\ cancel' = "raised" /\ swallowed' = TRUE
    /\ UNCHANGED <<conversation, session, at, round, left, snapshot, ended, panel, world, sent, seen>>

\* The result is stored.  An interrupt that was only flagged ends the turn here, open;
\* else the next call, the next round, or an early stop follows.
Stored == Append(history, Message("tool", 0))
StoreResult ==
    /\ at = "mirroring" /\ Alive
    /\ UNCHANGED <<world, ghost>>
    /\ \/ /\ halted
          /\ history' = Stored /\ UNCHANGED <<open, live, turnBase, iterationBase, cost, total, panel>>
          /\ Release /\ Settle("well")
       \/ /\ ~halted /\ left > 1
          /\ history' = Stored /\ left' = left - 1 /\ at' = "tool"
          /\ UNCHANGED <<open, live, turnBase, iterationBase, cost, total, session, round, snapshot,
                         cancel, ended, panel>>
       \/ /\ ~halted /\ left = 1 /\ round < MaxRounds
          /\ Prepare(Stored, turnBase, round + 1)
          /\ UNCHANGED <<open, cost, total, session, snapshot, cancel, ended, panel>>
       \/ /\ ~halted /\ left = 1      \* a limit, or an acknowledgement that ends the turn
          /\ \E h \in {Stored, Append(Stored, Message("assistant", 0))} : Complete(h)
          /\ Ends
       \/ /\ ~halted /\ left = 1 /\ round < MaxRounds    \* the next request does not fit
          /\ \E kept \in Trimmed(Stored) :
                RolledBack(kept, Shifted(turnBase, Len(Stored) - Len(kept)))
          /\ Ends

\* An error of the panel's own, at an event: the generator is closed and what it owes
\* finalized.
PanelFails ==
    /\ at \in {"streaming", "mirroring"} /\ Alive
    /\ Interrupted /\ Release /\ Settle("well") /\ Shown
    /\ UNCHANGED <<world, ghost>>

-----------------------------------------------------------------------------
(* Cancellation.                                                           *)

\* Before its first step the task just ends.
CancelUnstarted ==
    /\ at = "spawned" /\ cancel = "asked"
    /\ at' = "settled" /\ ended' = "cancelled" /\ cancel' = "raised"
    /\ UNCHANGED <<conversation, session, round, left, snapshot, panel, world, ghost>>

\* Later it unwinds the generators, closing the provider's stream, which may take a while,
\* and settles the turn.
CancelRaised ==
    /\ at \in {"streaming", "tool", "mirroring"} /\ cancel = "asked"
    /\ at' = "unwinding" /\ cancel' = "raised"
    /\ UNCHANGED <<conversation, session, round, left, snapshot, ended, panel, world, ghost>>
UnwoundUnfinished ==
    /\ at = "unwinding" /\ UNCHANGED conversation
    /\ Release /\ Settle("cancelled")
    /\ finalized' = TRUE /\ running' = (running /\ app # "up")
    /\ UNCHANGED <<replacement, submitted, turn, world, ghost>>
Unwound ==
    /\ at = "unwinding"
    /\ Interrupted /\ Release /\ Settle("cancelled")
    /\ finalized' = TRUE /\ running' = (running /\ app # "up")
    /\ UNCHANGED <<replacement, submitted, turn, world, ghost>>

-----------------------------------------------------------------------------
(* `:ctx`, which an idle agent lets through, and the exit.                 *)

SwitchStarts ==
    /\ app = "up" /\ ~Busy /\ ~context.switching /\ context.of <= MaxSwitches
    /\ context' = [context EXCEPT !.switching = TRUE]
    /\ UNCHANGED <<conversation, session, task, panel, app, ghost>>
SwitchEnds ==
    /\ context.switching
    /\ \E c \in {context.of, context.of + 1} : context' = [of |-> c, switching |-> FALSE]
    /\ UNCHANGED <<conversation, session, task, panel, app, ghost>>

\* begin_shutdown
Leave ==
    /\ app = "up" /\ app' = "leaving"
    /\ UNCHANGED <<conversation, session, task, panel, context, ghost>>

\* shutdown: the task is cancelled and waited for, then the session closed, which
\* finalizes a turn still open.
ShutdownCancels ==
    /\ app = "leaving" /\ Busy /\ cancel = "none"
    /\ CancelTask
    /\ UNCHANGED <<conversation, at, round, left, snapshot, ended, panel, world, ghost>>
Close ==
    /\ app = "leaving" /\ ~Busy
    /\ app' = "gone" /\ closed' = TRUE /\ awaiting' = FALSE
    /\ IF open THEN Interrupted ELSE UNCHANGED conversation
    /\ UNCHANGED <<active, last, halted, task, panel, context, ghost>>

Next ==
    \/ Submit \/ Stop \/ Drain
    \/ Begin \/ HandOff \/ Answer \/ Calls \/ ProviderFails \/ Unsendable
    \/ ToolReturns \/ Swallow \/ StoreResult \/ PanelFails
    \/ CancelUnstarted \/ CancelRaised \/ Unwound
    \/ SwitchStarts \/ SwitchEnds \/ Leave \/ ShutdownCancels \/ Close

Spec == Init /\ [][Next]_vars

\* The loop runs what is ready; an API call or a tool may take for ever.
Fairness ==
    /\ WF_vars(Drain) /\ WF_vars(Begin \/ CancelUnstarted) /\ WF_vars(CancelRaised)
    /\ WF_vars(Unwound)
FairSpec == Spec /\ Fairness

-----------------------------------------------------------------------------
(* Properties.                                                             *)

\* What a provider is sent, and what a turn leaves behind, is a history it accepts: each
\* stored call has its result, right after the message that made it, and no result
\* stands alone.
Paired(h) ==
    \A i \in DOMAIN h :
        /\ h[i].role = "assistant" => /\ i + h[i].calls <= Len(h)
                                      /\ \A j \in i + 1 .. i + h[i].calls : h[j].role = "tool"
        /\ h[i].role = "tool" => \E j \in 1 .. i - 1 : j + h[j].calls >= i
HistoryIsSendable == live # "none" \/ ~open => Paired(history)

\* However a turn ends, and whatever is dropped to make room for it, the turns before it
\* stay as they were: only whole ones go, from the front.
Before(h, n) == SelectSeq(h, LAMBDA m : m.turn < n)
PastIsKept ==
    [][Before(history', Current) \in {<<>>} \union Trimmed(Before(history, Current))]_vars

\* Every request the provider got is charged once, and no other: over answers, failed
\* rounds, rollbacks and interruptions.
ChargedOnce == ~open => total = sent

\* The note about a changed context is owed until a turn that carries it was handed off:
\* the session knows what the model last saw.
NoteIsOwed == ~active => last = seen

\* Once its task is over the agent accepts the next prompt: the session is idle and owes
\* nothing, and the panel is out of its running state.  Unless a tool absorbed the
\* cancellation: then it does wedge (NoPromptIsRefused).
NothingWedges ==
    \/ swallowed
    \/ /\ ~Busy => ~active /\ ~awaiting /\ ~open
       /\ at = "none" /\ app = "up" => ~running

\* No prompt is turned away because of a turn that was stopped before it.
NoPromptIsRefused == ended # "badly"

\* A queued correction does not wait for ever on the turn it interrupted, unless a tool
\* absorbed the cancellation.
CorrectionIsTaken == replacement # 0 ~> (replacement = 0 \/ swallowed)
=============================================================================
