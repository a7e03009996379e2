---------------------------- MODULE ProposalStore ----------------------------
(***************************************************************************)
(* tools/proposals.py: the bounded store of write proposals that external  *)
(* MCP clients queue for review.  The MCP server's thread and the TUI's    *)
(* loop call it; one lock makes every method below a single step, but the  *)
(* expiry hook runs after the lock is released.                            *)
(*                                                                         *)
(* Proposals are numbered in submission order, so `_order` is the order of *)
(* the naturals.                                                           *)
(***************************************************************************)
EXTENDS Naturals, FiniteSets

CONSTANTS
    Sessions,       \* MCP sessions that submit
    Ttl,            \* ttl
    Retention,      \* terminal_retention
    MaxPerSession,  \* max_pending_per_session
    MaxTotal,       \* max_pending_total
    MaxTerminal,    \* max_terminal
    Nobody,         \* the owner of an id that is not stored
    MaxSubmits,     \* bound: proposals ever queued
    MaxClock,       \* bound: the clock stops there
    Lag             \* bound: how long a submission may wait for the lock

ASSUME StoreAssumption ==
    /\ Ttl \in Nat \ {0} /\ Retention \in Nat
    /\ MaxPerSession \in Nat /\ MaxTotal \in Nat /\ MaxTerminal \in Nat
    /\ MaxSubmits \in Nat /\ MaxClock \in Nat /\ Lag \in Nat
    /\ Nobody \notin Sessions

Ids == 1 .. MaxSubmits

Terminal == {"executed", "failed", "denied", "expired", "cancelled"}
States   == {"none", "pending", "approved", "gone"} \union Terminal

VARIABLES
    now,         \* the monotonic clock
    closed,      \* _closed
    count,       \* proposals queued so far
    state,       \* _states; "gone" once evicted
    owner,       \* session_id
    expiresAt,   \* expires_at
    resolvedAt,  \* _resolved_at
    unreported,  \* swept, the expiry hook not fired yet
    reported     \* audited expiries: the hook fired, or expire_all returned it

stored == <<state, owner, expiresAt, resolvedAt>>
vars   == <<now, closed, count, stored, unreported, reported>>

\* The last two conjuncts: _proposals, _states and _order have the same keys.
TypeOK ==
    /\ now \in Nat
    /\ closed \in BOOLEAN
    /\ count \in 0 .. MaxSubmits
    /\ state \in [Ids -> States]
    /\ owner \in [Ids -> Sessions \union {Nobody}]
    /\ expiresAt \in [Ids -> Nat]
    /\ resolvedAt \in [Ids -> Nat]
    /\ unreported \in SUBSET Ids
    /\ reported \in SUBSET Ids
    /\ \A p \in Ids : state[p] = "none" <=> p > count
    /\ \A p \in Ids : owner[p] = Nobody <=> state[p] \in {"none", "gone"}

Init ==
    /\ now = 0
    /\ closed = FALSE
    /\ count = 0
    /\ state = [p \in Ids |-> "none"]
    /\ owner = [p \in Ids |-> Nobody]
    /\ expiresAt = [p \in Ids |-> 0]
    /\ resolvedAt = [p \in Ids |-> 0]
    /\ unreported = {}
    /\ reported = {}

-----------------------------------------------------------------------------
(* _sweep_expired(at), with the lock held: first the TTL, then retention.  *)

Pending      == {p \in Ids : state[p] = "pending"}
TerminalIn(st) == {p \in Ids : st[p] \in Terminal}

\* Past their TTL.
StaleApprovedToo(at) == {p \in Ids : state[p] \in {"pending", "approved"} /\ expiresAt[p] <= at}
Stale(at) == {p \in Pending : expiresAt[p] <= at}

\* Beyond max_terminal the oldest resolution goes first, ties by submission.
OverflowBySubmission(kept, resolved) ==
    {p \in kept : Cardinality({q \in kept : q > p}) >= MaxTerminal}
Overflow(kept, resolved) ==
    {p \in kept :
        Cardinality({q \in kept : \/ resolved[q] > resolved[p]
                                  \/ resolved[q] = resolved[p] /\ q > p}) >= MaxTerminal}

\* What retention drops once the stale ones are terminal since `at`.
Evicted(at) ==
    LET resolved == [p \in Ids |-> IF p \in Stale(at) THEN at ELSE resolvedAt[p]]
        terminal == TerminalIn(state) \union Stale(at)
        aged     == {p \in terminal : resolved[p] + Retention <= at}
    IN  aged \union Overflow(terminal \ aged, resolved)

\* _after_sweep owes the expiry hook for what the sweep expired.
NothingOwed(at) == {}
Owed(at) == Stale(at)

\* The sweep at `at`, then `changed` moved to the state `to`.
Sweep(at, changed, to) ==
    LET stale == Stale(at)
        gone  == Evicted(at)
    IN  /\ state' = [p \in Ids |-> IF p \in changed THEN to
                                   ELSE IF p \in gone THEN "gone"
                                   ELSE IF p \in stale THEN "expired" ELSE state[p]]
        /\ resolvedAt' = [p \in Ids |-> IF p \in gone THEN 0
                                        ELSE IF p \in stale \/ (p \in changed /\ to \in Terminal)
                                        THEN at ELSE resolvedAt[p]]
        /\ unreported' = unreported \union Owed(at)

\* The eviction deletes the whole record.
Drop(f, at, none) == [p \in Ids |-> IF p \in Evicted(at) THEN none ELSE f[p]]
DropOwnerAndExpiry(at) ==
    /\ owner' = Drop(owner, at, Nobody)
    /\ expiresAt' = Drop(expiresAt, at, 0)

-----------------------------------------------------------------------------
(* The methods.                                                            *)

\* _cap_error, after the sweep
FullOffByOne(s, at) ==
    LET live == Pending \ Stale(at)
    IN  \/ Cardinality({p \in live : owner[p] = s}) > MaxPerSession
        \/ Cardinality(live) > MaxTotal
Full(s, at) ==
    LET live == Pending \ Stale(at)
    IN  \/ Cardinality({p \in live : owner[p] = s}) >= MaxPerSession
        \/ Cardinality(live) >= MaxTotal

\* submit reads the clock before it takes the lock.
Readings == {t \in 0 .. now : t + Lag >= now}

SubmitAccepted(s, at) ==
    /\ count < MaxSubmits
    /\ ~closed /\ ~Full(s, at)
    /\ Sweep(at, {count + 1}, "pending")
    /\ count' = count + 1
    /\ owner' = [Drop(owner, at, Nobody) EXCEPT ![count + 1] = s]
    /\ expiresAt' = [Drop(expiresAt, at, 0) EXCEPT ![count + 1] = at + Ttl]
    /\ UNCHANGED <<now, closed, reported>>

\* A refused submission sweeps, and reports, all the same.
SubmitRefused(s, at) ==
    /\ closed \/ Full(s, at)
    /\ Sweep(at, {}, "none")
    /\ DropOwnerAndExpiry(at)
    /\ UNCHANGED <<now, closed, count, reported>>

\* get and pending: reads that sweep.
Read ==
    /\ Sweep(now, {}, "none")
    /\ DropOwnerAndExpiry(now)
    /\ UNCHANGED <<now, closed, count, reported>>

\* _transition: sweep, then move `p` if it still is where the caller wants it.
\* Finding it elsewhere is returning False after a sweep: a Read.
TransitionUnswept(p, from, to) ==
    /\ state[p] = from
    /\ state' = [state EXCEPT ![p] = to]
    /\ resolvedAt' = [resolvedAt EXCEPT ![p] = IF to \in Terminal THEN now ELSE @]
    /\ UNCHANGED <<unreported, now, closed, count, owner, expiresAt, reported>>
Transition(p, from, to) ==
    /\ state[p] = from /\ p \notin Stale(now)
    /\ Sweep(now, {p}, to)
    /\ DropOwnerAndExpiry(now)
    /\ UNCHANGED <<now, closed, count, reported>>

Resolve(p, to) ==
    /\ to \in Terminal \ {"executed"}
    /\ Transition(p, "pending", to)
BeginExecution(p) == Transition(p, "pending", "approved")
FinishExecution(p, executed) ==
    Transition(p, "approved", IF executed THEN "executed" ELSE "failed")

\* cancel: the owner is read in a lock section of its own, but never changes.
Cancel(p, s) ==
    /\ owner[p] = s
    /\ Transition(p, "pending", "cancelled")

\* expire_all: no sweep; the caller audits what it returns.
ExpireAll ==
    /\ state' = [p \in Ids |-> IF p \in Pending THEN "expired" ELSE state[p]]
    /\ resolvedAt' = [p \in Ids |-> IF p \in Pending THEN now ELSE resolvedAt[p]]
    /\ reported' = reported \union Pending
    /\ UNCHANGED <<now, closed, count, owner, expiresAt, unreported>>

Close ==
    /\ closed' = TRUE
    /\ UNCHANGED <<now, count, stored, unreported, reported>>

\* _after_sweep in the thread that swept, outside the lock.
Report(p) ==
    /\ p \in unreported
    /\ unreported' = unreported \ {p}
    /\ reported' = reported \union {p}
    /\ UNCHANGED <<now, closed, count, stored>>

Tick ==
    /\ now < MaxClock
    /\ now' = now + 1
    /\ UNCHANGED <<closed, count, stored, unreported, reported>>

Next ==
    \/ \E s \in Sessions, at \in Readings : SubmitAccepted(s, at) \/ SubmitRefused(s, at)
    \/ \E p \in Ids, to \in Terminal : Resolve(p, to)
    \/ \E p \in Ids : BeginExecution(p)
    \/ \E p \in Ids, executed \in BOOLEAN : FinishExecution(p, executed)
    \/ \E p \in Ids, s \in Sessions : Cancel(p, s)
    \/ ExpireAll \/ Read \/ Close \/ Tick
    \/ \E p \in Ids : Report(p)

Spec == Init /\ [][Next]_vars

-----------------------------------------------------------------------------
(* Properties.                                                             *)

\* No sequence of submissions, sweeps and races fills the queue, or a session's
\* share of it, past its cap.
CapsHold ==
    /\ Cardinality(Pending) <= MaxTotal
    /\ \A s \in Sessions : Cardinality({p \in Pending : owner[p] = s}) <= MaxPerSession

\* An approval is granted only to a proposal that is pending and within its TTL
\* at that instant, whatever the reviewer was looking at.
ClaimIsLive ==
    [][\A p \in Ids : state[p] # "approved" /\ state'[p] = "approved" =>
         state[p] = "pending" /\ now < expiresAt[p]]_vars

\* The store keeps the promise of ProposalLifecycle: an approved proposal
\* neither expires, nor is it denied, cancelled, claimed again or evicted; only a
\* claimed one is executed; at most one claim is granted a step; outcomes are final.
Lifecycle == INSTANCE ProposalLifecycle WITH fate <- state
ImplementsLifecycle == Lifecycle!Spec

\* A proposal that leaves the queue past its TTL is audited by the expiry hook or
\* by the caller of expire_all, and never by both, even when the sweep that
\* expired it also evicted it.
ExpiryIsReportedOnce ==
    [][/\ \A p \in Pending : expiresAt[p] <= now /\ state'[p] # "pending"
                               => p \in unreported' \union reported'
       /\ unreported' \intersect reported' = {}]_vars

\* Churning proposals cannot grow the store, and what it keeps is the newest: a proposal
\* is only queued beside max_terminal resolved records or fewer, and no record goes
\* before one that was resolved earlier.
KeepsTheNewest ==
    [][/\ count' # count => Cardinality(TerminalIn(state')) <= MaxTerminal
       /\ \A p, q \in Ids :
             /\ state[p] \in Terminal /\ state'[p] = "gone"
             /\ state[q] \in Terminal /\ state'[q] # "gone"
             => resolvedAt[p] <= resolvedAt[q]]_vars
=============================================================================
