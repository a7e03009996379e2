------------------------- MODULE ProposalReviewProofs -------------------------
(***************************************************************************)
(* Theorems of ProposalReview, for any number of proposals, runs and       *)
(* epochs, whether or not stops and reads are late and the user leaves.    *)
(***************************************************************************)
EXTENDS ProposalReview, FiniteSetTheorems, TLAPS

\* Proposals are queued one after the other.
CountInv == \A p \in Ids : state[p] = "none" <=> p > count

\* A submission that is being validated belongs to the current run, which is still there,
\* and has its place in the queue.
IntakeInv == intake.busy => /\ intake.run = runs /\ server # "off"
                            /\ app \in {"up", "exiting"} /\ count < MaxProposals

\* Who holds the lock: a review from its claim on, a switch once it is past its guards.
LockInv ==
    /\ sw \in {"quiescing", "quiesced", "retargeting", "resuming"} => navLock = "switch"
    /\ review \in {"rechecking", "writing"} => navLock = "review"

\* No server runs where a run is about to start.
RestInv ==
    /\ navLock = "mcp_on" => server = "off"
    /\ sw \in {"quiesced", "retargeting", "resuming"} /\ restart => server = "off"

\* Nothing is pending where a sweep has just been and no submission can come in.
SweptInv ==
    /\ navLock = "mcp_on" => Pending = {}
    /\ sw \in {"retargeting", "resuming"} => Pending = {}

\* What is pending was queued by the run that is the current one.
RunInv == \A p \in Pending : run[p] = runs \/ p \in carried

\* The proposal under review was queued; a claimed one is approved, under the lock, in the
\* epoch and the run it was made for.
TargetInv ==
    /\ review \notin {"idle", "next"} => target \in Ids
    /\ review \in {"rechecking", "writing"} =>
         /\ state[target] = "approved" /\ bound[target] = epoch
         /\ run[target] = runs \/ target \in carried


\* What the bounds of the model need: a stop is of some run, and one epoch is left.
BoundInv ==
    /\ server # "off" \/ navLock = "mcp_off" => runs > 0
    /\ sw \in {"probing", "quiescing", "quiesced", "retargeting"} => epoch < MaxEpoch

Inv == /\ TypeOK /\ CountInv /\ IntakeInv /\ LockInv /\ RestInv /\ SweptInv /\ RunInv /\ TargetInv
       /\ BoundInv /\ PendingIsCurrent /\ OutcomeMatchesCluster

\* The bounds are numbers.
LEMMA Bounds == /\ MaxProposals \in Nat \ {0} /\ MaxRuns \in Nat \ {0} /\ MaxEpoch \in Nat
                /\ Ids = 1 .. MaxProposals
  BY ReviewAssumption DEF Ids

-----------------------------------------------------------------------------
(* The oldest proposal.                                                    *)

\* A set of numbers has a smallest one: intervals are well founded.
LEMMA HasSmallest ==
  ASSUME NEW N \in Nat, NEW S \in SUBSET (1 .. N), S # {}
  PROVE  \E m \in S : \A n \in S : m <= n
  <1> DEFINE T == {1 .. m : m \in S}
             R == StrictSubsetOrdering(1 .. N)
  <1>1. IsWellFoundedOn(R, FiniteSubsetsOf(1 .. N))
    BY FS_StrictSubsetOrderingWellFounded
  <1>2. T \subseteq FiniteSubsetsOf(1 .. N) /\ T # {}
    <2>1. ASSUME NEW m \in S
          PROVE  1 .. m \in SUBSET (1 .. N) /\ IsFiniteSet(1 .. m)
      BY FS_Interval
    <2>2. QED
      BY <2>1 DEF FiniteSubsetsOf
  <1>3. PICK x \in T : \A y \in T : <<y, x>> \notin R
    <2> HIDE DEF T, R
    <2>1. QED
      BY <1>1, <1>2, WFMin, Zenon
  <1>4. PICK m \in S : x = 1 .. m
    BY <1>3
  <1>5. ASSUME NEW n \in S, n < m
        PROVE  FALSE
    <2>1. 1 .. n \in T /\ 1 .. n \subseteq 1 .. m /\ m \in 1 .. m /\ m \notin 1 .. n
      BY <1>5
    <2>2. <<1 .. n, x>> \in R
      BY <2>1, <1>4 DEF StrictSubsetOrdering
    <2>3. QED
      BY <2>1, <2>2, <1>3
  <1>6. QED
    BY <1>5

\* The proposal _review_proposals takes is the oldest pending one.
LEMMA Oldest ==
  ASSUME Pending # {}
  PROVE  LET p == CHOOSE oldest \in Pending : \A q \in Pending : oldest <= q
         IN  p \in Pending
  <1>1. \E m \in Pending : \A n \in Pending : m <= n
    BY HasSmallest, Bounds DEF Pending, Ids
  <1>2. QED
    BY <1>1

-----------------------------------------------------------------------------
(* Which steps change what.                                                *)

\* Only the submission that reaches its end adds to the queue.
LEMMA Queues == [Next]_vars => IntakeQueues \/ UNCHANGED <<count, run, bound>>
  BY DEF Next, vars, proposals, IntakeStarts, IntakeEnds, Withdraw, OpenReview, ReviewNext, Permitted,
         Decide, Claim, Recheck, Land, Finish, Dies, ToggleOn, ToggledOn, ToggleOff, ToggledOff,
         SweepAfterTeardown, SwitchStarts, SwitchGivesUp, SwitchLocks, Quiesce, Drain, AbortUndrained,
         Retarget, Resume, Exit, CloseBridge, Unmount

\* Only `:mcp on` and a switch that gives the server back start a run.
LEMMA Starts == [Next]_vars => ToggledOn \/ AbortUndrained \/ Resume \/ UNCHANGED runs
  BY DEF Next, vars, mcp, IntakeStarts, IntakeQueues, IntakeEnds, Withdraw, OpenReview, ReviewNext,
         Permitted, Decide, Claim, Recheck, Land, Finish, Dies, ToggleOn, ToggleOff, ToggledOff,
         SweepAfterTeardown, SwitchStarts, SwitchGivesUp, SwitchLocks, Quiesce, Drain,
         Retarget, Exit, CloseBridge, Unmount

\* Only a retarget changes the epoch.
LEMMA Retargets == [Next]_vars => Retarget \/ UNCHANGED epoch
  BY DEF Next, vars, ctx, IntakeStarts, IntakeQueues, IntakeEnds, Withdraw, OpenReview, ReviewNext,
         Permitted, Decide, Claim, Recheck, Land, Finish, Dies, ToggleOn, ToggledOn, ToggleOff, ToggledOff,
         SweepAfterTeardown, SwitchStarts, SwitchGivesUp, SwitchLocks, Quiesce, Drain, AbortUndrained,
         Resume, Exit, CloseBridge, Unmount

\* Only the API server commits.
LEMMA Commits == [Next]_vars => Land \/ UNCHANGED landed
  BY DEF Next, vars, ghost, IntakeStarts, IntakeQueues, IntakeEnds, Withdraw, OpenReview, ReviewNext,
         Permitted, Decide, Claim, Recheck, Finish, Dies, ToggleOn, ToggledOn, ToggleOff, ToggledOff,
         SweepAfterTeardown, SwitchStarts, SwitchGivesUp, SwitchLocks, Quiesce, Drain, AbortUndrained,
         Retarget, Resume, Exit, CloseBridge, Unmount

\* What else changes a record withdraws it while it is pending.
Withdrawing == \A p \in Ids : \/ state'[p] = state[p]
                              \/ state[p] = "pending" /\ state'[p] \in Terminal \ {"executed"}

\* A sweep withdraws what is pending.
LEMMA Expires == ASSUME ExpireAll PROVE Withdrawing /\ Pending' = {}
  <1>1. \A p \in Ids : state'[p] = IF state[p] = "pending" THEN "expired" ELSE state[p]
    BY DEF ExpireAll, Pending
  <1>2. QED
    BY <1>1 DEF Withdrawing, Pending, Terminal

\* An attempt to settle a record withdraws it, or finds it settled.
LEMMA Resolves ==
  ASSUME TypeOK, NEW p, NEW to \in Terminal \ {"executed"}, Resolve(p, to)
  PROVE  Withdrawing
  <1>1. \A q \in Ids : state'[q] = IF q = p /\ state[q] = "pending" THEN to ELSE state[q]
    BY DEF TypeOK, Resolve
  <1>2. QED
    BY <1>1 DEF Withdrawing

\* Apart from the queue's new entries, claims and outcomes, a step only withdraws.
LEMMA Withdraws ==
  ASSUME TypeOK, [Next]_vars
  PROVE  IntakeQueues \/ Claim \/ Recheck \/ Finish \/ Exit \/ Withdrawing
  <1>1. {"expired", "cancelled", "failed", "denied"} \subseteq Terminal \ {"executed"}
    BY DEF Terminal
  <1>2. UNCHANGED state => Withdrawing
    BY DEF Withdrawing
  <1>3. ASSUME NEW p \in Ids, Withdraw(p)
        PROVE  Withdrawing
    BY <1>1, <1>3, Resolves DEF Withdraw
  <1>4. CASE ReviewNext
    BY <1>1, <1>2, <1>4, Resolves DEF ReviewNext
  <1>5. CASE Permitted \/ Decide
    BY <1>1, <1>2, <1>5, Resolves DEF Permitted, Decide
  <1>6. CASE ToggleOn \/ ToggledOff \/ Drain \/ Unmount \/ \E r \in 1 .. MaxRuns : SweepAfterTeardown(r)
    BY <1>2, <1>6, Expires DEF ToggleOn, ToggledOff, Drain, Unmount, SweepAfterTeardown
  <1>7. \/ IntakeQueues \/ Claim \/ Recheck \/ Finish \/ Exit
        \/ ReviewNext \/ Permitted \/ Decide \/ ToggleOn \/ ToggledOff \/ Drain \/ Unmount
        \/ \E p \in Ids : Withdraw(p)
        \/ \E r \in 1 .. MaxRuns : SweepAfterTeardown(r)
        \/ UNCHANGED state
    BY DEF Next, vars, proposals, IntakeStarts, IntakeEnds, OpenReview, Land, Dies, ToggledOn, ToggleOff,
           SwitchStarts, SwitchGivesUp, SwitchLocks, Quiesce, AbortUndrained, Retarget, Resume, CloseBridge
  <1>8. QED
    BY <1>2, <1>3, <1>4, <1>5, <1>6, <1>7

-----------------------------------------------------------------------------
(* The invariant holds initially, and every step preserves it.             *)

\* Before anything is queued.
LEMMA InitInv == Init => Inv
  <1> SUFFICES ASSUME Init PROVE Inv
    OBVIOUS
  <1> USE DEF Init
  <1>1. TypeOK
    <2>1. intake \in [busy : BOOLEAN, run : 0 .. runs, epoch : 0 .. epoch]
      BY DEF Calm
    <2>2. /\ runs \in 0 .. MaxRuns /\ epoch \in 0 .. MaxEpoch /\ count \in 0 .. MaxProposals
          /\ target \in 0 .. count
      BY Bounds
    <2>3. /\ state \in [Ids -> {"none", "pending", "approved"} \union Terminal]
          /\ run \in [Ids -> 0 .. runs] /\ bound \in [Ids -> 0 .. epoch]
      OBVIOUS
    <2>4. QED
      BY <2>1, <2>2, <2>3 DEF TypeOK
  <1>2. CountInv /\ PendingIsCurrent /\ OutcomeMatchesCluster /\ RunInv
    BY Bounds DEF CountInv, PendingIsCurrent, OutcomeMatchesCluster, RunInv, Pending, Ids
  <1>3. IntakeInv /\ LockInv /\ RestInv /\ SweptInv /\ TargetInv /\ BoundInv
    BY DEF IntakeInv, LockInv, RestInv, SweptInv, TargetInv, BoundInv, Calm
  <1>4. QED
    BY <1>1, <1>2, <1>3 DEF Inv

\* The counters stay within their bounds and never go back.
LEMMA Counters ==
  ASSUME Inv, [Next]_vars
  PROVE  /\ runs \in Nat /\ epoch \in Nat /\ count \in Nat
         /\ runs' \in 0 .. MaxRuns /\ runs <= runs' /\ epoch' \in 0 .. MaxEpoch /\ epoch <= epoch'
         /\ count' \in 0 .. MaxProposals /\ count <= count'
  <1> USE Bounds
  <1>1. TypeOK /\ IntakeInv /\ BoundInv
    BY DEF Inv
  <1>2. runs \in Nat /\ epoch \in Nat /\ count \in Nat
    BY <1>1 DEF TypeOK
  <1>3. runs' \in 0 .. MaxRuns /\ runs <= runs'
    BY <1>1, Starts DEF TypeOK, ToggledOn, AbortUndrained, Resume, StartsRun
  <1>4. epoch' \in 0 .. MaxEpoch /\ epoch <= epoch'
    BY <1>1, Retargets DEF TypeOK, BoundInv, Retarget
  <1>5. count' \in 0 .. MaxProposals /\ count <= count'
    BY <1>1, Queues DEF TypeOK, IntakeQueues, IntakeInv
  <1>6. QED
    BY <1>2, <1>3, <1>4, <1>5

\* Stops are of runs that started, targets and commits of proposals that were queued.
LEMMA Types == ASSUME Inv, [Next]_vars PROVE TypeOK'
  <1> USE Counters
  <1>1. TypeOK /\ CountInv /\ IntakeInv /\ BoundInv /\ TargetInv
    BY DEF Inv
  <1>2. /\ app' \in {"up", "exiting", "closing", "gone"}
        /\ server' \in {"off", "up", "dying"}
        /\ navLock' \in {"free", "review", "switch", "mcp_on", "mcp_off"}
    BY <1>1 DEF TypeOK, Next, vars, mcp, StartsRun, RunEnds, RunLingers, IntakeStarts, IntakeQueues, IntakeEnds, Withdraw, OpenReview, ReviewNext, Permitted,
           Decide, Claim, Recheck, Land, Finish, Dies, ToggleOn, ToggledOn, ToggleOff, ToggledOff,
           SweepAfterTeardown, SwitchStarts, SwitchGivesUp, SwitchLocks, Quiesce, Drain,
           AbortUndrained, Retarget, Resume, Exit, CloseBridge, Unmount
  <1>3. /\ restart' \in BOOLEAN
        /\ sw' \in {"idle", "probing", "quiescing", "quiesced", "retargeting", "resuming"}
    BY <1>1 DEF TypeOK, Next, vars, ctx, SwitchOver, IntakeStarts, IntakeQueues, IntakeEnds, Withdraw, OpenReview, ReviewNext, Permitted,
           Decide, Claim, Recheck, Land, Finish, Dies, ToggleOn, ToggledOn, ToggleOff, ToggledOff,
           SweepAfterTeardown, SwitchStarts, SwitchGivesUp, SwitchLocks, Quiesce, Drain,
           AbortUndrained, Retarget, Resume, Exit, CloseBridge, Unmount
  <1>4. switching' \in BOOLEAN /\ (switching' <=> sw' # "idle")
    <2>1. \/ UNCHANGED <<switching, sw>>
          \/ switching' = FALSE /\ sw' = "idle"
          \/ switching' = TRUE /\ sw' = "probing"
          \/ UNCHANGED switching /\ sw # "idle" /\ sw' # "idle"
      BY DEF Next, vars, ctx, SwitchOver, IntakeStarts, IntakeQueues, IntakeEnds, Withdraw, OpenReview, ReviewNext, Permitted,
             Decide, Claim, Recheck, Land, Finish, Dies, ToggleOn, ToggledOn, ToggleOff, ToggledOff,
             SweepAfterTeardown, SwitchStarts, SwitchGivesUp, SwitchLocks, Quiesce, Drain,
             AbortUndrained, Retarget, Resume, Exit, CloseBridge, Unmount
    <2>2. switching \in BOOLEAN /\ (switching <=> sw # "idle")
      BY <1>1 DEF TypeOK
    <2>3. CASE UNCHANGED switching
      BY <2>1, <2>2, <2>3
    <2>4. CASE ~UNCHANGED switching
      BY <2>1, <2>4
    <2>5. QED
      BY <2>3, <2>4
  <1>5. owed' \subseteq 1 .. runs' /\ left' \subseteq 1 .. runs'
    <2>1. owed' \subseteq owed \union {runs} /\ (navLock = "mcp_off" \/ owed' \subseteq owed)
      BY DEF Next, vars, mcp, IntakeStarts, IntakeQueues, IntakeEnds, Withdraw, OpenReview, ReviewNext, Permitted,
             Decide, Claim, Recheck, Land, Finish, Dies, ToggleOn, ToggledOn, ToggleOff, ToggledOff,
             SweepAfterTeardown, SwitchStarts, SwitchGivesUp, SwitchLocks, Quiesce, Drain,
             AbortUndrained, Retarget, Resume, Exit, CloseBridge, Unmount
    <2>2. left' \subseteq left \union {runs} /\ (server # "off" \/ left' \subseteq left)
      BY DEF Next, vars, ghost, IntakeStarts, IntakeQueues, IntakeEnds, Withdraw, OpenReview, ReviewNext, Permitted,
             Decide, Claim, Recheck, Land, Finish, Dies, ToggleOn, ToggledOn, ToggleOff, ToggledOff,
             SweepAfterTeardown, SwitchStarts, SwitchGivesUp, SwitchLocks, Quiesce, Drain,
             AbortUndrained, Retarget, Resume, Exit, CloseBridge, Unmount
    <2>3. owed \subseteq 1 .. runs /\ left \subseteq 1 .. runs
      BY <1>1 DEF TypeOK
    <2>4. QED
      BY <1>1, <2>1, <2>2, <2>3, Bounds DEF BoundInv
  <1>6. state' \in [Ids -> {"none", "pending", "approved"} \union Terminal]
    <2>1. state' = [p \in Ids |-> state'[p]]
      BY <1>1 DEF TypeOK, Next, vars, proposals, ExpireAll, Resolve, Settled, IntakeStarts, IntakeQueues, IntakeEnds, Withdraw, OpenReview, ReviewNext, Permitted,
             Decide, Claim, Recheck, Land, Finish, Dies, ToggleOn, ToggledOn, ToggleOff, ToggledOff,
             SweepAfterTeardown, SwitchStarts, SwitchGivesUp, SwitchLocks, Quiesce, Drain,
             AbortUndrained, Retarget, Resume, Exit, CloseBridge, Unmount
    <2>2. ASSUME NEW p \in Ids
          PROVE  state'[p] \in {"none", "pending", "approved"} \union Terminal
      <3>1. CASE Withdrawing
        BY <1>1, <3>1 DEF TypeOK, Withdrawing
      <3>2. CASE IntakeQueues \/ Claim \/ Recheck \/ Finish \/ Exit
        BY <1>1, <3>2 DEF TypeOK, IntakeQueues, Claim, Recheck, Finish, Exit, Settled, Terminal
      <3>3. QED
        BY <1>1, <3>1, <3>2, Withdraws
    <2>3. QED
      BY <2>1, <2>2
  <1>7. run' \in [Ids -> 0 .. runs'] /\ bound' \in [Ids -> 0 .. epoch']
    <2>1. run \in [Ids -> 0 .. runs'] /\ bound \in [Ids -> 0 .. epoch']
      <3>1. run \in [Ids -> 0 .. runs] /\ bound \in [Ids -> 0 .. epoch]
        BY <1>1 DEF TypeOK
      <3>2. 0 .. runs \subseteq 0 .. runs' /\ 0 .. epoch \subseteq 0 .. epoch'
        BY Bounds
      <3>3. QED
        BY <3>1, <3>2
    <2>2. intake.run \in 0 .. runs' /\ intake.epoch \in 0 .. epoch'
      BY <1>1, Bounds DEF TypeOK
    <2>3. CASE IntakeQueues
      BY <2>1, <2>2, <2>3 DEF IntakeQueues
    <2>4. QED
      BY <2>1, <2>3, Queues
  <1>8. intake' \in [busy : BOOLEAN, run : 0 .. runs', epoch : 0 .. epoch']
    <2>1. Calm \in [busy : BOOLEAN, run : 0 .. runs', epoch : 0 .. epoch']
      BY Bounds DEF Calm
    <2>2. intake \in [busy : BOOLEAN, run : 0 .. runs', epoch : 0 .. epoch']
      BY <1>1, Bounds DEF TypeOK
    <2>3. CASE IntakeStarts
      <3>1. intake' = [busy |-> TRUE, run |-> runs, epoch |-> epoch]
        BY <2>3 DEF IntakeStarts
      <3>2. runs \in 0 .. runs' /\ epoch \in 0 .. epoch'
        BY Bounds
      <3>3. QED
        BY <3>1, <3>2
    <2>4. IntakeStarts \/ intake' \in {Calm, intake}
      BY DEF Next, vars, RunEnds, RunLingers, IntakeStarts, IntakeQueues, IntakeEnds, Withdraw, OpenReview, ReviewNext, Permitted,
             Decide, Claim, Recheck, Land, Finish, Dies, ToggleOn, ToggledOn, ToggleOff, ToggledOff,
             SweepAfterTeardown, SwitchStarts, SwitchGivesUp, SwitchLocks, Quiesce, Drain,
             AbortUndrained, Retarget, Resume, Exit, CloseBridge, Unmount
    <2>5. QED
      BY <2>1, <2>2, <2>3, <2>4
  <1>9. review' \in {"idle", "next", "permitting", "dialog", "claiming", "rechecking", "writing"}
    BY <1>1 DEF TypeOK, Next, vars, reviewing, IntakeStarts, IntakeQueues, IntakeEnds, Withdraw, OpenReview, ReviewNext, Permitted,
           Decide, Claim, Recheck, Land, Finish, Dies, ToggleOn, ToggledOn, ToggleOff, ToggledOff,
           SweepAfterTeardown, SwitchStarts, SwitchGivesUp, SwitchLocks, Quiesce, Drain,
           AbortUndrained, Retarget, Resume, Exit, CloseBridge, Unmount
  <1>10. Pending \subseteq 1 .. count
    BY <1>1, Bounds DEF CountInv, Pending, TypeOK
  <1>11. target' \in 0 .. count'
    <2>1. CASE ReviewNext
      <3>1. Pending = {} => target' = target
        BY <2>1 DEF ReviewNext
      <3>2. Pending # {} => target' \in Pending
        BY <2>1, Oldest DEF ReviewNext
      <3>3. target \in 0 .. count
        BY <1>1 DEF TypeOK
      <3>4. CASE Pending = {}
        BY <3>1, <3>3, <3>4, Bounds
      <3>5. CASE Pending # {}
        <4>1. target' \in 1 .. count
          BY <3>2, <3>5, <1>10
        <4>2. QED
          BY <4>1, Bounds
      <3>6. QED
        BY <3>4, <3>5
    <2>2. ReviewNext \/ target' = target
      BY DEF Next, vars, reviewing, IntakeStarts, IntakeQueues, IntakeEnds, Withdraw, OpenReview, ReviewNext, Permitted,
             Decide, Claim, Recheck, Land, Finish, Dies, ToggleOn, ToggledOn, ToggleOff, ToggledOff,
             SweepAfterTeardown, SwitchStarts, SwitchGivesUp, SwitchLocks, Quiesce, Drain,
             AbortUndrained, Retarget, Resume, Exit, CloseBridge, Unmount
    <2>3. QED
      BY <1>1, <2>1, <2>2, Bounds DEF TypeOK
  <1>12. landed' \subseteq 1 .. count' /\ carried' \subseteq 1 .. count'
    <2>1. landed' \subseteq landed \union {target} /\ (review = "writing" \/ landed' \subseteq landed)
      BY Commits DEF Land
    <2>2. carried' \subseteq carried \union Pending
      BY DEF Next, vars, ghost, IntakeStarts, IntakeQueues, IntakeEnds, Withdraw, OpenReview, ReviewNext, Permitted,
             Decide, Claim, Recheck, Land, Finish, Dies, ToggleOn, ToggledOn, ToggleOff, ToggledOff,
             SweepAfterTeardown, SwitchStarts, SwitchGivesUp, SwitchLocks, Quiesce, Drain,
             AbortUndrained, Retarget, Resume, Exit, CloseBridge, Unmount
    <2>3. landed \subseteq 1 .. count /\ carried \subseteq 1 .. count
      BY <1>1 DEF TypeOK
    <2>4. review = "writing" => target \in 1 .. count
      BY <1>1, Bounds DEF TargetInv, TypeOK
    <2>5. QED
      BY <1>10, <2>1, <2>2, <2>3, <2>4, Bounds
  <1>13. QED
    BY <1>2, <1>3, <1>4, <1>5, <1>6, <1>7, <1>8, <1>9, <1>11, <1>12 DEF TypeOK

\* Only a submission takes the next place in the queue, and no record leaves its place.
LEMMA CountStep == ASSUME Inv, [Next]_vars PROVE CountInv'
  <1>1. TypeOK /\ CountInv /\ TargetInv /\ IntakeInv
    BY DEF Inv
  <1>2. CASE IntakeQueues
    <2>1. count' = count + 1 /\ count' \in Ids /\ state' = [state EXCEPT ![count'] = "pending"]
      BY <1>1, <1>2, Bounds DEF IntakeQueues, IntakeInv, TypeOK
    <2>2. \A p \in Ids : state'[p] = IF p = count + 1 THEN "pending" ELSE state[p]
      BY <1>1, <2>1 DEF TypeOK
    <2>3. QED
      BY <1>1, <2>1, <2>2, Bounds, Counters DEF CountInv
  <1>3. CASE Claim \/ Recheck \/ Finish \/ Exit
    <2>1. \A p \in Ids : \/ state'[p] = state[p]
                         \/ p = target /\ state'[p] # "none" /\ state[p] # "none"
      BY <1>1, <1>3 DEF Claim, Recheck, Finish, Exit, Settled, TypeOK, TargetInv
    <2>2. count' = count
      BY <1>3 DEF Claim, Recheck, Finish, Exit
    <2>3. QED
      BY <1>1, <2>1, <2>2 DEF CountInv
  <1>4. CASE Withdrawing /\ UNCHANGED count
    BY <1>1, <1>4 DEF CountInv, Withdrawing, Terminal
  <1>5. QED
    BY <1>1, <1>2, <1>3, <1>4, Withdraws, Queues

\* A submission is in flight only while the run that carries it is there to be reaped.
LEMMA IntakeStep == ASSUME Inv, [Next]_vars PROVE IntakeInv'
  <1>1. TypeOK /\ IntakeInv /\ LockInv /\ RestInv
    BY DEF Inv
  <1>2. QED
    BY <1>1 DEF TypeOK, IntakeInv, LockInv, RestInv, Next, vars, mcp, ctx, proposals, Calm,
                RunEnds, RunLingers, StartsRun, IntakeStarts, IntakeQueues, IntakeEnds, Withdraw, OpenReview, ReviewNext, Permitted,
             Decide, Claim, Recheck, Land, Finish, Dies, ToggleOn, ToggledOn, ToggleOff, ToggledOff,
             SweepAfterTeardown, SwitchStarts, SwitchGivesUp, SwitchLocks, Quiesce, Drain,
             AbortUndrained, Retarget, Resume, Exit, CloseBridge, Unmount

\* The lock is free, or held by the review, the switch or the toggle that took it.
LEMMA ControlStep == ASSUME Inv, [Next]_vars PROVE LockInv' /\ RestInv' /\ BoundInv'
  <1>1. TypeOK /\ BoundInv /\ LockInv /\ RestInv
    BY DEF Inv
  <1>2. LockInv'
    BY <1>1 DEF LockInv, Next, vars, ctx, reviewing, SwitchOver, IntakeStarts, IntakeQueues, IntakeEnds, Withdraw, OpenReview, ReviewNext, Permitted,
             Decide, Claim, Recheck, Land, Finish, Dies, ToggleOn, ToggledOn, ToggleOff, ToggledOff,
             SweepAfterTeardown, SwitchStarts, SwitchGivesUp, SwitchLocks, Quiesce, Drain,
             AbortUndrained, Retarget, Resume, Exit, CloseBridge, Unmount
  <1>3. RestInv'
    BY <1>1 DEF LockInv, RestInv, Next, vars, ctx, mcp, SwitchOver, RunEnds, RunLingers, StartsRun, IntakeStarts, IntakeQueues, IntakeEnds, Withdraw, OpenReview, ReviewNext, Permitted,
             Decide, Claim, Recheck, Land, Finish, Dies, ToggleOn, ToggledOn, ToggleOff, ToggledOff,
             SweepAfterTeardown, SwitchStarts, SwitchGivesUp, SwitchLocks, Quiesce, Drain,
             AbortUndrained, Retarget, Resume, Exit, CloseBridge, Unmount
  <1>4. BoundInv'
    <2>1. server' # "off" \/ navLock' = "mcp_off" => runs' > 0
      BY <1>1, Counters DEF TypeOK, BoundInv, Next, vars, mcp, RunEnds, RunLingers, StartsRun, IntakeStarts, IntakeQueues, IntakeEnds, Withdraw, OpenReview, ReviewNext, Permitted,
             Decide, Claim, Recheck, Land, Finish, Dies, ToggleOn, ToggledOn, ToggleOff, ToggledOff,
             SweepAfterTeardown, SwitchStarts, SwitchGivesUp, SwitchLocks, Quiesce, Drain,
             AbortUndrained, Retarget, Resume, Exit, CloseBridge, Unmount
    <2>2. sw' \in {"probing", "quiescing", "quiesced", "retargeting"} => epoch' < MaxEpoch
      BY <1>1, Counters DEF TypeOK, BoundInv, Next, vars, ctx, SwitchOver, IntakeStarts, IntakeQueues, IntakeEnds, Withdraw, OpenReview, ReviewNext, Permitted,
             Decide, Claim, Recheck, Land, Finish, Dies, ToggleOn, ToggledOn, ToggleOff, ToggledOff,
             SweepAfterTeardown, SwitchStarts, SwitchGivesUp, SwitchLocks, Quiesce, Drain,
             AbortUndrained, Retarget, Resume, Exit, CloseBridge, Unmount
    <2>3. QED
      BY <2>1, <2>2 DEF BoundInv
  <1>5. QED
    BY <1>2, <1>3, <1>4

\* Only a submission that is queued adds to what is pending.
LEMMA PendingShrinks == ASSUME Inv, [Next]_vars PROVE IntakeQueues \/ Pending' \subseteq Pending
  <1>1. TypeOK /\ TargetInv
    BY DEF Inv
  <1>2. CASE Claim \/ Recheck \/ Finish \/ Exit
    <2>1. \A p \in Ids : state'[p] = state[p] \/ state'[p] # "pending"
      BY <1>1, <1>2 DEF Claim, Recheck, Finish, Exit, Settled, TypeOK
    <2>2. QED
      BY <2>1 DEF Pending
  <1>3. CASE Withdrawing
    BY <1>3 DEF Withdrawing, Pending, Terminal
  <1>4. QED
    BY <1>1, <1>2, <1>3, Withdraws

\* Between the sweep of a toggle or a switch and the next run, nothing is queued: no server
\* runs, and a submission that outlived its server finds the switch.
LEMMA SweptStep == ASSUME Inv, [Next]_vars PROVE SweptInv'
  <1>1. TypeOK /\ IntakeInv /\ LockInv /\ RestInv /\ SweptInv
    BY DEF Inv
  <1>2. CASE IntakeQueues
    BY <1>1, <1>2 DEF IntakeQueues, Crossed, IntakeInv, RestInv, TypeOK, SweptInv, ctx
  <1>3. CASE ToggleOn \/ Drain
    BY <1>3, Expires DEF ToggleOn, Drain, SweptInv
  <1>4. CASE ~IntakeQueues /\ ~ToggleOn /\ ~Drain
    <2>1. /\ navLock' = "mcp_on" => navLock = "mcp_on"
          /\ sw' \in {"retargeting", "resuming"} => sw \in {"retargeting", "resuming"}
      BY <1>4 DEF Next, vars, ctx, SwitchOver, IntakeStarts, IntakeQueues, IntakeEnds, Withdraw, OpenReview, ReviewNext, Permitted,
             Decide, Claim, Recheck, Land, Finish, Dies, ToggleOn, ToggledOn, ToggleOff, ToggledOff,
             SweepAfterTeardown, SwitchStarts, SwitchGivesUp, SwitchLocks, Quiesce, Drain,
             AbortUndrained, Retarget, Resume, Exit, CloseBridge, Unmount
    <2>2. QED
      BY <1>1, <1>4, <2>1, PendingShrinks DEF SweptInv
  <1>5. QED
    BY <1>2, <1>3, <1>4

\* A run starts only over a swept queue, unless a switch aborts.
LEMMA RunStep == ASSUME Inv, [Next]_vars PROVE RunInv'
  <1>1. TypeOK /\ IntakeInv /\ SweptInv /\ RunInv /\ LockInv
    BY DEF Inv
  <1>2. carried \subseteq carried'
    BY DEF Next, vars, ghost, IntakeStarts, IntakeQueues, IntakeEnds, Withdraw, OpenReview, ReviewNext, Permitted,
             Decide, Claim, Recheck, Land, Finish, Dies, ToggleOn, ToggledOn, ToggleOff, ToggledOff,
             SweepAfterTeardown, SwitchStarts, SwitchGivesUp, SwitchLocks, Quiesce, Drain,
             AbortUndrained, Retarget, Resume, Exit, CloseBridge, Unmount
  <1>3. CASE IntakeQueues
    <2>1. /\ count' \in Ids /\ state' = [state EXCEPT ![count'] = "pending"]
          /\ run' = [run EXCEPT ![count'] = runs] /\ runs' = runs
      <3>1. intake.busy /\ intake.run = runs /\ count < MaxProposals
        BY <1>1, <1>3 DEF IntakeQueues, IntakeInv
      <3>2. count + 1 \in Ids
        BY <3>1, Bounds, Counters
      <3>3. QED
        BY <1>3, <3>1, <3>2 DEF IntakeQueues, mcp
    <2>2. \A p \in Pending' : p = count' \/ (p \in Pending /\ run'[p] = run[p])
      BY <1>1, <2>1 DEF Pending, TypeOK
    <2>3. run'[count'] = runs
      BY <1>1, <2>1 DEF TypeOK
    <2>4. QED
      BY <1>1, <1>2, <2>1, <2>2, <2>3 DEF RunInv
  <1>4. CASE ~IntakeQueues /\ UNCHANGED runs
    BY <1>1, <1>2, <1>4, Queues, PendingShrinks DEF RunInv
  <1>5. CASE ToggledOn \/ Resume
    <2>1. Pending' = {}
      BY <1>1, <1>5 DEF ToggledOn, Resume, SweptInv, proposals, Pending
    <2>2. QED
      BY <2>1 DEF RunInv
  <1>6. CASE AbortUndrained
    BY <1>6 DEF AbortUndrained, proposals, RunInv, Pending
  <1>7. QED
    BY <1>3, <1>4, <1>5, <1>6, Starts

\* The epoch moves only over a swept queue, and the session ends with one.
LEMMA CurrentStep == ASSUME Inv, [Next]_vars PROVE PendingIsCurrent'
  <1>1. TypeOK /\ IntakeInv /\ SweptInv /\ PendingIsCurrent
    BY DEF Inv
  <1>2. CASE IntakeQueues
    <2>1. /\ count' \in Ids /\ state' = [state EXCEPT ![count'] = "pending"]
          /\ bound' = [bound EXCEPT ![count'] = epoch] /\ epoch' = epoch /\ app' = app /\ app # "gone"
      <3>1. intake.busy /\ intake.epoch = epoch /\ app # "gone" /\ count < MaxProposals
        BY <1>1, <1>2 DEF IntakeQueues, IntakeInv, Crossed
      <3>2. count + 1 \in Ids
        BY <3>1, Bounds, Counters
      <3>3. QED
        BY <1>2, <3>1, <3>2 DEF IntakeQueues, ctx
    <2>2. \A p \in Pending' : p = count' \/ (p \in Pending /\ bound'[p] = bound[p])
      BY <1>1, <2>1 DEF Pending, TypeOK
    <2>3. bound'[count'] = epoch
      BY <1>1, <2>1 DEF TypeOK
    <2>4. QED
      BY <1>1, <2>1, <2>2, <2>3 DEF PendingIsCurrent
  <1>3. CASE Retarget
    <2>1. Pending' = {}
      BY <1>1, <1>3 DEF Retarget, SweptInv, proposals, Pending
    <2>2. QED
      BY <2>1 DEF PendingIsCurrent
  <1>4. CASE Unmount
    BY <1>4, Expires DEF Unmount, PendingIsCurrent
  <1>5. CASE ~IntakeQueues /\ ~Retarget /\ ~Unmount
    <2>1. app' = "gone" => app = "gone"
      BY <1>5 DEF Next, vars, IntakeStarts, IntakeQueues, IntakeEnds, Withdraw, OpenReview, ReviewNext, Permitted,
             Decide, Claim, Recheck, Land, Finish, Dies, ToggleOn, ToggledOn, ToggleOff, ToggledOff,
             SweepAfterTeardown, SwitchStarts, SwitchGivesUp, SwitchLocks, Quiesce, Drain,
             AbortUndrained, Retarget, Resume, Exit, CloseBridge, Unmount
    <2>2. QED
      BY <1>1, <1>5, <2>1, Queues, Retargets, PendingShrinks DEF PendingIsCurrent
  <1>6. QED
    BY <1>2, <1>3, <1>4, <1>5

\* Only a claimed proposal is committed, and it is never withdrawn afterwards.
LEMMA OutcomeStep == ASSUME Inv, [Next]_vars PROVE OutcomeMatchesCluster'
  <1>1. TypeOK /\ TargetInv /\ IntakeInv /\ OutcomeMatchesCluster
    BY DEF Inv
  <1>2. CASE Land
    <2>1. state[target] = "approved" /\ landed' = landed \union {target} /\ state' = state
      BY <1>1, <1>2 DEF Land, TargetInv, proposals
    <2>2. QED
      BY <1>1, <2>1 DEF OutcomeMatchesCluster
  <1>3. CASE IntakeQueues
    <2>1. /\ count' \in Ids \ landed /\ state' = [state EXCEPT ![count'] = "pending"] /\ landed' = landed
      BY <1>1, <1>3, Bounds DEF IntakeQueues, IntakeInv, TypeOK, ghost
    <2>2. QED
      BY <1>1, <2>1 DEF OutcomeMatchesCluster, TypeOK
  <1>4. CASE Claim \/ Recheck \/ Finish \/ Exit
    <2>1. \A p \in Ids : \/ state'[p] = state[p]
                         \/ state'[p] \in {"approved", "failed"}
                         \/ state'[p] = "executed" /\ p \in landed
      BY <1>1, <1>4 DEF Claim, Recheck, Finish, Exit, Settled, TypeOK
    <2>2. landed' = landed
      BY <1>4 DEF Claim, Recheck, Finish, Exit, ghost
    <2>3. QED
      BY <1>1, <2>1, <2>2 DEF OutcomeMatchesCluster
  <1>5. CASE Withdrawing /\ UNCHANGED landed
    BY <1>1, <1>5 DEF Withdrawing, OutcomeMatchesCluster, Terminal
  <1>6. QED
    BY <1>1, <1>2, <1>3, <1>4, <1>5, Withdraws, Commits

\* While a review holds the lock, neither the epoch nor the run moves on.
LEMMA TargetStep == ASSUME Inv, [Next]_vars PROVE TargetInv'
  <1>1. /\ TypeOK /\ TargetInv /\ CountInv /\ LockInv /\ SweptInv /\ RunInv /\ IntakeInv
        /\ PendingIsCurrent
    BY DEF Inv
  <1>2. review' \notin {"idle", "next"} => target' \in Ids
    <2>1. CASE ReviewNext
      BY <2>1, Oldest DEF ReviewNext, Pending
    <2>2. CASE ~ReviewNext
      <3>1. /\ target' = target
            /\ review' \notin {"idle", "next"} => review \notin {"idle", "next"}
        BY <2>2 DEF Next, vars, reviewing, IntakeStarts, IntakeQueues, IntakeEnds, Withdraw, OpenReview, ReviewNext, Permitted,
             Decide, Claim, Recheck, Land, Finish, Dies, ToggleOn, ToggledOn, ToggleOff, ToggledOff,
             SweepAfterTeardown, SwitchStarts, SwitchGivesUp, SwitchLocks, Quiesce, Drain,
             AbortUndrained, Retarget, Resume, Exit, CloseBridge, Unmount
      <3>2. QED
        BY <1>1, <3>1 DEF TargetInv
    <2>3. QED
      BY <2>1, <2>2
  <1>3. ASSUME review' \in {"rechecking", "writing"}
        PROVE  /\ state'[target'] = "approved" /\ bound'[target'] = epoch'
               /\ run'[target'] = runs' \/ target' \in carried'
    <2>1. CASE Claim
      <3>1. state[target] = "pending" /\ state' = [state EXCEPT ![target] = "approved"] /\ target' = target
        BY <1>3, <2>1 DEF Claim
      <3>2. target \in Ids
        BY <1>1, <2>1 DEF Claim, TargetInv
      <3>3. UNCHANGED <<count, run, bound, runs, epoch, carried>>
        BY <2>1 DEF Claim, mcp, ctx, ghost
      <3>4. target \in Pending
        BY <3>1, <3>2 DEF Pending
      <3>5. QED
        BY <1>1, <3>1, <3>2, <3>3, <3>4 DEF RunInv, PendingIsCurrent, TypeOK
    <2>2. CASE ~Claim
      <3>1. review \in {"rechecking", "writing"} /\ ~Finish /\ ~Exit /\ target' = target
        BY <1>3, <2>2 DEF Next, vars, reviewing, IntakeStarts, IntakeQueues, IntakeEnds, Withdraw, OpenReview, ReviewNext, Permitted,
             Decide, Claim, Recheck, Land, Finish, Dies, ToggleOn, ToggledOn, ToggleOff, ToggledOff,
             SweepAfterTeardown, SwitchStarts, SwitchGivesUp, SwitchLocks, Quiesce, Drain,
             AbortUndrained, Retarget, Resume, Exit, CloseBridge, Unmount
      <3>2. /\ state[target] = "approved" /\ bound[target] = epoch
            /\ run[target] = runs \/ target \in carried
            /\ target \in 1 .. count /\ target \in Ids /\ navLock = "review"
        BY <1>1, <3>1, Bounds DEF TargetInv, LockInv, TypeOK
      <3>3. carried \subseteq carried'
        BY DEF Next, vars, ghost, IntakeStarts, IntakeQueues, IntakeEnds, Withdraw, OpenReview, ReviewNext, Permitted,
             Decide, Claim, Recheck, Land, Finish, Dies, ToggleOn, ToggledOn, ToggleOff, ToggledOff,
             SweepAfterTeardown, SwitchStarts, SwitchGivesUp, SwitchLocks, Quiesce, Drain,
             AbortUndrained, Retarget, Resume, Exit, CloseBridge, Unmount
      <3>4. runs' = runs /\ epoch' = epoch
        BY <1>1, <3>2, Starts, Retargets DEF LockInv, ToggledOn, AbortUndrained, Resume, Retarget
      <3>5. state'[target] = "approved"
        <4>1. CASE IntakeQueues
          BY <1>1, <3>2, <4>1, Bounds DEF IntakeQueues, TypeOK
        <4>2. CASE Recheck
          BY <1>3, <3>2, <4>2 DEF Recheck
        <4>3. CASE Withdrawing
          BY <3>2, <4>3 DEF Withdrawing
        <4>4. QED
          BY <1>1, <2>2, <3>1, <4>1, <4>2, <4>3, Withdraws
      <3>6. run'[target] = run[target] /\ bound'[target] = bound[target]
        <4>1. CASE IntakeQueues
          <5>1. /\ run' = [run EXCEPT ![count + 1] = intake.run]
                /\ bound' = [bound EXCEPT ![count + 1] = intake.epoch]
            BY <4>1 DEF IntakeQueues
          <5>2. target # count + 1
            BY <3>2, Counters
          <5>3. QED
            BY <1>1, <3>2, <5>1, <5>2 DEF TypeOK
        <4>2. QED
          BY <4>1, Queues
      <3>7. QED
        BY <3>1, <3>2, <3>3, <3>4, <3>5, <3>6
    <2>3. QED
      BY <2>1, <2>2
  <1>4. QED
    BY <1>2, <1>3 DEF TargetInv

\* The parts together.
LEMMA NextInv == Inv /\ [Next]_vars => Inv'
  BY Types, CountStep, IntakeStep, ControlStep, SweptStep, RunStep, CurrentStep, OutcomeStep, TargetStep
  DEF Inv

-----------------------------------------------------------------------------
(* The theorems.                                                           *)

\* The invariant holds throughout.
LEMMA Invariance == Spec => []Inv
  BY InitInv, NextInv, PTL DEF Spec

\* The variables of proposal_controller.py and of what it races keep their types: in
\* particular no stop is recorded for a run that was never started.
THEOREM TypeCorrect == Spec => []TypeOK
  <1>1. Inv => TypeOK
    BY DEF Inv
  <1>2. QED
    BY <1>1, Invariance, PTL

\* Nothing is pending for another context than the current one, nor after the session: the
\* epoch that submit_write_proposal captures is compared after its awaits, a switch sweeps
\* before it retargets, and the bridge is reaped before the last sweep.
THEOREM PendingStaysCurrent == Spec => []PendingIsCurrent
  <1>1. Inv => PendingIsCurrent
    BY DEF Inv
  <1>2. QED
    BY <1>1, Invariance, PTL

\* What finish_execution and the sweeps record agrees with what reached the cluster.
THEOREM OutcomesAreTrue == Spec => []OutcomeMatchesCluster
  <1>1. Inv => OutcomeMatchesCluster
    BY DEF Inv
  <1>2. QED
    BY <1>1, Invariance, PTL

\* A write lands under the lock, in the epoch it was bound to and under the run that queued
\* it, unless a switch that aborted over its outcome reads left it pending.
THEOREM WritesLandInTheirSession == Spec => LandsInItsSession
  <1>1. Inv /\ [Next]_vars =>
          [\A p \in landed' \ landed : /\ bound[p] = epoch /\ navLock = "review"
                                       /\ run[p] = runs \/ p \in carried]_vars
    BY Commits DEF Inv, TargetInv, LockInv, Land
  <1>2. QED
    BY <1>1, Invariance, PTL DEF Spec, LandsInItsSession

\* Where outcome reads stop in time, no capability of an older run gets a write approved: a
\* claim is made in the run that queued the proposal. (run review_undrained shows why the
\* hypothesis is needed: a switch that aborts over its reads sweeps nothing.)
THEOREM ClaimsBelongToTheRun == ReadsDrain => (Spec => ClaimedInItsRun)
  <1> SUFFICES ASSUME ReadsDrain PROVE Spec => ClaimedInItsRun
    OBVIOUS
  <1> DEFINE NoneCarried == carried = {}
  <1>1. Init => NoneCarried
    BY DEF Init
  <1>2. NoneCarried /\ [Next]_vars => NoneCarried'
    BY DEF Next, vars, ghost, IntakeStarts, IntakeQueues, IntakeEnds, Withdraw, OpenReview, ReviewNext, Permitted,
           Decide, Claim, Recheck, Land, Finish, Dies, ToggleOn, ToggledOn, ToggleOff, ToggledOff,
           SweepAfterTeardown, SwitchStarts, SwitchGivesUp, SwitchLocks, Quiesce, Drain,
           AbortUndrained, Retarget, Resume, Exit, CloseBridge, Unmount
  <1>3. Inv /\ NoneCarried /\ [Next]_vars => [\A p \in Pending : state'[p] = "approved" => run[p] = runs]_vars
    BY DEF Inv, RunInv
  <1>4. QED
    BY <1>1, <1>2, <1>3, Invariance, PTL DEF Spec, ClaimedInItsRun

\* The controller drives the store as ProposalLifecycle promises: a proposal is queued once,
\* claimed alone, executed only when claimed, and an outcome is final.
THEOREM LifecycleImplemented == Spec => ImplementsLifecycle
  <1>1. Init => Lifecycle!Init
    BY DEF Init, Lifecycle!Init
  <1>2. Inv /\ [Next]_vars => [Lifecycle!Next]_state
    <2> SUFFICES ASSUME Inv, [Next]_vars PROVE Lifecycle!Next
      OBVIOUS
    <2> USE DEF Lifecycle!CanMove, Lifecycle!Withdrawn
    <2>1. TypeOK /\ TargetInv /\ CountInv
      BY DEF Inv
    <2>2. ASSUME NEW p \in Ids
          PROVE  state'[p] = state[p] \/ Lifecycle!CanMove(state[p], state'[p])
      <3>1. CASE IntakeQueues
        <4>1. state' = [state EXCEPT ![count + 1] = "pending"]
          BY <3>1 DEF IntakeQueues
        <4>2. count + 1 \in Ids => state[count + 1] = "none"
          BY <2>1, Counters DEF CountInv
        <4>3. QED
          BY <2>1, <4>1, <4>2 DEF TypeOK
      <3>2. CASE Claim
        BY <2>1, <3>2 DEF Claim, TypeOK
      <3>3. CASE Recheck \/ Finish \/ Exit
        BY <2>1, <3>3 DEF Recheck, Finish, Exit, Settled, TypeOK, TargetInv
      <3>4. CASE Withdrawing
        BY <3>4 DEF Withdrawing, Terminal
      <3>5. QED
        BY <2>1, <3>1, <3>2, <3>3, <3>4, Withdraws
    <2>3. ASSUME NEW p \in Lifecycle!Claimed
          PROVE  p = target
      <3>1. p \in Ids /\ state[p] # "approved" /\ state'[p] = "approved"
        BY DEF Lifecycle!Claimed
      <3>2. CASE IntakeQueues \/ Claim \/ Recheck \/ Finish \/ Exit
        BY <2>1, <3>1, <3>2 DEF IntakeQueues, Claim, Recheck, Finish, Exit, Settled, TypeOK
      <3>3. ~Withdrawing
        BY <3>1 DEF Withdrawing, Terminal
      <3>4. QED
        BY <2>1, <3>2, <3>3, Withdraws
    <2>4. QED
      BY <2>2, <2>3 DEF Lifecycle!Next
  <1>3. QED
    BY <1>1, <1>2, Invariance, PTL DEF Spec, ImplementsLifecycle, Lifecycle!Spec
===============================================================================
