------------------------- MODULE ProposalStoreProofs -------------------------
(***************************************************************************)
(* Theorems of ProposalStore, for all sessions, caps, TTLs and bounds.     *)
(***************************************************************************)
EXTENDS ProposalStore, FiniteSetTheorems, NaturalsInduction, WellFoundedInduction, TLAPS

\* The share of the queue that session `s` has.
Share(s) == {p \in Pending : owner[p] = s}

\* The two caps apart, and the inductive invariant: the types with both caps.
QueueInv == Cardinality(Pending) <= MaxTotal
ShareInv == \A s \in Sessions : Cardinality(Share(s)) <= MaxPerSession
Inv == TypeOK /\ QueueInv /\ ShareInv

-----------------------------------------------------------------------------
(* Facts about the operators.                                              *)

\* A set of ids is finite, so the caps count it with a natural number.
LEMMA IdsFinite ==
  ASSUME NEW S \in SUBSET Ids
  PROVE  IsFiniteSet(S) /\ Cardinality(S) \in Nat
  <1>1. IsFiniteSet(Ids)
    BY FS_Interval, StoreAssumption DEF Ids
  <1>2. IsFiniteSet(S)
    BY <1>1, FS_Subset
  <1>3. QED
    BY <1>2, FS_CardinalityType

\* A part of a set of ids is no larger than the set.
LEMMA SmallerPart ==
  ASSUME NEW S \in SUBSET Ids, NEW T \in SUBSET S
  PROVE  Cardinality(T) <= Cardinality(S)
  BY IdsFinite, FS_Subset

\* One more id makes a set of ids larger by at most one.
LEMMA OneMore ==
  ASSUME NEW S \in SUBSET Ids, NEW p \in Ids
  PROVE  Cardinality(S \union {p}) <= Cardinality(S) + 1
  BY IdsFinite, FS_AddElement

\* Retention drops only what is terminal once the stale ones are.
LEMMA EvictedAreTerminal ==
  ASSUME NEW at
  PROVE  Evicted(at) \subseteq {p \in Ids : state[p] \in Terminal \/ p \in Stale(at)}
  BY DEF Evicted, Overflow, TerminalIn, Stale, Pending

\* What a sweep does to the states: it moves `changed` where it is told, expires
\* or evicts what is stale, evicts terminal records, and touches nothing else.
LEMMA SweepMoves ==
  ASSUME TypeOK, NEW at \in Nat, NEW changed \in SUBSET Ids, NEW to \in States,
         Sweep(at, changed, to)
  PROVE  /\ state' \in [Ids -> States]
         /\ resolvedAt' \in [Ids -> Nat]
         /\ unreported' \in SUBSET Ids
         /\ \A p \in changed : state'[p] = to
         /\ \A p \in Ids \ changed :
              /\ state'[p] = state[p] \/ p \in Evicted(at) \/ p \in Stale(at)
              /\ p \in Evicted(at) => state'[p] = "gone"
              /\ p \in Stale(at) => state'[p] \in {"expired", "gone"}
              /\ p \notin Evicted(at) /\ state'[p] = "gone" => state[p] = "gone"
  <1>1. Evicted(at) \subseteq Ids /\ Stale(at) \subseteq Ids
    BY EvictedAreTerminal DEF Stale, Pending
  <1>2. state' \in [Ids -> States]
    BY DEF Sweep, TypeOK, States, Terminal
  <1>3. resolvedAt' \in [Ids -> Nat]
    BY DEF Sweep, TypeOK
  <1>4. unreported' \in SUBSET Ids
    BY <1>1 DEF Sweep, TypeOK, Owed
  <1>5. \A p \in Ids : state'[p] = IF p \in changed THEN to
                                   ELSE IF p \in Evicted(at) THEN "gone"
                                   ELSE IF p \in Stale(at) THEN "expired" ELSE state[p]
    BY DEF Sweep
  <1>6. QED
    BY <1>2, <1>3, <1>4, <1>5

\* A sweep that queues nothing leaves the queue a part of what it was.
LEMMA SweepShrinks ==
  ASSUME Inv, NEW at \in Nat, NEW changed \in SUBSET Ids, NEW to \in States \ {"none", "pending"},
         Sweep(at, changed, to), owner' = Drop(owner, at, Nobody),
         \A p \in changed : state[p] \in {"pending", "approved"} /\ p \notin Evicted(at) /\ to # "gone",
         count' = count
  PROVE  /\ QueueInv' /\ ShareInv'
         /\ owner' \in [Ids -> Sessions \union {Nobody}]
         /\ \A p \in Ids : state'[p] = "none" <=> p > count'
         /\ \A p \in Ids : owner'[p] = Nobody <=> state'[p] \in {"none", "gone"}
  <1>1. TypeOK /\ QueueInv /\ ShareInv
    BY DEF Inv
  <1>m. \A p \in Ids : \/ p \in changed /\ state'[p] = to
                       \/ /\ p \notin changed
                          /\ state'[p] = state[p] \/ p \in Evicted(at) \/ p \in Stale(at)
                          /\ p \in Evicted(at) => state'[p] = "gone"
                          /\ p \in Stale(at) => state'[p] \in {"expired", "gone"}
                          /\ p \notin Evicted(at) /\ state'[p] = "gone" => state[p] = "gone"
    BY <1>1, SweepMoves
  <1>e. \A p \in Evicted(at) : p \in Ids /\ (state[p] \in Terminal \/ state[p] = "pending")
    BY EvictedAreTerminal DEF Stale, Pending
  <1>s. \A p \in Stale(at) : p \in Ids /\ state[p] = "pending"
    BY DEF Stale, Pending
  <1>2. Pending' \subseteq Pending
    BY <1>m DEF Pending
  <1>o. \A p \in Ids : owner'[p] = IF p \in Evicted(at) THEN Nobody ELSE owner[p]
    BY DEF Drop
  <1>3. owner' \in [Ids -> Sessions \union {Nobody}]
    BY <1>1 DEF Drop, TypeOK
  <1>4. QueueInv'
    <2>1. Cardinality(Pending') <= Cardinality(Pending)
      BY <1>2, SmallerPart DEF Pending
    <2>2. Cardinality(Pending') \in Nat /\ Cardinality(Pending) \in Nat
      BY IdsFinite DEF Pending
    <2>3. QED
      BY <1>1, <2>1, <2>2, StoreAssumption DEF QueueInv
  <1>5. ShareInv'
    <2> SUFFICES ASSUME NEW s \in Sessions
                 PROVE  Cardinality(Share(s)') <= MaxPerSession
      BY DEF ShareInv, Share
    <2>1. Share(s)' \subseteq Share(s)
      BY <1>2, <1>o, StoreAssumption DEF Share, Pending
    <2>2. Share(s) \subseteq Ids
      BY DEF Share, Pending
    <2>3. Cardinality(Share(s)') <= Cardinality(Share(s))
      BY <2>1, <2>2, SmallerPart
    <2>4. Cardinality(Share(s)) <= MaxPerSession
      BY <1>1 DEF ShareInv
    <2>5. /\ Cardinality(Share(s)) \in Nat
          /\ Cardinality(Share(s)') \in Nat
      <3>1. Share(s)' \in SUBSET Ids
        BY <2>1, <2>2
      <3>2. QED
        BY <3>1, <2>2, IdsFinite
    <2>6. QED
      BY <2>3, <2>4, <2>5, StoreAssumption
  <1>6. \A p \in Ids : state'[p] = "none" <=> state[p] = "none"
    BY <1>m, <1>e, <1>s DEF Terminal
  <1>7. \A p \in Ids : state'[p] = "none" <=> p > count'
    BY <1>1, <1>6 DEF TypeOK
  <1>8. \A p \in Ids : owner'[p] = Nobody <=> state'[p] \in {"none", "gone"}
    <2> SUFFICES ASSUME NEW p \in Ids
                 PROVE  owner'[p] = Nobody <=> state'[p] \in {"none", "gone"}
      OBVIOUS
    <2>1. owner[p] = Nobody <=> state[p] \in {"none", "gone"}
      BY <1>1 DEF TypeOK
    <2>2. CASE p \in Evicted(at)
      BY <2>2, <1>o, <1>m
    <2>3. CASE p \notin Evicted(at) /\ p \in changed
      BY <2>1, <2>3, <1>o, <1>m
    <2>4. CASE p \notin Evicted(at) /\ p \notin changed
      BY <2>1, <2>4, <1>o, <1>m, <1>s
    <2>5. QED
      BY <2>2, <2>3, <2>4
  <1>9. QED
    BY <1>3, <1>4, <1>5, <1>7, <1>8

-----------------------------------------------------------------------------
(* Every method keeps the invariant.                                       *)

\* The initial store is empty.
LEMMA InitInv == Init => Inv
  <1> SUFFICES ASSUME Init PROVE Inv
    OBVIOUS
  <1>1. TypeOK
    <2>1. \A p \in Ids : p \in Nat /\ p > 0
      BY StoreAssumption DEF Ids
    <2>2. \A p \in Ids : state[p] = "none" /\ owner[p] = Nobody
      BY DEF Init
    <2>3. "none" \in States
      BY DEF States
    <2>4. /\ now \in Nat /\ closed \in BOOLEAN /\ count \in 0 .. MaxSubmits /\ count = 0
          /\ state \in [Ids -> States] /\ owner \in [Ids -> Sessions \union {Nobody}]
          /\ expiresAt \in [Ids -> Nat] /\ resolvedAt \in [Ids -> Nat]
          /\ unreported \in SUBSET Ids /\ reported \in SUBSET Ids
      <3>1. closed \in BOOLEAN
        BY DEF Init
      <3>2. now \in Nat /\ count \in 0 .. MaxSubmits /\ count = 0
        BY StoreAssumption DEF Init
      <3>3. /\ state \in [Ids -> States] /\ owner \in [Ids -> Sessions \union {Nobody}]
            /\ expiresAt \in [Ids -> Nat] /\ resolvedAt \in [Ids -> Nat]
        BY <2>3 DEF Init
      <3>4. unreported \in SUBSET Ids /\ reported \in SUBSET Ids
        BY DEF Init
      <3>5. QED
        BY <3>1, <3>2, <3>3, <3>4
    <2>5. \A p \in Ids : state[p] = "none" <=> p > count
      BY <2>1, <2>2, <2>4
    <2>6. QED
      BY <2>2, <2>4, <2>5 DEF TypeOK
  <1>2. Pending = {}
    BY DEF Init, Pending
  <1>3. Cardinality({}) = 0
    BY FS_EmptySet
  <1>4. QueueInv
    BY <1>2, <1>3, StoreAssumption DEF QueueInv
  <1>5. ShareInv
    <2>1. \A s \in Sessions : {p \in Pending : owner[p] = s} = {}
      BY <1>2
    <2>2. QED
      BY <2>1, <1>3, StoreAssumption DEF ShareInv, Share
  <1>6. QED
    BY <1>1, <1>4, <1>5 DEF Inv

\* A move that is legal sweeps first and then moves a live record.
LEMMA TransitionInv ==
  ASSUME Inv, NEW p \in Ids, NEW from \in {"pending", "approved"}, NEW to \in Terminal \union {"approved"},
         Transition(p, from, to)
  PROVE  Inv'
  <1>1. TypeOK /\ now \in Nat
    BY DEF Inv, TypeOK
  <1>2. to \in States \ {"none", "pending"} /\ to # "gone"
    BY DEF States, Terminal
  <1>3. state[p] = from /\ p \notin Evicted(now)
    BY EvictedAreTerminal DEF Transition, Terminal
  <1>4. /\ Sweep(now, {p}, to) /\ owner' = Drop(owner, now, Nobody)
        /\ count' = count /\ now' = now /\ closed' = closed /\ reported' = reported
        /\ expiresAt' = Drop(expiresAt, now, 0)
    BY DEF Transition, DropOwnerAndExpiry
  <1>5. /\ QueueInv' /\ ShareInv'
        /\ owner' \in [Ids -> Sessions \union {Nobody}]
        /\ \A q \in Ids : state'[q] = "none" <=> q > count'
        /\ \A q \in Ids : owner'[q] = Nobody <=> state'[q] \in {"none", "gone"}
    <2>1. {p} \in SUBSET Ids
      OBVIOUS
    <2>2. \A q \in {p} : state[q] \in {"pending", "approved"} /\ q \notin Evicted(now) /\ to # "gone"
      BY <1>2, <1>3
    <2>3. QED
      BY <1>1, <1>2, <1>4, <2>1, <2>2, SweepShrinks
  <1>6. /\ state' \in [Ids -> States] /\ resolvedAt' \in [Ids -> Nat]
        /\ unreported' \in SUBSET Ids
    <2>1. {p} \in SUBSET Ids
      OBVIOUS
    <2>2. QED
      BY <1>1, <1>2, <1>4, <2>1, SweepMoves
  <1>7. expiresAt' \in [Ids -> Nat]
    BY <1>1, <1>4 DEF Drop, TypeOK
  <1>8. QED
    BY <1>1, <1>4, <1>5, <1>6, <1>7 DEF Inv, TypeOK

\* A read, or a submission that is refused, only sweeps.
LEMMA SweepOnlyInv ==
  ASSUME Inv, NEW at \in Nat, Sweep(at, {}, "none"), DropOwnerAndExpiry(at),
         UNCHANGED <<now, closed, count, reported>>
  PROVE  Inv'
  <1>1. TypeOK
    BY DEF Inv
  <1>2. Sweep(at, {}, "gone")
    BY DEF Sweep
  <1>3. "gone" \in States \ {"none", "pending"} /\ {} \in SUBSET Ids
    BY DEF States, Terminal
  <1>4. owner' = Drop(owner, at, Nobody) /\ expiresAt' = Drop(expiresAt, at, 0) /\ count' = count
    BY DEF DropOwnerAndExpiry
  <1>5. /\ QueueInv' /\ ShareInv'
        /\ owner' \in [Ids -> Sessions \union {Nobody}]
        /\ \A q \in Ids : state'[q] = "none" <=> q > count'
        /\ \A q \in Ids : owner'[q] = Nobody <=> state'[q] \in {"none", "gone"}
    BY <1>2, <1>3, <1>4, SweepShrinks
  <1>6. /\ state' \in [Ids -> States] /\ resolvedAt' \in [Ids -> Nat]
        /\ unreported' \in SUBSET Ids
    BY <1>1, <1>2, <1>3, SweepMoves
  <1>7. expiresAt' \in [Ids -> Nat]
    BY <1>1, <1>4 DEF Drop, TypeOK
  <1>8. QED
    BY <1>1, <1>5, <1>6, <1>7 DEF Inv, TypeOK

\* A submission is queued only below both caps, as they are after the sweep.
LEMMA SubmitInv ==
  ASSUME Inv, NEW s \in Sessions, NEW at \in Readings, SubmitAccepted(s, at)
  PROVE  Inv'
  <1>1. TypeOK /\ ShareInv
    BY DEF Inv
  <1>d. PICK new \in Ids : new = count + 1
    BY <1>1, StoreAssumption DEF SubmitAccepted, TypeOK, Ids
  <1> DEFINE live == Pending \ Stale(at)
             mine == {p \in live : owner[p] = s}
  <1>2. at \in Nat /\ {new} \in SUBSET Ids /\ "pending" \in States
    BY DEF Readings, States
  <1>3. Sweep(at, {new}, "pending")
    BY <1>d DEF SubmitAccepted
  <1>4. state[new] = "none" /\ owner[new] = Nobody
    BY <1>1, <1>d DEF TypeOK, Ids
  <1>5. new \notin Evicted(at) /\ new \notin Stale(at)
    BY <1>4, EvictedAreTerminal DEF Terminal, Stale, Pending
  <1>m. /\ state' \in [Ids -> States] /\ resolvedAt' \in [Ids -> Nat]
        /\ unreported' \in SUBSET Ids
        /\ state'[new] = "pending"
        /\ \A p \in Ids \ {new} :
              /\ state'[p] = state[p] \/ p \in Evicted(at) \/ p \in Stale(at)
              /\ p \in Evicted(at) => state'[p] = "gone"
              /\ p \in Stale(at) => state'[p] \in {"expired", "gone"}
              /\ p \notin Evicted(at) /\ state'[p] = "gone" => state[p] = "gone"
    <2> DEFINE changed == {new}
    <2>1. changed \in SUBSET Ids /\ Sweep(at, changed, "pending")
      BY <1>2, <1>3
    <2> HIDE DEF changed
    <2>2. /\ state' \in [Ids -> States] /\ resolvedAt' \in [Ids -> Nat]
          /\ unreported' \in SUBSET Ids
          /\ \A p \in changed : state'[p] = "pending"
          /\ \A p \in Ids \ changed :
                /\ state'[p] = state[p] \/ p \in Evicted(at) \/ p \in Stale(at)
                /\ p \in Evicted(at) => state'[p] = "gone"
                /\ p \in Stale(at) => state'[p] \in {"expired", "gone"}
                /\ p \notin Evicted(at) /\ state'[p] = "gone" => state[p] = "gone"
      BY <1>1, <1>2, <2>1, SweepMoves
    <2>3. new \in changed /\ Ids \ changed = Ids \ {new}
      BY DEF changed
    <2>4. QED
      BY <2>2, <2>3
  <1>e. \A p \in Evicted(at) : p \in Ids /\ (state[p] \in Terminal \/ state[p] = "pending")
    BY EvictedAreTerminal DEF Stale, Pending
  <1>s. \A p \in Stale(at) : p \in Ids /\ state[p] = "pending"
    BY DEF Stale, Pending
  <1>o. \A p \in Ids : owner'[p] = IF p = new THEN s
                                   ELSE IF p \in Evicted(at) THEN Nobody ELSE owner[p]
    BY <1>d DEF SubmitAccepted, Drop
  <1>f. owner' \in [Ids -> Sessions \union {Nobody}] /\ expiresAt' \in [Ids -> Nat]
    BY <1>1, <1>2, <1>d, StoreAssumption DEF SubmitAccepted, Drop, TypeOK
  <1>6. Pending' \subseteq live \union {new}
    BY <1>m DEF Pending
  <1>7. live \in SUBSET Ids /\ mine \in SUBSET Ids
    BY DEF Pending
  <1>8. ~(Cardinality(mine) >= MaxPerSession) /\ ~(Cardinality(live) >= MaxTotal)
    BY DEF SubmitAccepted, Full
  <1>9. QueueInv'
    <2>1. Cardinality(Pending') <= Cardinality(live \union {new})
      BY <1>2, <1>6, <1>7, SmallerPart
    <2>2. Cardinality(live \union {new}) <= Cardinality(live) + 1
      BY <1>2, <1>7, OneMore
    <2>3. /\ Cardinality(live) \in Nat /\ Cardinality(live \union {new}) \in Nat
          /\ Cardinality(Pending') \in Nat
      <3>1. live \union {new} \in SUBSET Ids /\ Pending' \in SUBSET Ids
        BY <1>2, <1>6, <1>7
      <3>2. QED
        BY <1>7, <3>1, IdsFinite
    <2>4. QED
      BY <1>8, <2>1, <2>2, <2>3, StoreAssumption DEF QueueInv
  <1>10. ShareInv'
    <2> SUFFICES ASSUME NEW t \in Sessions
                 PROVE  Cardinality({p \in Pending' : owner'[p] = t}) <= MaxPerSession
      BY DEF ShareInv, Share
    <2> DEFINE share == {p \in Pending' : owner'[p] = t}
    <2>0. share \in SUBSET Ids
      BY <1>2, <1>6, <1>7
    <2>1. CASE t = s
      <3>1. share \subseteq mine \union {new}
        BY <1>6, <1>o, <1>7, <2>1, StoreAssumption
      <3>2. mine \union {new} \in SUBSET Ids
        BY <1>2, <1>7
      <3>3. Cardinality(share) <= Cardinality(mine \union {new})
        BY <3>1, <3>2, SmallerPart
      <3>4. Cardinality(mine \union {new}) <= Cardinality(mine) + 1
        BY <1>2, <1>7, OneMore
      <3>5. /\ Cardinality(share) \in Nat /\ Cardinality(mine) \in Nat
            /\ Cardinality(mine \union {new}) \in Nat
        BY <1>7, <2>0, <3>2, IdsFinite
      <3>6. QED
        BY <1>8, <3>3, <3>4, <3>5, StoreAssumption
    <2>2. CASE t # s
      <3>1. share \subseteq Share(t)
        <4> SUFFICES ASSUME NEW p \in share PROVE p \in Share(t)
          OBVIOUS
        <4>1. p \in Ids /\ owner'[p] = t /\ t # Nobody
          BY <1>6, <1>7, StoreAssumption
        <4>2. p # new
          BY <1>o, <2>2, <4>1
        <4>3. p \in Pending /\ owner[p] = t
          BY <1>6, <1>o, <4>1, <4>2
        <4>4. QED
          BY <4>3 DEF Share
      <3>2. Share(t) \in SUBSET Ids
        BY DEF Share, Pending
      <3>3. Cardinality(share) <= Cardinality(Share(t))
        BY <3>1, <3>2, SmallerPart
      <3>4. Cardinality(Share(t)) <= MaxPerSession
        BY <1>1 DEF ShareInv
      <3>5. Cardinality(share) \in Nat /\ Cardinality(Share(t)) \in Nat
        BY <2>0, <3>2, IdsFinite
      <3>6. QED
        BY <3>3, <3>4, <3>5, StoreAssumption
    <2>3. QED
      BY <2>1, <2>2
  <1>11. \A p \in Ids : state'[p] = "none" <=> p > count'
    <2> SUFFICES ASSUME NEW p \in Ids
                 PROVE  state'[p] = "none" <=> p > count'
      OBVIOUS
    <2>1. count' = new /\ new = count + 1 /\ count \in Nat /\ p \in Nat
      BY <1>1, <1>d DEF SubmitAccepted, TypeOK, Ids
    <2>2. CASE p = new
      BY <1>m, <2>1, <2>2
    <2>3. CASE p # new
      <3>1. state'[p] = "none" <=> state[p] = "none"
        BY <1>m, <1>e, <1>s, <2>3 DEF Terminal
      <3>2. state[p] = "none" <=> p > count
        BY <1>1 DEF TypeOK
      <3>3. QED
        BY <2>1, <2>3, <3>1, <3>2
    <2>4. QED
      BY <2>2, <2>3
  <1>12. \A p \in Ids : owner'[p] = Nobody <=> state'[p] \in {"none", "gone"}
    <2> SUFFICES ASSUME NEW p \in Ids
                 PROVE  owner'[p] = Nobody <=> state'[p] \in {"none", "gone"}
      OBVIOUS
    <2>1. owner[p] = Nobody <=> state[p] \in {"none", "gone"}
      BY <1>1 DEF TypeOK
    <2>2. CASE p = new
      BY <1>m, <1>o, <2>2, StoreAssumption
    <2>3. CASE p # new
      BY <1>m, <1>o, <1>s, <2>1, <2>3
    <2>4. QED
      BY <2>2, <2>3
  <1>13. count' \in 0 .. MaxSubmits /\ now' = now /\ closed' = closed /\ reported' = reported
    BY <1>1, StoreAssumption DEF SubmitAccepted, TypeOK
  <1>14. TypeOK'
    BY <1>1, <1>m, <1>f, <1>11, <1>12, <1>13 DEF TypeOK
  <1>15. QED
    BY <1>9, <1>10, <1>14 DEF Inv

\* expire_all empties the queue.
LEMMA ExpireAllInv ==
  ASSUME Inv, ExpireAll
  PROVE  Inv'
  <1>1. TypeOK
    BY DEF Inv
  <1>2. \A p \in Ids : state'[p] = IF state[p] = "pending" THEN "expired" ELSE state[p]
    BY DEF ExpireAll, Pending
  <1>3. Pending' = {}
    BY <1>2 DEF Pending
  <1>4. Cardinality({}) = 0
    BY FS_EmptySet
  <1>5. QueueInv'
    BY <1>3, <1>4, StoreAssumption DEF QueueInv
  <1>6. ShareInv'
    <2>1. \A s \in Sessions : Share(s)' = {}
      BY <1>3 DEF Share
    <2>2. QED
      BY <2>1, <1>4, StoreAssumption DEF ShareInv
  <1>7. TypeOK'
    <2>1. state' \in [Ids -> States] /\ resolvedAt' \in [Ids -> Nat] /\ reported' \in SUBSET Ids
      BY <1>1 DEF ExpireAll, TypeOK, States, Terminal, Pending
    <2>2. \A p \in Ids : /\ state'[p] = "none" <=> state[p] = "none"
                         /\ state'[p] = "gone" <=> state[p] = "gone"
      BY <1>2
    <2>3. QED
      BY <1>1, <2>1, <2>2 DEF ExpireAll, TypeOK
  <1>8. QED
    BY <1>5, <1>6, <1>7 DEF Inv

\* The steps that touch no record, and stuttering.
LEMMA QuietInv ==
  ASSUME Inv, Close \/ Tick \/ (\E p \in Ids : Report(p)) \/ UNCHANGED vars
  PROVE  Inv'
  <1>1. state' = state /\ owner' = owner /\ expiresAt' = expiresAt /\ resolvedAt' = resolvedAt
        /\ count' = count
    BY DEF Close, Tick, Report, vars, stored
  <1>2. now' \in Nat /\ closed' \in BOOLEAN /\ unreported' \in SUBSET Ids /\ reported' \in SUBSET Ids
    <2>0. TypeOK
      BY DEF Inv
    <2>1. CASE Close \/ UNCHANGED vars
      BY <2>0, <2>1 DEF TypeOK, Close, vars
    <2>2. CASE Tick
      BY <2>0, <2>2 DEF TypeOK, Tick
    <2>3. CASE \E p \in Ids : Report(p)
      BY <2>0, <2>3 DEF TypeOK, Report
    <2>4. QED
      BY <2>1, <2>2, <2>3
  <1>3. QED
    BY <1>1, <1>2 DEF Inv, TypeOK, QueueInv, ShareInv, Share, Pending

\* Every step keeps the invariant.
LEMMA StepInv == Inv /\ [Next]_vars => Inv'
  <1> SUFFICES ASSUME Inv, [Next]_vars PROVE Inv'
    OBVIOUS
  <1>0. now \in Nat /\ Readings \subseteq Nat
    BY DEF Inv, TypeOK, Readings
  <1>1. CASE \E s \in Sessions, at \in Readings : SubmitAccepted(s, at)
    BY <1>1, SubmitInv
  <1>2. CASE \E s \in Sessions, at \in Readings : SubmitRefused(s, at)
    BY <1>0, <1>2, SweepOnlyInv DEF SubmitRefused
  <1>3. CASE \E p \in Ids, to \in Terminal : Resolve(p, to)
    BY <1>3, TransitionInv DEF Resolve
  <1>4. CASE \E p \in Ids : BeginExecution(p)
    BY <1>4, TransitionInv DEF BeginExecution
  <1>5. CASE \E p \in Ids, executed \in BOOLEAN : FinishExecution(p, executed)
    <2>1. PICK p \in Ids, executed \in BOOLEAN : FinishExecution(p, executed)
      BY <1>5
    <2>2. (IF executed THEN "executed" ELSE "failed") \in Terminal \union {"approved"}
      BY DEF Terminal
    <2>3. QED
      BY <2>1, <2>2, TransitionInv DEF FinishExecution
  <1>6. CASE \E p \in Ids, s \in Sessions : Cancel(p, s)
    BY <1>6, TransitionInv DEF Cancel, Terminal
  <1>7. CASE ExpireAll
    BY <1>7, ExpireAllInv
  <1>8. CASE Read
    BY <1>0, <1>8, SweepOnlyInv DEF Read
  <1>9. CASE Close \/ Tick \/ (\E p \in Ids : Report(p)) \/ UNCHANGED vars
    BY <1>9, QuietInv
  <1>10. QED
    BY <1>1, <1>2, <1>3, <1>4, <1>5, <1>6, <1>7, <1>8, <1>9 DEF Next

-----------------------------------------------------------------------------
(* The theorems.                                                           *)

\* The invariant holds in every reachable state.
THEOREM Invariance == Spec => []Inv
  BY InitInv, StepInv, PTL DEF Spec

\* The store's dictionaries stay well-typed and have the same keys.
THEOREM TypeCorrect == Spec => []TypeOK
  <1>1. Inv => TypeOK
    BY DEF Inv
  <1>2. QED
    BY <1>1, Invariance, PTL

\* The queue, and every session's share of it, stay within their caps.
THEOREM CapsAlwaysHold == Spec => []CapsHold
  <1>1. Inv => CapsHold
    BY DEF Inv, QueueInv, ShareInv, Share, CapsHold
  <1>2. QED
    BY <1>1, Invariance, PTL

-----------------------------------------------------------------------------
(* What a step may do to the records, whichever method takes it.           *)

\* A move of record `p` that some method makes after its sweep at `at`.
LegalMove(at, p, to) ==
    \/ state[p] = "none" /\ to = "pending"
    \/ /\ state[p] = "pending" /\ at = now /\ p \notin Stale(now)
       /\ to \in {"approved", "failed", "denied", "expired", "cancelled"}
    \/ state[p] = "approved" /\ to \in {"executed", "failed"}

PureSweep == \E at \in Nat : Sweep(at, {}, "gone") /\ reported' = reported
MoveStep  == \E at \in Nat, p \in Ids, to \in States :
                 Sweep(at, {p}, to) /\ LegalMove(at, p, to) /\ reported' = reported
QuietStep == /\ state' = state
             /\ \/ unreported' = unreported /\ reported' = reported
                \/ \E p \in unreported : /\ unreported' = unreported \ {p}
                                         /\ reported' = reported \union {p}

\* Every step is a sweep, a sweep and one legal move, expire_all, or leaves the
\* records alone.
LEMMA StepShape ==
  ASSUME TypeOK, [Next]_vars
  PROVE  PureSweep \/ MoveStep \/ ExpireAll \/ QuietStep
  <1>0. now \in Nat /\ Readings \subseteq Nat
    BY DEF TypeOK, Readings
  <1>e. \A at : Sweep(at, {}, "none") => Sweep(at, {}, "gone")
    BY DEF Sweep
  <1>1. CASE \E s \in Sessions, at \in Readings : SubmitAccepted(s, at)
    <2>1. PICK s \in Sessions, at \in Readings : SubmitAccepted(s, at)
      BY <1>1
    <2>2. PICK new \in Ids : new = count + 1
      BY <2>1, StoreAssumption DEF SubmitAccepted, TypeOK, Ids
    <2>3. state[new] = "none"
      BY <2>2 DEF TypeOK, Ids
    <2>4. LegalMove(at, new, "pending") /\ "pending" \in States
      BY <2>3 DEF LegalMove, States
    <2>5. Sweep(at, {new}, "pending") /\ reported' = reported
      BY <2>1, <2>2 DEF SubmitAccepted
    <2>6. QED
      BY <1>0, <2>4, <2>5 DEF MoveStep
  <1>2. CASE \/ \E s \in Sessions, at \in Readings : SubmitRefused(s, at)
             \/ Read
    BY <1>0, <1>2, <1>e DEF SubmitRefused, Read, PureSweep
  <1>3. ASSUME NEW p \in Ids, NEW to \in {"approved", "failed", "denied", "expired", "cancelled"},
               Transition(p, "pending", to)
        PROVE  MoveStep
    <2>1. LegalMove(now, p, to) /\ to \in States
      BY <1>3 DEF Transition, LegalMove, States, Terminal
    <2>2. QED
      BY <1>0, <1>3, <2>1 DEF Transition, MoveStep
  <1>4. CASE \E p \in Ids, to \in Terminal : Resolve(p, to)
    BY <1>3, <1>4 DEF Resolve, Terminal
  <1>5. CASE \E p \in Ids : BeginExecution(p)
    BY <1>3, <1>5 DEF BeginExecution
  <1>6. CASE \E p \in Ids, s \in Sessions : Cancel(p, s)
    BY <1>3, <1>6 DEF Cancel
  <1>7. CASE \E p \in Ids, executed \in BOOLEAN : FinishExecution(p, executed)
    <2>1. PICK p \in Ids, executed \in BOOLEAN : FinishExecution(p, executed)
      BY <1>7
    <2>2. PICK to \in {"executed", "failed"} : Transition(p, "approved", to)
      BY <2>1 DEF FinishExecution
    <2>3. LegalMove(now, p, to) /\ to \in States
      BY <2>2 DEF Transition, LegalMove, States, Terminal
    <2>4. QED
      BY <1>0, <2>2, <2>3 DEF Transition, MoveStep
  <1>8. CASE Close \/ Tick \/ UNCHANGED vars
    BY <1>8 DEF Close, Tick, vars, stored, QuietStep
  <1>9. CASE \E p \in Ids : Report(p)
    BY <1>9 DEF Report, stored, QuietStep
  <1>10. QED
    BY <1>1, <1>2, <1>4, <1>5, <1>6, <1>7, <1>8, <1>9 DEF Next

\* A record that a sweep does not move stays, or expires, or is evicted, and it
\* expires only when it is stale.
LEMMA Unmoved ==
  ASSUME TypeOK, NEW at \in Nat, NEW changed \in SUBSET Ids, NEW to \in States,
         Sweep(at, changed, to), NEW p \in Ids \ changed
  PROVE  \/ state'[p] = state[p]
         \/ p \in Stale(at) /\ state[p] = "pending" /\ state'[p] \in {"expired", "gone"}
         \/ state[p] \in Terminal /\ state'[p] = "gone"
  <1>1. /\ state'[p] = state[p] \/ p \in Evicted(at) \/ p \in Stale(at)
        /\ p \in Evicted(at) => state'[p] = "gone"
        /\ p \in Stale(at) => state'[p] \in {"expired", "gone"}
    BY SweepMoves
  <1>2. p \in Evicted(at) => state[p] \in Terminal \/ p \in Stale(at)
    BY EvictedAreTerminal
  <1>3. p \in Stale(at) => state[p] = "pending"
    BY DEF Stale, Pending
  <1>4. QED
    BY <1>1, <1>2, <1>3

\* The record a step moves is moved as told.
LEMMA Moved ==
  ASSUME TypeOK, NEW at \in Nat, NEW p \in Ids, NEW to \in States, Sweep(at, {p}, to)
  PROVE  state'[p] = to
  BY DEF Sweep

\* A step of the store is a step of its promise, or none of its business.
LEMMA LifecycleStep ==
  ASSUME Inv, [Next]_vars
  PROVE  [Lifecycle!Next]_state
  <1>1. TypeOK
    BY DEF Inv
  <1>3. CASE QuietStep
    BY <1>3 DEF QuietStep
  <1>4. CASE ExpireAll
    <2>1. \A p \in Ids : state'[p] = IF state[p] = "pending" THEN "expired" ELSE state[p]
      BY <1>4 DEF ExpireAll, Pending
    <2>2. \A p \in Ids : state'[p] = state[p] \/ Lifecycle!CanMove(state[p], state'[p])
      BY <2>1 DEF Lifecycle!CanMove, Lifecycle!Withdrawn
    <2>3. \A p, q \in Lifecycle!Claimed : p = q
      BY <2>1 DEF Lifecycle!Claimed
    <2>4. QED
      BY <2>2, <2>3 DEF Lifecycle!Next
  <1>5. CASE PureSweep
    <2>1. PICK at \in Nat : Sweep(at, {}, "gone")
      BY <1>5 DEF PureSweep
    <2>2. \A p \in Ids : \/ state'[p] = state[p]
                         \/ state[p] = "pending" /\ state'[p] \in {"expired", "gone"}
                         \/ state[p] \in Terminal /\ state'[p] = "gone"
      <3>1. {} \in SUBSET Ids /\ "gone" \in States
        BY DEF States
      <3>2. QED
        BY <1>1, <2>1, <3>1, Unmoved
    <2>3. \A p \in Ids : state'[p] = state[p] \/ Lifecycle!CanMove(state[p], state'[p])
      BY <2>2 DEF Lifecycle!CanMove, Lifecycle!Withdrawn, Terminal
    <2>4. \A p, q \in Lifecycle!Claimed : p = q
      BY <2>2 DEF Lifecycle!Claimed
    <2>5. QED
      BY <2>3, <2>4 DEF Lifecycle!Next
  <1>6. CASE MoveStep
    <2>1. PICK at \in Nat, m \in Ids, to \in States : Sweep(at, {m}, to) /\ LegalMove(at, m, to)
      BY <1>6 DEF MoveStep
    <2>2. \A p \in Ids \ {m} : \/ state'[p] = state[p]
                               \/ state[p] = "pending" /\ state'[p] \in {"expired", "gone"}
                               \/ state[p] \in Terminal /\ state'[p] = "gone"
      <3>1. {m} \in SUBSET Ids
        OBVIOUS
      <3>2. QED
        BY <1>1, <2>1, <3>1, Unmoved
    <2>3. state'[m] = to
      BY <1>1, <2>1, Moved
    <2>4. Lifecycle!CanMove(state[m], to)
      BY <2>1 DEF LegalMove, Lifecycle!CanMove, Lifecycle!Withdrawn
    <2>5. \A p \in Ids : state'[p] = state[p] \/ Lifecycle!CanMove(state[p], state'[p])
      BY <2>2, <2>3, <2>4 DEF Lifecycle!CanMove, Lifecycle!Withdrawn, Terminal
    <2>6. \A p \in Lifecycle!Claimed : p = m
      BY <2>2 DEF Lifecycle!Claimed
    <2>7. QED
      BY <2>5, <2>6 DEF Lifecycle!Next
  <1>7. QED
    BY <1>1, <1>3, <1>4, <1>5, <1>6, StepShape

\* The store implements ProposalLifecycle: whatever the order of its calls, an
\* approved proposal is only ever finished, outcomes are final, and at most one
\* claim is granted at a time.
THEOREM Refinement == Spec => ImplementsLifecycle
  <1>1. Init => Lifecycle!Init
    BY DEF Init, Lifecycle!Init
  <1>2. Inv /\ [Next]_vars => [Lifecycle!Next]_state
    BY LifecycleStep
  <1>3. QED
    BY <1>1, <1>2, Invariance, PTL DEF Spec, ImplementsLifecycle, Lifecycle!Spec

\* A step grants a claim only to a live pending proposal.
LEMMA ClaimStep ==
  ASSUME Inv, [Next]_vars, NEW p \in Ids, state[p] # "approved", state'[p] = "approved"
  PROVE  state[p] = "pending" /\ now < expiresAt[p]
  <1>1. TypeOK
    BY DEF Inv
  <1>2. ~QuietStep /\ ~ExpireAll
    BY DEF QuietStep, ExpireAll, Pending
  <1>3. ~PureSweep
    <2> SUFFICES ASSUME NEW at \in Nat, Sweep(at, {}, "gone") PROVE FALSE
      BY DEF PureSweep
    <2>1. {} \in SUBSET Ids /\ "gone" \in States
      BY DEF States
    <2>2. \/ state'[p] = state[p] \/ state'[p] \in {"expired", "gone"}
      BY <1>1, <2>1, Unmoved
    <2>3. QED
      BY <2>2
  <1>4. PICK at \in Nat, m \in Ids, to \in States : Sweep(at, {m}, to) /\ LegalMove(at, m, to)
    BY <1>1, <1>2, <1>3, StepShape DEF MoveStep
  <1>5. p = m
    <2> SUFFICES ASSUME p # m PROVE FALSE
      OBVIOUS
    <2>1. {m} \in SUBSET Ids /\ p \in Ids \ {m}
      OBVIOUS
    <2>2. \/ state'[p] = state[p] \/ state'[p] \in {"expired", "gone"}
      BY <1>1, <1>4, <2>1, Unmoved
    <2>3. QED
      BY <2>2
  <1>6. to = "approved"
    BY <1>1, <1>4, <1>5, Moved
  <1>7. state[p] = "pending" /\ p \notin Stale(now)
    BY <1>4, <1>5, <1>6 DEF LegalMove
  <1>8. now \in Nat /\ expiresAt[p] \in Nat
    BY <1>1 DEF TypeOK
  <1>9. QED
    BY <1>7, <1>8 DEF Stale, Pending

\* An approval always finds its proposal pending and within its TTL.
THEOREM ClaimsAreLive == Spec => ClaimIsLive
  <1>1. Inv /\ [Next]_vars =>
          [\A p \in Ids : state[p] # "approved" /\ state'[p] = "approved" =>
             state[p] = "pending" /\ now < expiresAt[p]]_vars
    BY ClaimStep
  <1>2. QED
    BY <1>1, Invariance, PTL DEF Spec, ClaimIsLive

-----------------------------------------------------------------------------
(* Expiries and their audit.                                               *)

\* An expiry owed or reported belongs to a record that has expired, and which
\* may be forgotten by now: it cannot expire, and be owed, a second time.
ReportInv ==
    /\ unreported \intersect reported = {}
    /\ \A p \in unreported \union reported : state[p] \in {"expired", "gone"}

\* What a step does to the two sets of expiries.
LEMMA ReportStep ==
  ASSUME TypeOK, ReportInv, [Next]_vars
  PROVE  /\ ReportInv'
         /\ \A p \in Pending : expiresAt[p] <= now /\ state'[p] # "pending"
                                 => p \in unreported' \union reported'
  <1>0. /\ unreported \in SUBSET Ids /\ reported \in SUBSET Ids
        /\ now \in Nat /\ expiresAt \in [Ids -> Nat]
    BY DEF TypeOK
  <1>1. CASE QuietStep
    BY <1>1 DEF QuietStep, ReportInv, Pending
  <1>2. CASE ExpireAll
    <2>1. \A p \in Ids : state'[p] = IF state[p] = "pending" THEN "expired" ELSE state[p]
      BY <1>2 DEF ExpireAll, Pending
    <2>2. unreported' = unreported /\ reported' = reported \union Pending
      BY <1>2 DEF ExpireAll
    <2>3. Pending \intersect unreported = {}
      BY DEF ReportInv, Pending
    <2>4. QED
      BY <1>0, <2>1, <2>2, <2>3 DEF ReportInv, Pending
  <1>3. ASSUME NEW at \in Nat, NEW changed \in SUBSET Ids, NEW to \in States,
               Sweep(at, changed, to), reported' = reported,
               \A p \in changed : state[p] \in {"none", "pending", "approved"},
               \A p \in changed : state[p] = "pending" => at = now /\ p \notin Stale(now)
        PROVE  /\ ReportInv'
               /\ \A p \in Pending : expiresAt[p] <= now /\ state'[p] # "pending"
                                       => p \in unreported' \union reported'
    <2>1. unreported' = unreported \union Stale(at)
      BY <1>3 DEF Sweep, Owed
    <2>2. \A p \in Ids \ changed :
              \/ state'[p] = state[p]
              \/ p \in Stale(at) /\ state[p] = "pending" /\ state'[p] \in {"expired", "gone"}
              \/ state[p] \in Terminal /\ state'[p] = "gone"
      BY <1>3, Unmoved
    <2>3. \A p \in Stale(at) : p \in Ids /\ state[p] = "pending"
      BY DEF Stale, Pending
    <2>4. \A p \in Stale(at) : p \notin changed
      BY <1>3, <2>3
    <2>5. \A p \in Stale(at) : state'[p] \in {"expired", "gone"}
      BY <1>3, <2>3, <2>4, SweepMoves
    <2>6. \A p \in unreported \union reported :
              p \in Ids /\ p \notin changed /\ state'[p] \in {"expired", "gone"}
      BY <1>0, <1>3, <2>2 DEF ReportInv
    <2>7. ReportInv'
      <3>1. Stale(at) \intersect reported = {}
        BY <2>3 DEF ReportInv
      <3>2. unreported' \intersect reported' = {}
        BY <1>3, <2>1, <3>1 DEF ReportInv
      <3>3. QED
        BY <1>3, <2>1, <2>5, <2>6, <3>2 DEF ReportInv
    <2>8. ASSUME NEW p \in Pending, expiresAt[p] <= now, state'[p] # "pending"
          PROVE  p \in unreported' \union reported'
      <3>1. p \in Ids /\ state[p] = "pending" /\ p \in Stale(now)
        BY <2>8 DEF Pending, Stale
      <3>2. p \in Ids \ changed
        BY <1>3, <3>1
      <3>3. p \in Stale(at)
        BY <2>2, <2>8, <3>1, <3>2 DEF Terminal
      <3>4. QED
        BY <2>1, <3>3
    <2>9. QED
      BY <2>7, <2>8
  <1>4. CASE PureSweep
    <2>1. PICK at \in Nat : Sweep(at, {}, "gone") /\ reported' = reported
      BY <1>4 DEF PureSweep
    <2>2. {} \in SUBSET Ids /\ "gone" \in States
      BY DEF States
    <2>3. QED
      BY <1>3, <2>1, <2>2
  <1>5. CASE MoveStep
    <2>1. PICK at \in Nat, m \in Ids, to \in States :
              Sweep(at, {m}, to) /\ LegalMove(at, m, to) /\ reported' = reported
      BY <1>5 DEF MoveStep
    <2>2. {m} \in SUBSET Ids
      OBVIOUS
    <2>3. state[m] \in {"none", "pending", "approved"}
      BY <2>1 DEF LegalMove
    <2>4. state[m] = "pending" => at = now /\ m \notin Stale(now)
      BY <2>1 DEF LegalMove
    <2>5. QED
      BY <1>3, <2>1, <2>2, <2>3, <2>4
  <1>6. QED
    BY <1>1, <1>2, <1>4, <1>5, StepShape

\* Every expiry that a step causes is owed to the hook or returned to the caller
\* that audits it, and none is audited twice.
THEOREM ExpiriesReported == Spec => ExpiryIsReportedOnce
  <1>1. Init => ReportInv
    BY DEF Init, ReportInv
  <1>2. TypeOK /\ ReportInv /\ [Next]_vars => ReportInv'
    BY ReportStep
  <1>3. TypeOK /\ ReportInv /\ [Next]_vars =>
          [/\ \A p \in Pending : expiresAt[p] <= now /\ state'[p] # "pending"
                                   => p \in unreported' \union reported'
           /\ unreported' \intersect reported' = {}]_vars
    BY ReportStep DEF ReportInv
  <1>4. QED
    BY <1>1, <1>2, <1>3, TypeCorrect, PTL DEF Spec, ExpiryIsReportedOnce
-----------------------------------------------------------------------------
(* Retention.                                                              *)

\* The records that were resolved after `p`, ties by submission.
Newer(kept, resolved, p) ==
    {q \in kept : resolved[q] > resolved[p] \/ (resolved[q] = resolved[p] /\ q > p)}

\* A set of numbers has a smallest one.
LEMMA HasSmallest ==
  ASSUME NEW S \in SUBSET Nat, S # {}
  PROVE  \E m \in S : \A n \in S : m <= n
  <1>1. PICK m \in S : \A n \in S : <<n, m>> \notin OpToRel(<, Nat)
    BY NatLessThanWellFounded, WFMin, Zenon
  <1>2. \A n \in S : ~(n < m)
    BY <1>1 DEF OpToRel
  <1>3. QED
    BY <1>2

\* A set of records has an oldest one.
LEMMA HasOldest ==
  ASSUME NEW S \in SUBSET Ids, S # {}, NEW resolved \in [Ids -> Nat]
  PROVE  \E p \in S : S \ {p} \subseteq Newer(S, resolved, p)
  <1>1. Ids \subseteq Nat
    BY StoreAssumption DEF Ids
  <1> DEFINE Times == {resolved[q] : q \in S}
  <1>2. PICK t \in Times : \A u \in Times : t <= u
    <2>1. Times \in SUBSET Nat /\ Times # {}
      OBVIOUS
    <2> HIDE DEF Times
    <2>2. QED
      BY <2>1, HasSmallest
  <1> DEFINE First == {q \in S : resolved[q] = t}
  <1>3. PICK p \in First : \A q \in First : p <= q
    <2>1. First \in SUBSET Nat /\ First # {}
      BY <1>1, <1>2
    <2> HIDE DEF First
    <2>2. QED
      BY <2>1, HasSmallest
  <1>4. ASSUME NEW q \in S, q # p
        PROVE  resolved[q] > resolved[p] \/ (resolved[q] = resolved[p] /\ q > p)
    <2>1. resolved[p] = t /\ t <= resolved[q] /\ t \in Nat /\ resolved[q] \in Nat
      BY <1>2, <1>3
    <2>2. CASE resolved[q] = t
      BY <1>1, <1>3, <1>4, <2>1, <2>2
    <2>3. CASE resolved[q] # t
      BY <2>1, <2>3
    <2>4. QED
      BY <2>2, <2>3
  <1>5. QED
    BY <1>3, <1>4 DEF Newer

\* However many records there were, no more than max_terminal survive the overflow.
LEMMA SurvivorsFit ==
  ASSUME NEW kept \in SUBSET Ids, NEW resolved \in [Ids -> Nat]
  PROVE  Cardinality(kept \ Overflow(kept, resolved)) <= MaxTerminal
  <1> DEFINE S == kept \ Overflow(kept, resolved)
  <1>1. MaxTerminal \in Nat /\ S \in SUBSET Ids
    BY StoreAssumption
  <1>2. CASE S = {}
    BY <1>1, <1>2, FS_EmptySet
  <1>3. CASE S # {}
    <2>1. PICK p \in S : S \ {p} \subseteq Newer(S, resolved, p)
      <3> HIDE DEF S
      <3>1. QED
        BY <1>1, <1>3, HasOldest
    <2>2. S \ {p} \subseteq Newer(kept, resolved, p) /\ Newer(kept, resolved, p) \in SUBSET Ids
      BY <2>1 DEF Newer
    <2>3. ~(Cardinality(Newer(kept, resolved, p)) >= MaxTerminal)
      BY DEF Overflow, Newer
    <2>4. IsFiniteSet(S) /\ Cardinality(S) \in Nat /\ Cardinality(Newer(kept, resolved, p)) \in Nat
      BY <1>1, <2>2, IdsFinite
    <2>5. Cardinality(S \ {p}) = Cardinality(S) - 1
      BY <2>1, <2>4, FS_RemoveElement
    <2>6. Cardinality(S \ {p}) <= Cardinality(Newer(kept, resolved, p))
      BY <2>2, SmallerPart
    <2> HIDE DEF S
    <2>7. Cardinality(S) <= MaxTerminal
      BY <1>1, <2>3, <2>4, <2>5, <2>6
    <2>8. QED
      BY <2>7 DEF S
  <1>4. QED
    BY <1>2, <1>3

\* A sweep drops no record before one that was resolved earlier.
LEMMA OldestGoFirst ==
  ASSUME TypeOK, NEW at \in Nat, NEW p \in Evicted(at), NEW q \in Ids \ Evicted(at),
         state[p] \in Terminal, state[q] \in Terminal
  PROVE  resolvedAt[p] <= resolvedAt[q]
  <1> DEFINE resolved == [r \in Ids |-> IF r \in Stale(at) THEN at ELSE resolvedAt[r]]
             terminal == TerminalIn(state) \union Stale(at)
             aged     == {r \in terminal : resolved[r] + Retention <= at}
             kept     == terminal \ aged
  <1>1. Evicted(at) = aged \union Overflow(kept, resolved)
    BY DEF Evicted
  <1>2. /\ p \in Ids /\ q \in Ids /\ p \in terminal /\ q \in terminal
        /\ resolved[p] = resolvedAt[p] /\ resolved[q] = resolvedAt[q]
    BY EvictedAreTerminal DEF TerminalIn, Stale, Pending, Terminal
  <1>3. resolvedAt[p] \in Nat /\ resolvedAt[q] \in Nat /\ Retention \in Nat /\ MaxTerminal \in Nat
    BY <1>2, StoreAssumption DEF TypeOK
  <1>4. q \notin aged /\ q \in kept
    BY <1>1, <1>2
  <1>5. CASE p \in aged
    <2>1. resolvedAt[p] + Retention <= at /\ ~(resolvedAt[q] + Retention <= at)
      BY <1>2, <1>4, <1>5
    <2>2. QED
      BY <1>3, <2>1
  <1>6. CASE p \in Overflow(kept, resolved)
    <2>1. kept \in SUBSET Ids
      BY DEF TerminalIn, Stale, Pending
    <2>2. q \notin Overflow(kept, resolved)
      BY <1>1
    <2>3. p \in kept /\ Ids \subseteq Nat
      BY <1>6, StoreAssumption DEF Overflow, Ids
    <2> HIDE DEF kept, resolved
    <2>4. /\ Cardinality(Newer(kept, resolved, p)) >= MaxTerminal
          /\ ~(Cardinality(Newer(kept, resolved, q)) >= MaxTerminal)
      BY <1>4, <1>6, <2>2 DEF Overflow, Newer
    <2>5. SUFFICES ASSUME resolvedAt[q] < resolvedAt[p] PROVE FALSE
      BY <1>3
    <2>6. \A r \in kept : resolved[r] \in Nat
      <3>1. \A r \in Ids : resolved[r] \in Nat
        BY DEF resolved, TypeOK
      <3>2. QED
        BY <2>1, <3>1
    <2>7. Newer(kept, resolved, p) \subseteq Newer(kept, resolved, q)
      BY <1>2, <1>3, <2>5, <2>6 DEF Newer
    <2>8. Newer(kept, resolved, q) \in SUBSET Ids /\ Newer(kept, resolved, p) \in SUBSET Ids
      BY <2>1 DEF Newer
    <2>9. /\ Cardinality(Newer(kept, resolved, p)) <= Cardinality(Newer(kept, resolved, q))
          /\ Cardinality(Newer(kept, resolved, p)) \in Nat
          /\ Cardinality(Newer(kept, resolved, q)) \in Nat
      BY <2>7, <2>8, SmallerPart, IdsFinite
    <2>10. QED
      BY <1>3, <2>4, <2>9
  <1>7. QED
    BY <1>1, <1>5, <1>6

\* The record a step moves is in the queue's hands, and what goes was terminal.
LEMMA Leaving ==
  ASSUME TypeOK, NEW at \in Nat, NEW changed \in SUBSET Ids, NEW to \in States,
         Sweep(at, changed, to),
         \A c \in changed : state[c] \in {"none", "pending", "approved"},
         NEW p \in Ids, NEW q \in Ids,
         state[p] \in Terminal, state'[p] = "gone", state[q] \in Terminal, state'[q] # "gone"
  PROVE  resolvedAt[p] <= resolvedAt[q]
  <1>1. p \notin changed /\ q \notin changed
    BY DEF Terminal
  <1>2. state[p] # "gone"
    BY DEF Terminal
  <1>3. p \in Evicted(at) /\ q \notin Evicted(at)
    BY <1>1, <1>2, SweepMoves
  <1>4. QED
    BY <1>3, OldestGoFirst

\* A submission leaves no more resolved records behind than retention allows.
LEMMA SubmissionFits ==
  ASSUME TypeOK, NEW s \in Sessions, NEW at \in Nat, SubmitAccepted(s, at)
  PROVE  Cardinality(TerminalIn(state')) <= MaxTerminal
  <1> DEFINE resolved == [r \in Ids |-> IF r \in Stale(at) THEN at ELSE resolvedAt[r]]
             terminal == TerminalIn(state) \union Stale(at)
             aged     == {r \in terminal : resolved[r] + Retention <= at}
             kept     == terminal \ aged
  <1>1. Evicted(at) = aged \union Overflow(kept, resolved)
    BY DEF Evicted
  <1>2. \A r \in Ids : state'[r] = IF r = count + 1 THEN "pending"
                                   ELSE IF r \in Evicted(at) THEN "gone"
                                   ELSE IF r \in Stale(at) THEN "expired" ELSE state[r]
    BY DEF SubmitAccepted, Sweep
  <1>3. TerminalIn(state') \subseteq kept \ Overflow(kept, resolved)
    <2> SUFFICES ASSUME NEW r \in Ids, state'[r] \in Terminal
                 PROVE  r \in kept \ Overflow(kept, resolved)
      BY DEF TerminalIn
    <2>1. r \notin Evicted(at) /\ (r \in Stale(at) \/ state[r] \in Terminal)
      BY <1>2 DEF Terminal
    <2>2. r \in terminal
      BY <2>1 DEF TerminalIn
    <2>3. QED
      BY <1>1, <2>1, <2>2
  <1>4. kept \in SUBSET Ids /\ resolved \in [Ids -> Nat]
    BY DEF TerminalIn, Stale, Pending, TypeOK
  <1> HIDE DEF kept, resolved
  <1>5. kept \ Overflow(kept, resolved) \in SUBSET Ids
    BY <1>4
  <1>6. Cardinality(kept \ Overflow(kept, resolved)) <= MaxTerminal
    BY <1>4, SurvivorsFit
  <1>7. Cardinality(TerminalIn(state')) <= Cardinality(kept \ Overflow(kept, resolved))
    BY <1>3, <1>5, SmallerPart
  <1>8. /\ Cardinality(TerminalIn(state')) \in Nat /\ MaxTerminal \in Nat
        /\ Cardinality(kept \ Overflow(kept, resolved)) \in Nat
    BY <1>5, IdsFinite, StoreAssumption DEF TerminalIn
  <1>9. QED
    BY <1>6, <1>7, <1>8

\* Retention bounds the store where it grows, and drops the oldest resolutions first
\* (_sweep_expired and submit).
THEOREM NewestAreKept == Spec => KeepsTheNewest
  <1> DEFINE Fits  == count' # count => Cardinality(TerminalIn(state')) <= MaxTerminal
             Order == \A p, q \in Ids :
                        /\ state[p] \in Terminal /\ state'[p] = "gone"
                        /\ state[q] \in Terminal /\ state'[q] # "gone"
                        => resolvedAt[p] <= resolvedAt[q]
  <1>1. TypeOK /\ [Next]_vars => Fits
    <2> SUFFICES ASSUME TypeOK, [Next]_vars, count' # count
                 PROVE  Cardinality(TerminalIn(state')) <= MaxTerminal
      OBVIOUS
    <2>1. PICK s \in Sessions, at \in Readings : SubmitAccepted(s, at)
      BY DEF Next, SubmitRefused, Resolve, BeginExecution, FinishExecution, Cancel, Transition,
         ExpireAll, Read, Close, Tick, Report, vars
    <2>2. at \in Nat
      BY DEF Readings, TypeOK
    <2>3. QED
      BY <2>1, <2>2, SubmissionFits
  <1>2. TypeOK /\ [Next]_vars => Order
    <2> SUFFICES ASSUME TypeOK, [Next]_vars, NEW p \in Ids, NEW q \in Ids,
                        state[p] \in Terminal, state'[p] = "gone",
                        state[q] \in Terminal, state'[q] # "gone"
                 PROVE  resolvedAt[p] <= resolvedAt[q]
      OBVIOUS
    <2>1. ~QuietStep /\ ~ExpireAll
      BY DEF QuietStep, ExpireAll, Pending, Terminal
    <2>2. CASE PureSweep
      <3>1. PICK at \in Nat : Sweep(at, {}, "gone")
        BY <2>2 DEF PureSweep
      <3>2. QED
        BY <3>1, Leaving DEF States
    <2>3. CASE MoveStep
      <3>1. PICK at \in Nat, m \in Ids, to \in States : Sweep(at, {m}, to) /\ LegalMove(at, m, to)
        BY <2>3 DEF MoveStep
      <3>2. state[m] \in {"none", "pending", "approved"}
        BY <3>1 DEF LegalMove
      <3>3. QED
        BY <3>1, <3>2, Leaving
    <2>4. QED
      BY <2>1, <2>2, <2>3, StepShape
  <1>3. TypeOK /\ [Next]_vars => [Fits /\ Order]_vars
    BY <1>1, <1>2
  <1>4. QED
    BY <1>3, TypeCorrect, PTL DEF Spec, KeepsTheNewest
=============================================================================
