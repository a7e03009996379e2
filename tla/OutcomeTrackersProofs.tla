----------------------- MODULE OutcomeTrackersProofs -----------------------
(***************************************************************************)
(* Theorems of OutcomeTrackers, for any number of trackers, polls and      *)
(* context switches.                                                       *)
(***************************************************************************)
EXTENDS OutcomeTrackers, FiniteSetTheorems, SequenceTheorems, TLAPS

(***************************************************************************)
(* The inductive invariant.  That the epoch stands still under a read      *)
(* takes two facts that the properties do not state: the epoch is still    *)
(* the one every living worker started in, as a switch waits for them all; *)
(* and once the switch is past that wait nothing is alive to start a read. *)
(***************************************************************************)
Workers == [at : Alive \union {"idle", "over"}, polls : Nat, read : {"none", "running", "over"},
            upon : SUBSET {"late", "timeout", "cancel"}]

TypeOK ==
    /\ count \in 0 .. MaxStarts /\ kept \in Seq(Ids)
    /\ phase \in [Ids -> {"none"} \union Active \union Final]
    /\ home \in [Ids -> Nat] /\ epoch \in Nat
    /\ work \in [Ids -> Workers]
    /\ switch \in {"none", "stopping", "drained"} /\ app \in {"up", "closing", "down"}

\* The retained trackers were started; the list never outgrows its cap.
KeptInv == Len(kept) <= MaxTrackers /\ \A i \in Retained : i <= count

\* A worker lives in the epoch it started in, and reads in it.
HomeInv == \A i \in Living \union InFlight : home[i] = epoch

\* A switch that has drained the trackers left none alive, and no read behind.
DrainedInv == switch = "drained" => Living = {} /\ InFlight = {}

\* The reads in flight are bounded.
ReadInv == Cardinality(InFlight) <= MaxTrackers

Inv == TypeOK /\ KeptInv /\ HomeInv /\ DrainedInv /\ ReadInv

-----------------------------------------------------------------------------
(* What a step does to the workers.                                        *)

\* The bounds are numbers, and the trackers finitely many.
LEMMA Bounds ==
  /\ MaxStarts \in Nat /\ MaxTrackers \in Nat /\ MaxTrackers > 0
  /\ Ids = 1 .. MaxStarts /\ IsFiniteSet(Ids)
  BY TrackersAssumption, FS_Interval DEF Ids

\* Whoever has less in flight has no more than the cap.
LEMMA FewerReads ==
  ASSUME ReadInv, InFlight' \subseteq InFlight
  PROVE  ReadInv'
  <1>1. IsFiniteSet(InFlight)
    BY Bounds, FS_Subset DEF InFlight
  <1>2. Cardinality(InFlight') <= Cardinality(InFlight) /\ IsFiniteSet(InFlight')
    BY <1>1, FS_Subset
  <1>3. Cardinality(InFlight) \in Nat /\ Cardinality(InFlight') \in Nat
    BY <1>1, <1>2, FS_CardinalityType
  <1>4. QED
    BY <1>2, <1>3, Bounds DEF ReadInv

\* A step of one worker is a step of that worker.
LEMMA Going ==
  ASSUME TypeOK, NEW i \in Ids, NEW w \in Workers, Goes(i, w)
  PROVE  /\ work' \in [Ids -> Workers] /\ work'[i] = w
         /\ \A j \in Ids \ {i} : work'[j] = work[j]
  BY DEF TypeOK, Goes

\* What a worker leaves behind.
LEMMA Leaving ==
  ASSUME TypeOK, NEW i \in Ids, Leaves(i)
  PROVE  /\ work' \in [Ids -> Workers] /\ work'[i].at = "over"
         /\ work'[i].read = "running" => work[i].read = "running"
         /\ \A j \in Ids \ {i} : work'[j] = work[j]
  <1> DEFINE w == [Idle EXCEPT !.at = "over",
                               !.read = IF work[i].read = "running" THEN "running" ELSE "none"]
  <1>1. w \in Workers /\ w.at = "over" /\ (w.read = "running" => work[i].read = "running")
    BY DEF Workers, Idle
  <1>2. Goes(i, w)
    BY DEF Leaves
  <1> HIDE DEF w
  <1>3. QED
    BY <1>1, <1>2, Going

\* Outcomes are of the kinds they are, and only a retained one changes.
LEMMA Updating ==
  ASSUME TypeOK, NEW i \in Ids, NEW p \in Active \union Final, Update(i, p) \/ Mark(i, p) \/ UNCHANGED phase
  PROVE  /\ phase' \in [Ids -> {"none"} \union Active \union Final]
         /\ \A j \in Ids \ {i} : phase'[j] = phase[j]
         /\ ~Update(i, p) /\ phase[i] \notin Active => phase'[i] = phase[i]
  BY DEF TypeOK, Update, Mark

\* Workers only die, and reads only end: the epoch and the trackers stay.
Winds == /\ UNCHANGED <<count, kept, home, epoch>>
         /\ Living' \subseteq Living /\ InFlight' \subseteq InFlight

\* A worker polls its cluster.
Reads(i) == /\ UNCHANGED <<count, kept, home, session>>
            /\ i \in Living /\ home[i] = epoch /\ Cardinality(InFlight) < MaxTrackers
            /\ Living' = Living /\ InFlight' = InFlight \union {i}

\* Marking workers starts none.
LEMMA Marking ==
  ASSUME TypeOK, NEW those \in SUBSET Ids, Cancel(those)
  PROVE  /\ work' \in [Ids -> Workers] /\ Living' = Living /\ InFlight' = InFlight
  <1>1. \A i \in Ids : /\ work[i] \in Workers
                       /\ [work[i] EXCEPT !.upon = @ \union {"cancel"}] \in Workers
    BY DEF TypeOK, Workers
  <1>2. \A i \in Ids : work'[i] \in Workers /\ work'[i].at = work[i].at /\ work'[i].read = work[i].read
    BY <1>1 DEF Cancel, TypeOK, Workers
  <1>3. work' \in [Ids -> Workers]
    BY <1>1 DEF Cancel
  <1>4. QED
    BY <1>2, <1>3 DEF Living, InFlight

\* A step of a worker: it winds down, or reads.
LEMMA WorkerSteps ==
  ASSUME Inv, NEW i \in Ids, Step(i)
  PROVE  /\ work' \in [Ids -> Workers]
         /\ phase' \in [Ids -> {"none"} \union Active \union Final]
         /\ (Winds \/ Reads(i)) /\ UNCHANGED session
  <1>1. TypeOK /\ work[i] \in Workers
    BY DEF Inv, TypeOK
  <1>2. /\ UNCHANGED <<count, kept, home, session>>
    BY DEF Step, Polls, NeverBegins, Resumes, Interrupted, Unwinds, Ends, trackers
  <1>3. epoch' = epoch
    BY <1>2 DEF session
  <1>4. ASSUME NEW w \in Workers, Goes(i, w), w.at \in Alive => work[i].at \in Alive,
               w.read = "running" => work[i].read = "running"
        PROVE  work' \in [Ids -> Workers] /\ Winds
    BY <1>1, <1>2, <1>3, <1>4, Going DEF Winds, Living, InFlight
  <1>5. ASSUME Leaves(i)
        PROVE  work' \in [Ids -> Workers] /\ Winds
    BY <1>1, <1>2, <1>3, <1>5, Leaving DEF Winds, Living, InFlight, Alive
  <1>6. ASSUME NEW p \in Active \union Final, Update(i, p) \/ Mark(i, p)
        PROVE  phase' \in [Ids -> {"none"} \union Active \union Final]
    BY <1>1, <1>6, Updating
  <1>7. ASSUME UNCHANGED phase
        PROVE  phase' \in [Ids -> {"none"} \union Active \union Final]
    BY <1>1, <1>7 DEF TypeOK
  <1>8. {"incomplete", "byContext", "verdict", "cancelled", "observing"} \subseteq Active \union Final
    BY DEF Active, Final
  <1>9. CASE Polls(i)
    <2>1. ASSUME home[i] = epoch, Cardinality(InFlight) < MaxTrackers, UNCHANGED phase,
                 Goes(i, [work[i] EXCEPT !.at = "wait", !.polls = @ + 1, !.read = "running"])
          PROVE  work' \in [Ids -> Workers] /\ Reads(i)
      <3> DEFINE w == [work[i] EXCEPT !.at = "wait", !.polls = @ + 1, !.read = "running"]
      <3>1. w \in Workers /\ w.at = "wait" /\ w.read = "running"
        <4>1. PICK k \in Nat : k = work[i].polls + 1
          BY <1>1 DEF Workers
        <4>2. w = [work[i] EXCEPT !.at = "wait", !.polls = k, !.read = "running"]
          BY <4>1
        <4> HIDE DEF w
        <4>3. QED
          BY <1>1, <4>2 DEF Workers, Alive
      <3>2. Goes(i, w)
        BY <2>1
      <3> HIDE DEF w
      <3>3. /\ work' \in [Ids -> Workers] /\ work'[i] = w
            /\ \A j \in Ids \ {i} : work'[j] = work[j]
        BY <1>1, <3>1, <3>2, Going
      <3>4. i \in Living /\ i \in Living'
        BY <1>9, <3>1, <3>3 DEF Polls, Living, Alive
      <3>5. Living' = Living /\ InFlight' = InFlight \union {i}
        BY <3>1, <3>3, <3>4 DEF Living, InFlight
      <3>6. QED
        BY <1>2, <2>1, <3>3, <3>4, <3>5 DEF Reads
    <2>2. \/ Leaves(i) /\ (UNCHANGED phase \/ Update(i, "byContext") \/ Mark(i, "incomplete"))
          \/ /\ home[i] = epoch /\ Cardinality(InFlight) < MaxTrackers /\ UNCHANGED phase
             /\ Goes(i, [work[i] EXCEPT !.at = "wait", !.polls = @ + 1, !.read = "running"])
      BY <1>9 DEF Polls, Poll
    <2>3. QED
      BY <1>2, <1>5, <1>6, <1>7, <1>8, <2>1, <2>2
  <1>10. CASE NeverBegins(i)
    BY <1>2, <1>5, <1>7, <1>10 DEF NeverBegins, trackers
  <1>11. CASE Resumes(i)
    <2>1. CASE Leaves(i) /\ (UNCHANGED phase \/ Update(i, "byContext") \/ Mark(i, "incomplete")
                               \/ Update(i, "verdict") \/ Update(i, "incomplete"))
      BY <1>2, <1>5, <1>6, <1>7, <1>8, <2>1
    <2>2. CASE Mark(i, "observing") /\ Goes(i, [work[i] EXCEPT !.at = "pause", !.read = "none"])
      <3> DEFINE w == [work[i] EXCEPT !.at = "pause", !.read = "none"]
      <3>1. w \in Workers /\ w.at = "pause" /\ w.read = "none"
        BY <1>1 DEF Workers, Alive
      <3>2. Goes(i, w) /\ work[i].at \in Alive
        BY <1>11, <2>2 DEF Resumes, Alive
      <3> HIDE DEF w
      <3>3. work' \in [Ids -> Workers] /\ Winds
        BY <1>4, <3>1, <3>2
      <3>4. QED
        BY <1>2, <1>6, <1>8, <2>2, <3>3
    <2>3. QED
      BY <1>11, <2>1, <2>2 DEF Resumes, Apply, NextPoll
  <1>12. CASE Interrupted(i)
    <2>1. CASE Ends(i)
      BY <1>2, <1>5, <1>6, <1>8, <2>1 DEF Ends
    <2>2. CASE /\ work[i].at = "wait" /\ UNCHANGED phase
               /\ Goes(i, [work[i] EXCEPT !.at = "unwind"])
      <3> DEFINE w == [work[i] EXCEPT !.at = "unwind"]
      <3>1. w \in Workers /\ w.read = work[i].read
        BY <1>1 DEF Workers, Alive
      <3>2. Goes(i, w) /\ work[i].at \in Alive
        BY <2>2 DEF Alive
      <3> HIDE DEF w
      <3>3. work' \in [Ids -> Workers] /\ Winds
        BY <1>4, <3>1, <3>2
      <3>4. QED
        BY <1>2, <1>7, <2>2, <3>3
    <2>3. QED
      BY <1>12, <2>1, <2>2 DEF Interrupted, trackers
  <1>13. CASE Unwinds(i)
    BY <1>2, <1>5, <1>6, <1>8, <1>13 DEF Unwinds, Ends
  <1>14. QED
    BY <1>9, <1>10, <1>11, <1>12, <1>13 DEF Step

\* The read, the clock and the timer only wind down.
LEMMA Surroundings ==
  ASSUME Inv, NEW i \in Ids, ReadEnds(i) \/ DeadlinePasses(i) \/ TimerFires(i)
  PROVE  work' \in [Ids -> Workers] /\ Winds /\ UNCHANGED <<phase, session>>
  <1>1. TypeOK /\ work[i] \in Workers
    BY DEF Inv, TypeOK
  <1>2. UNCHANGED <<trackers, session>>
    BY DEF ReadEnds, DeadlinePasses, TimerFires, Befalls
  <1>3. PICK w : /\ Goes(i, w) /\ w \in Workers /\ w.at = work[i].at
                 /\ w.read = "running" => work[i].read = "running"
    <2>1. CASE ReadEnds(i)
      <3> DEFINE w == [work[i] EXCEPT !.read = IF work[i].at \in Alive THEN "over" ELSE "none"]
      <3>1. w \in Workers /\ w.at = work[i].at /\ w.read # "running"
        BY <1>1 DEF Workers
      <3>2. Goes(i, w)
        BY <2>1 DEF ReadEnds
      <3> HIDE DEF w
      <3>3. QED
        BY <3>1, <3>2
    <2>2. CASE DeadlinePasses(i) \/ TimerFires(i)
      <3>1. PICK what \in {"late", "timeout"} : Befalls(i, what)
        BY <2>2 DEF DeadlinePasses, TimerFires
      <3> DEFINE w == [work[i] EXCEPT !.upon = @ \union {what}]
      <3>2. w \in Workers /\ w.at = work[i].at /\ w.read = work[i].read
        BY <1>1 DEF Workers
      <3>3. Goes(i, w)
        BY <3>1 DEF Befalls
      <3> HIDE DEF w
      <3>4. QED
        BY <3>2, <3>3
    <2>3. QED
      BY <2>1, <2>2
  <1>4. /\ work' \in [Ids -> Workers] /\ work'[i] = w
        /\ \A j \in Ids \ {i} : work'[j] = work[j]
    BY <1>1, <1>3, Going
  <1>5. Living' \subseteq Living /\ InFlight' \subseteq InFlight
    BY <1>3, <1>4 DEF Living, InFlight
  <1>6. QED
    BY <1>2, <1>4, <1>5 DEF Winds, trackers, session

-----------------------------------------------------------------------------
(* A tracker that starts.                                                  *)

\* The next tracker is a new one.
LEMMA Next1 ==
  ASSUME Inv, Starting
  PROVE  /\ count + 1 \in Ids /\ count + 1 \in 0 .. MaxStarts /\ count \in Nat
         /\ count + 1 \notin Retained /\ kept \in Seq(Ids) /\ Retained \subseteq Ids
  <1>1. count \in Nat /\ count < MaxStarts /\ kept \in Seq(Ids)
    BY Bounds DEF Inv, TypeOK, Starting
  <1>2. \A i \in Retained : i <= count
    BY DEF Inv, KeptInv
  <1>3. Retained \subseteq Ids
    <2>1. DOMAIN kept = 1 .. Len(kept) /\ \A n \in 1 .. Len(kept) : kept[n] \in Ids
      BY <1>1, LenProperties, ElementOfSeq
    <2>2. QED
      BY <2>1 DEF Retained, ToSet
  <1>4. QED
    BY <1>1, <1>2, <1>3, Bounds

\* The list grows by one, or changes its oldest for the new one.
LEMMA Keeping ==
  ASSUME Inv, Starting,
         \/ Len(kept) < MaxTrackers /\ kept' = Append(kept, count + 1)
         \/ Len(kept) >= MaxTrackers /\ kept' = Append(Tail(kept), count + 1)
  PROVE  /\ kept' \in Seq(Ids) /\ Len(kept') <= MaxTrackers
         /\ Retained' \subseteq Retained \union {count + 1}
  <1>1. kept \in Seq(Ids) /\ count + 1 \in Ids /\ Len(kept) \in Nat
    BY Next1, LenProperties
  <1>2. CASE Len(kept) < MaxTrackers /\ kept' = Append(kept, count + 1)
    <2>1. /\ kept' \in Seq(Ids) /\ Len(kept') = Len(kept) + 1
          /\ \A n \in 1 .. Len(kept) : kept'[n] = kept[n]
          /\ kept'[Len(kept) + 1] = count + 1
      BY <1>1, <1>2, AppendProperties
    <2>2. DOMAIN kept' = 1 .. Len(kept) + 1 /\ DOMAIN kept = 1 .. Len(kept)
      BY <1>1, <2>1, LenProperties
    <2>3. \A n \in DOMAIN kept' : kept'[n] = count + 1 \/ (n \in DOMAIN kept /\ kept'[n] = kept[n])
      BY <1>1, <2>1, <2>2
    <2>4. QED
      BY <1>1, <1>2, <2>1, <2>3, Bounds DEF Retained, ToSet
  <1>3. CASE Len(kept) >= MaxTrackers /\ kept' = Append(Tail(kept), count + 1)
    <2>1. kept # <<>>
      <3>1. Len(kept) # 0
        BY <1>1, <1>3, Bounds
      <3>2. QED
        BY <3>1, EmptySeq
    <2> DEFINE t == Tail(kept)
    <2>2. /\ t \in Seq(Ids) /\ Len(t) = Len(kept) - 1
          /\ \A n \in 1 .. Len(t) : t[n] = kept[n + 1]
      BY <1>1, <2>1, HeadTailProperties
    <2>3. Len(kept) = MaxTrackers
      BY <1>1, <1>3, Bounds DEF Inv, KeptInv
    <2> HIDE DEF t
    <2>4. /\ kept' \in Seq(Ids) /\ Len(kept') = Len(t) + 1
          /\ \A n \in 1 .. Len(t) : kept'[n] = t[n]
          /\ kept'[Len(t) + 1] = count + 1
      <3>1. kept' = Append(t, count + 1)
        BY <1>3 DEF t
      <3>2. QED
        BY <1>1, <2>2, <3>1, AppendProperties
    <2>5. DOMAIN kept' = 1 .. Len(kept) /\ DOMAIN kept = 1 .. Len(kept)
      BY <1>1, <2>2, <2>4, LenProperties
    <2>6. \A n \in DOMAIN kept' : kept'[n] = count + 1 \/ (n + 1 \in DOMAIN kept /\ kept'[n] = kept[n + 1])
      BY <1>1, <2>2, <2>4, <2>5
    <2>7. Len(kept') <= MaxTrackers
      BY <1>1, <2>2, <2>3, <2>4
    <2>8. QED
      BY <2>4, <2>6, <2>7 DEF Retained, ToSet
  <1>4. QED
    BY <1>2, <1>3

\* A tracker starts in this epoch, before any switch, and with no read.
LEMMA Starts ==
  ASSUME Inv, NEW tied \in BOOLEAN, Start(tied) \/ StartEvicting(tied)
  PROVE  Inv' /\ \A j \in Retained : phase'[j] = phase[j]
  <1>1. Starting /\ Begun(count + 1, tied)
    BY DEF Start, StartEvicting
  <1>2. /\ count + 1 \in Ids /\ count + 1 \in 0 .. MaxStarts /\ count \in Nat
        /\ count + 1 \notin Retained /\ Retained \subseteq Ids
    BY <1>1, Next1
  <1>3. /\ kept' \in Seq(Ids) /\ Len(kept') <= MaxTrackers
        /\ Retained' \subseteq Retained \union {count + 1}
    BY <1>1, Keeping DEF Start, StartEvicting
  <1>4. /\ Worker(tied) \in Workers /\ Worker(tied).read = "none"
    BY DEF Worker, Idle, Workers, Alive
  <1>5. /\ work' \in [Ids -> Workers] /\ work'[count + 1] = Worker(tied)
        /\ \A j \in Ids \ {count + 1} : work'[j].at = work[j].at /\ work'[j].read = work[j].read
    <2>1. \A j \in Ids : /\ work[j] \in Workers
                         /\ [work[j] EXCEPT !.upon = @ \union {"cancel"}] \in Workers
                         /\ [work[j] EXCEPT !.upon = @ \union {"cancel"}].at = work[j].at
                         /\ [work[j] EXCEPT !.upon = @ \union {"cancel"}].read = work[j].read
      BY DEF Inv, TypeOK, Workers
    <2>2. \A j \in Ids \ {count + 1} :
             work'[j] \in {work[j], [work[j] EXCEPT !.upon = @ \union {"cancel"}]}
      BY DEF Start, StartEvicting, Inv, TypeOK
    <2>3. work'[count + 1] = Worker(tied) /\ DOMAIN work' = Ids /\ work' = [j \in Ids |-> work'[j]]
      BY <1>2 DEF Start, StartEvicting, Inv, TypeOK
    <2>4. work' \in [Ids -> Workers]
      <3>1. \A j \in Ids : work'[j] \in Workers
        BY <1>4, <2>1, <2>2, <2>3
      <3>2. QED
        BY <2>3, <3>1
    <2>5. \A j \in Ids \ {count + 1} : work'[j].at = work[j].at /\ work'[j].read = work[j].read
      BY <2>1, <2>2
    <2>6. QED
      BY <2>3, <2>4, <2>5
  <1>6. /\ count' = count + 1 /\ UNCHANGED <<epoch, switch, app>> /\ switch = "none"
        /\ home' \in [Ids -> Nat] /\ home'[count + 1] = epoch
        /\ \A j \in Ids \ {count + 1} : home'[j] = home[j]
    BY <1>1, <1>2 DEF Begun, Starting, session, Inv, TypeOK
  <1>7. /\ phase' \in [Ids -> {"none"} \union Active \union Final]
        /\ \A j \in Ids \ {count + 1} : phase'[j] = phase[j]
    BY <1>1, <1>2 DEF Begun, Inv, TypeOK, Active, Final
  <1>8. Living' \subseteq Living \union {count + 1} /\ InFlight' \subseteq InFlight
    BY <1>4, <1>5 DEF Living, InFlight
  <1>9. TypeOK'
    BY <1>2, <1>3, <1>5, <1>6, <1>7 DEF Inv, TypeOK
  <1>10. KeptInv'
    BY <1>2, <1>3, <1>6 DEF Inv, KeptInv, TypeOK, Ids
  <1>11. HomeInv'
    BY <1>6, <1>8 DEF Inv, HomeInv, Living, InFlight
  <1>12. DrainedInv' /\ ReadInv'
    BY <1>6, <1>8, FewerReads DEF Inv, DrainedInv
  <1>13. QED
    BY <1>2, <1>7, <1>9, <1>10, <1>11, <1>12 DEF Inv

-----------------------------------------------------------------------------
(* The invariant.                                                          *)

\* It holds before the first write.
LEMMA InitInv == Init => Inv
  <1> SUFFICES ASSUME Init PROVE Inv
    OBVIOUS
  <1>1. kept = <<>> /\ kept \in Seq(Ids) /\ Len(kept) = 0 /\ DOMAIN kept = {}
    BY EmptySeq DEF Init
  <1>2. Idle \in Workers
    BY DEF Idle, Workers
  <1>3. TypeOK
    BY <1>1, <1>2, Bounds DEF Init, TypeOK
  <1>4. Living = {} /\ InFlight = {} /\ Retained = {}
    BY <1>1 DEF Init, Living, InFlight, Idle, Alive, Retained, ToSet
  <1>5. Cardinality(InFlight) = 0
    BY <1>4, FS_EmptySet
  <1>6. QED
    BY <1>1, <1>3, <1>4, <1>5, Bounds DEF Inv, KeptInv, HomeInv, DrainedInv, ReadInv

\* A step that winds down keeps it, whatever becomes of the switch, unless it drains it.
LEMMA WindingDown ==
  ASSUME Inv, Winds, work' \in [Ids -> Workers], phase' \in [Ids -> {"none"} \union Active \union Final],
         switch' \in {"none", "stopping", "drained"}, app' \in {"up", "closing", "down"},
         switch' = "drained" => switch = "drained" \/ (Living' = {} /\ InFlight' = {})
  PROVE  Inv'
  <1>1. TypeOK'
    BY DEF Inv, TypeOK, Winds
  <1>2. KeptInv'
    BY DEF Inv, KeptInv, Winds, Retained
  <1>3. HomeInv' /\ DrainedInv'
    BY DEF Inv, HomeInv, DrainedInv, Winds
  <1>4. ReadInv'
    BY FewerReads DEF Inv, Winds
  <1>5. QED
    BY <1>1, <1>2, <1>3, <1>4 DEF Inv

\* A read that starts keeps it: it starts at home, under the cap, before the switch drained.
LEMMA Reading ==
  ASSUME Inv, NEW i \in Ids, Reads(i), work' \in [Ids -> Workers],
         phase' \in [Ids -> {"none"} \union Active \union Final]
  PROVE  Inv'
  <1>1. TypeOK'
    BY DEF Inv, TypeOK, Reads, session
  <1>2. KeptInv'
    BY DEF Inv, KeptInv, Reads, Retained
  <1>3. HomeInv' /\ DrainedInv'
    BY DEF Inv, HomeInv, DrainedInv, Reads, session
  <1>4. ReadInv'
    <2>1. IsFiniteSet(InFlight)
      BY Bounds, FS_Subset DEF InFlight
    <2>2. /\ Cardinality(InFlight) \in Nat
          /\ Cardinality(InFlight') \in {Cardinality(InFlight), Cardinality(InFlight) + 1}
      BY <2>1, FS_CardinalityType, FS_AddElement DEF Reads
    <2>3. QED
      BY <2>2, Bounds DEF Reads, ReadInv
  <1>5. QED
    BY <1>1, <1>2, <1>3, <1>4 DEF Inv

\* A switch or an exit that stops the trackers.
LEMMA Stopping ==
  ASSUME Inv, NEW reason \in Final, StopAll(reason), epoch' = epoch
  PROVE  /\ work' \in [Ids -> Workers] /\ Winds
         /\ phase' \in [Ids -> {"none"} \union Active \union Final]
         /\ \A j \in Ids : ~Open(j) => phase'[j] = phase[j]
  <1>1. work' \in [Ids -> Workers] /\ Living' = Living /\ InFlight' = InFlight
    BY Marking DEF StopAll, Inv
  <1>2. Winds
    BY <1>1 DEF Winds, StopAll
  <1>3. /\ phase' \in [Ids -> {"none"} \union Active \union Final]
        /\ \A j \in Ids : ~Open(j) => phase'[j] = phase[j]
    BY DEF StopAll, Inv, TypeOK
  <1>4. QED
    BY <1>1, <1>2, <1>3

\* Every step keeps it.
LEMMA NextInv == Inv /\ [Next]_vars => Inv'
  <1> SUFFICES ASSUME Inv, [Next]_vars PROVE Inv'
    OBVIOUS
  <1>1. TypeOK
    BY DEF Inv
  <1>2. CASE \E tied \in BOOLEAN : Start(tied) \/ StartEvicting(tied)
    BY <1>2, Starts
  <1>3. ASSUME NEW i \in Ids, StopByUser(i)
        PROVE  Inv'
    <2>1. work' \in [Ids -> Workers] /\ Living' = Living /\ InFlight' = InFlight
      BY <1>1, <1>3, Marking DEF StopByUser
    <2>2. Winds /\ UNCHANGED session
      BY <1>3, <2>1 DEF Winds, StopByUser, session
    <2>3. phase' \in [Ids -> {"none"} \union Active \union Final]
      BY <1>1, <1>3, Updating DEF StopByUser, Final
    <2>4. QED
      BY <1>1, <2>1, <2>2, <2>3, WindingDown DEF session, TypeOK
  <1>4. ASSUME NEW i \in Ids, Step(i)
        PROVE  Inv'
    <2>1. /\ work' \in [Ids -> Workers]
          /\ phase' \in [Ids -> {"none"} \union Active \union Final]
          /\ (Winds \/ Reads(i)) /\ UNCHANGED session
      BY <1>4, WorkerSteps
    <2>2. QED
      BY <1>1, <2>1, WindingDown, Reading DEF session, TypeOK
  <1>5. ASSUME NEW i \in Ids, ReadEnds(i) \/ DeadlinePasses(i) \/ TimerFires(i)
        PROVE  Inv'
    <2>1. work' \in [Ids -> Workers] /\ Winds /\ UNCHANGED <<phase, session>>
      BY <1>5, Surroundings
    <2>2. QED
      BY <1>1, <2>1, WindingDown DEF session, TypeOK
  <1>6. CASE Switch
    <2>1. /\ work' \in [Ids -> Workers] /\ Winds
          /\ phase' \in [Ids -> {"none"} \union Active \union Final]
      BY <1>6, Stopping DEF Switch, Final
    <2>2. QED
      BY <1>1, <1>6, <2>1, WindingDown DEF Switch, TypeOK
  <1>7. CASE Drained
    <2>1. UNCHANGED <<trackers, work, epoch, app>> /\ Living = {}
          /\ switch' = IF InFlight = {} THEN "drained" ELSE "none"
      BY <1>7 DEF Drained
    <2>2. Winds /\ Living' = {} /\ (InFlight = {} => InFlight' = {})
      BY <2>1 DEF Winds, trackers, Living, InFlight
    <2>3. QED
      BY <1>1, <2>1, <2>2, WindingDown DEF trackers, TypeOK
  <1>8. CASE Swap
    <2>1. /\ switch = "drained" /\ switch' = "none" /\ epoch' = epoch + 1
          /\ UNCHANGED <<trackers, work, app>>
      BY <1>8 DEF Swap
    <2>2. Living' = {} /\ InFlight' = {} /\ InFlight = {}
      BY <2>1 DEF Inv, DrainedInv, Living, InFlight
    <2>3. TypeOK'
      BY <1>1, <2>1 DEF TypeOK, trackers
    <2>4. KeptInv'
      BY <2>1 DEF Inv, KeptInv, trackers, Retained
    <2>5. HomeInv' /\ DrainedInv' /\ ReadInv'
      BY <2>1, <2>2 DEF Inv, HomeInv, DrainedInv, ReadInv
    <2>6. QED
      BY <2>3, <2>4, <2>5 DEF Inv
  <1>9. CASE Quit
    <2>1. work' \in [Ids -> Workers] /\ Living' = Living /\ InFlight' = InFlight
      BY <1>1, <1>9, Marking DEF Quit
    <2>2. Winds
      BY <1>9, <2>1 DEF Winds, Quit, trackers
    <2>3. QED
      BY <1>1, <1>9, <2>1, <2>2, WindingDown DEF Quit, trackers, TypeOK
  <1>10. CASE Unmount
    <2>1. /\ work' \in [Ids -> Workers] /\ Winds
          /\ phase' \in [Ids -> {"none"} \union Active \union Final]
      BY <1>10, Stopping DEF Unmount, Final
    <2>2. QED
      BY <1>1, <1>10, <2>1, WindingDown DEF Unmount, TypeOK
  <1>11. CASE UNCHANGED vars
    <2>1. UNCHANGED <<trackers, work, session>>
      BY <1>11 DEF vars
    <2>2. Winds
      BY <2>1 DEF Winds, trackers, session, Living, InFlight
    <2>3. QED
      BY <1>1, <2>1, <2>2, WindingDown DEF trackers, session, TypeOK
  <1>12. QED
    BY <1>2, <1>3, <1>4, <1>5, <1>6, <1>7, <1>8, <1>9, <1>10, <1>11 DEF Next

\* So it always holds.
THEOREM Invariance == Spec => []Inv
  BY InitInv, NextInv, PTL DEF Spec

\* The types of the state.
THEOREM TypeCorrect == Spec => []TypeOK
  BY Invariance, PTL DEF Inv

\* The client is never swapped under a read that still runs, and the reads in flight, those of
\* evicted and stopped trackers among them, never exceed the cap
\* (DeploymentOutcomeController._pending_reads, ContextSwitchCoordinator).
THEOREM ReadsEndAtHome == Spec => []ReadsStayHome
  <1>1. Inv => ReadsStayHome
    BY DEF Inv, HomeInv, DrainedInv, ReadInv, ReadsStayHome
  <1>2. QED
    BY <1>1, Invariance, PTL

\* A final outcome is not overwritten while it is retained, by a late read, a timeout, a
\* cancellation or a stop (DeploymentOutcomeController._update).
THEOREM FinalOutcomesStay == Spec => FinalStays
  <1>1. Inv /\ [Next]_vars =>
          (\A i \in Ids : i \in Retained /\ phase[i] \in Final => phase'[i] = phase[i])
    <2> SUFFICES ASSUME Inv, [Next]_vars, NEW i \in Ids, i \in Retained, phase[i] \in Final
                 PROVE  phase'[i] = phase[i]
      OBVIOUS
    <2>1. TypeOK /\ phase[i] \notin Active /\ ~Open(i)
      BY DEF Inv, Open, Active, Final
    <2>2. CASE \E tied \in BOOLEAN : Start(tied) \/ StartEvicting(tied)
      BY <2>2, Starts
    <2>3. ASSUME NEW j \in Ids, StopByUser(j)
          PROVE  phase'[i] = phase[i]
      BY <2>1, <2>3 DEF StopByUser, Update, TypeOK
    <2>4. ASSUME NEW j \in Ids, Step(j)
          PROVE  phase'[i] = phase[i]
      <3>1. j \in Living => home[j] = epoch
        BY DEF Inv, HomeInv
      <3>2. ASSUME NEW p, Mark(j, p)
            PROVE  phase'[i] = phase[i]
        BY <2>1, <3>2 DEF Mark, Update, TypeOK
      <3>3. ASSUME NEW p, Update(j, p), j # i
            PROVE  phase'[i] = phase[i]
        BY <2>1, <3>3 DEF Update, TypeOK
      <3>4. CASE Polls(j)
        <4>1. home[j] = epoch
          BY <3>1, <3>4 DEF Polls, Living, Alive
        <4>2. QED
          BY <3>2, <3>4, <4>1 DEF Polls, Poll
      <3>5. CASE Resumes(j)
        <4>1. home[j] = epoch
          BY <3>1, <3>5 DEF Resumes, Living, Alive
        <4>2. CASE ~Open(j)
          BY <3>2, <3>5, <4>2 DEF Resumes
        <4>3. CASE j # i
          BY <3>2, <3>3, <3>5, <4>1, <4>3 DEF Resumes, Apply, NextPoll
        <4>4. QED
          BY <2>1, <4>2, <4>3
      <3>6. CASE NeverBegins(j) \/ Interrupted(j) \/ Unwinds(j)
        BY <3>2, <3>6 DEF NeverBegins, Interrupted, Unwinds, Ends, trackers
      <3>7. QED
        BY <2>4, <3>4, <3>5, <3>6 DEF Step
    <2>5. ASSUME NEW j \in Ids, ReadEnds(j) \/ DeadlinePasses(j) \/ TimerFires(j)
          PROVE  phase'[i] = phase[i]
      BY <2>5, Surroundings
    <2>6. CASE Switch \/ Unmount
      BY <2>1, <2>6, Stopping DEF Switch, Unmount, Final
    <2>7. CASE Drained \/ Swap \/ Quit \/ UNCHANGED vars
      BY <2>7 DEF Drained, Swap, Quit, vars, trackers
    <2>8. QED
      BY <2>2, <2>3, <2>4, <2>5, <2>6, <2>7 DEF Next
  <1>2. QED
    BY <1>1, Invariance, PTL DEF Spec, FinalStays
=============================================================================
